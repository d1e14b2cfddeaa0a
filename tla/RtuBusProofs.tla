---------------------------- MODULE RtuBusProofs ----------------------------
(* Theorems about RtuBus for any slaves and values, any number of calls, and *)
(* any number of disturbed messages.                                         *)
EXTENDS RtuBus, SequenceTheorems, TLAPS

\* What is unread at slave s, which has executed the request with number e,
\* when r is the last request: what s will take for a request to it is one;
\* requests are newer than e, in the order they were sent, and the newest is r.
Sound(q, s, e, r) ==
    /\ \A i \in 1..Len(q) :
         /\ q[i].crc /\ ForMe(s, q[i]) => q[i].kind = "ind"
         /\ q[i].kind = "ind" => e < q[i].no /\ q[i].no <= r.no
         /\ q[i].kind = "ind" /\ q[i].crc /\ q[i].no = r.no => q[i] = r
    /\ \A i, j \in 1..Len(q) :
         i < j /\ q[i].kind = "ind" /\ q[j].kind = "ind" => q[i].no < q[j].no

Queues(q, e, r) ==
    \A s \in Slaves : e[s] <= r.no /\ Sound(q[s], s, e[s], r)

\* s will execute nothing of q
Clean(q, s) == \A i \in 1..Len(q) : ~(q[i].crc /\ ForMe(s, q[i]))

\* s will execute nothing of q but r
OnlyLast(q, s, r) ==
    \A i \in 1..Len(q) : q[i].crc /\ ForMe(s, q[i]) => q[i].no = r.no

\* the timeouts or the flush keep late answers from the next call, and the
\* master can tell where the answers end
Timely == timing = "prompt" \/ (timing = "slow" /\ recovery)

Settled == Timely /\ ~torn

\* then the only answer on the line is that to the last request, the requests
\* before it have been executed by then, and a success is true
Answers(p, o, g, r, mb, q, rg) ==
    /\ Len(mb) <= 1 /\ \A s \in Slaves : OnlyLast(q[s], s, r)
    /\ p = "idle" \/ mb # <<>> => \A s \in Slaves : Clean(q[s], s)
    /\ p = "idle" => mb = <<>>
    /\ mb # <<>> => mb[1].kind = "con"
    /\ mb # <<>> /\ mb[1].crc =>
         /\ r.slave \in Slaves /\ mb[1].val = rg[r.slave]
         /\ mb[1].fn # "read" => mb[1].val = r.val
    /\ p = "idle" /\ o => r.slave \in Slaves /\ rg[r.slave] = g

QueuesInv == Queues(rx, executed, req)

AnswersInv == Settled => Answers(pc, ok, got, req, mbuf, rx, regs)

TornInv == torn => noise # 0

IInv == TypeOK /\ QueuesInv /\ AnswersInv /\ TornInv

-----------------------------------------------------------------------------
(* Messages.                                                                 *)

LEMMA ConstantFacts ==
    /\ \A s \in Slaves : s \in Nat /\ s # Broadcast /\ s \in Numbers
    /\ Broadcast \in Numbers
    /\ InitVal \in Vals /\ MaxNoise \in Nat /\ Pieces \in Nat
  BY ConstantsAssumption DEF Numbers, Broadcast, Pieces

LEMMA JunkType ==
    ASSUME NEW n \in Nat
    PROVE  Junk(n) \in Frames /\ Junk(n).kind = "junk"
  BY ConstantFacts DEF Junk, Frames, Functions

LEMMA DisturbedType ==
    ASSUME NEW m \in Frames, NEW d \in Disturbed(m)
    PROVE  /\ d \in Frames /\ d.crc = FALSE
           /\ \/ d.kind = "junk"
              \/ d.kind = m.kind /\ d.no = m.no /\ d.fn = m.fn /\ d.val = m.val
  <1>1. CASE d = Junk(Pieces)
    <2>1. Junk(Pieces) \in Frames /\ Junk(Pieces).kind = "junk"
      BY JunkType, ConstantFacts
    <2>2. Junk(Pieces).crc = FALSE
      BY DEF Junk
    <2>3. QED  BY <1>1, <2>1, <2>2
  <1>2. CASE \E n \in Slaves : d = [m EXCEPT !.crc = FALSE, !.slave = n]
    <2>1. PICK n \in Slaves : d = [m EXCEPT !.crc = FALSE, !.slave = n]
      BY <1>2
    <2>2. n \in Numbers
      BY ConstantFacts
    <2>3. QED  BY <2>1, <2>2 DEF Frames
  <1>3. QED  BY <1>1, <1>2 DEF Disturbed

LEMMA AnswerType ==
    ASSUME NEW s \in Slaves, NEW m \in Frames, regs \in [Slaves -> Vals]
    PROVE  /\ Answer(s, m) \in Frames /\ Answer(s, m).kind = "con"
           /\ Answer(s, m).slave = s /\ Answer(s, m).fn = m.fn
           /\ Answer(s, m).val = IF m.fn = "read" THEN regs[s] ELSE m.val
  <1>1. s \in Numbers /\ regs[s] \in Vals
    BY ConstantFacts
  <1>2. QED  BY <1>1 DEF Answer, Frames

-----------------------------------------------------------------------------
(* Queues.                                                                   *)

\* p holds nothing but junk and messages of q, d places further on in q
Shifted(p, q, d) ==
    \A i \in 1..Len(p) :
        p[i].kind = "junk" \/ (i + d \in 1..Len(q) /\ p[i] = q[i + d])

Piece(p, q) == \E d \in Nat : Shifted(p, q, d)

LEMMA PieceSound ==
    ASSUME NEW p \in Seq(Frames), NEW q \in Seq(Frames), Piece(p, q),
           NEW s, NEW e, NEW r, Sound(q, s, e, r)
    PROVE  Sound(p, s, e, r)
  <1>1. PICK d \in Nat : Shifted(p, q, d)
    BY DEF Piece
  <1>2. Len(p) \in Nat /\ Len(q) \in Nat
    BY LenProperties
  <1>3. ASSUME NEW i \in 1..Len(p)
        PROVE  /\ p[i].crc /\ ForMe(s, p[i]) => p[i].kind = "ind"
               /\ p[i].kind = "ind" => e < p[i].no /\ p[i].no <= r.no
               /\ p[i].kind = "ind" /\ p[i].crc /\ p[i].no = r.no => p[i] = r
    <2>1. CASE p[i].kind = "junk"
      BY <2>1 DEF ForMe
    <2>2. CASE i + d \in 1..Len(q) /\ p[i] = q[i + d]
      BY <2>2 DEF Sound
    <2>3. QED  BY <1>1, <2>1, <2>2 DEF Shifted
  <1>4. ASSUME NEW i \in 1..Len(p), NEW j \in 1..Len(p),
               i < j, p[i].kind = "ind", p[j].kind = "ind"
        PROVE  p[i].no < p[j].no
    <2>1. i + d \in 1..Len(q) /\ p[i] = q[i + d] /\ j + d \in 1..Len(q) /\ p[j] = q[j + d]
      BY <1>1, <1>4 DEF Shifted
    <2>2. i + d < j + d
      BY <1>2, <1>4
    <2>3. QED  BY <1>4, <2>1, <2>2 DEF Sound
  <1>5. QED  BY <1>3, <1>4 DEF Sound

LEMMA PieceClean ==
    ASSUME NEW p, NEW q, Piece(p, q), NEW s, Clean(q, s)
    PROVE  Clean(p, s)
  BY DEF Piece, Shifted, Clean, ForMe

LEMMA PieceOnlyLast ==
    ASSUME NEW p, NEW q, Piece(p, q), NEW s, NEW r, OnlyLast(q, s, r)
    PROVE  OnlyLast(p, s, r)
  BY DEF Piece, Shifted, OnlyLast, ForMe

\* what is behind the first d messages, alone or behind junk
LEMMA Behind ==
    ASSUME NEW q \in Seq(Frames), NEW p \in Seq(Frames), NEW d \in Nat, d >= 1,
           d <= Len(q), Len(p) = Len(q) - d, \A i \in 1..Len(p) : p[i] = q[i + d]
    PROVE  /\ Piece(p, q)
           /\ \A n \in Nat : /\ <<Junk(n)>> \o p \in Seq(Frames)
                             /\ Piece(<<Junk(n)>> \o p, q)
  <1>1. Len(q) \in Nat /\ Len(p) \in Nat
    BY LenProperties
  <1>2. Shifted(p, q, d)
    BY <1>1 DEF Shifted
  <1>3. ASSUME NEW n \in Nat
        PROVE  <<Junk(n)>> \o p \in Seq(Frames) /\ Piece(<<Junk(n)>> \o p, q)
    <2> DEFINE j == <<Junk(n)>>  o == j \o p
    <2>1. j \in Seq(Frames) /\ Len(j) = 1 /\ j[1].kind = "junk"
      BY JunkType
    <2> HIDE DEF j
    <2>2. /\ o \in Seq(Frames) /\ Len(o) = Len(j) + Len(p)
          /\ \A i \in 1..(Len(j) + Len(p)) :
               o[i] = IF i <= Len(j) THEN j[i] ELSE p[i - Len(j)]
      BY <2>1, ConcatProperties
    <2> HIDE DEF o
    <2>3. ASSUME NEW i \in 1..Len(o)
          PROVE  \/ o[i].kind = "junk"
                 \/ i + (d - 1) \in 1..Len(q) /\ o[i] = q[i + (d - 1)]
      <3>1. CASE i = 1
        BY <2>1, <2>2, <3>1
      <3>2. CASE i # 1
        <4>1. i - 1 \in 1..Len(p) /\ i + (d - 1) \in 1..Len(q)
              /\ (i - 1) + d = i + (d - 1) /\ ~(i <= Len(j)) /\ i - Len(j) = i - 1
          BY <1>1, <2>1, <2>2, <3>2
        <4>2. o[i] = p[i - 1]
          BY <2>2, <4>1
        <4>3. p[i - 1] = q[(i - 1) + d]
          BY <4>1
        <4>4. QED  BY <4>1, <4>2, <4>3
      <3>3. QED  BY <3>1, <3>2
    <2>4. Shifted(o, q, d - 1) /\ d - 1 \in Nat
      BY <2>3 DEF Shifted
    <2>5. o \in Seq(Frames) /\ Piece(o, q)
      BY <2>2, <2>4 DEF Piece
    <2>6. QED  BY <2>5 DEF o, j
  <1>4. QED  BY <1>2, <1>3 DEF Piece

LEMMA TailPiece ==
    ASSUME NEW q \in Seq(Frames), q # <<>>
    PROVE  /\ Tail(q) \in Seq(Frames) /\ Piece(Tail(q), q)
           /\ \A n \in Nat : /\ <<Junk(n)>> \o Tail(q) \in Seq(Frames)
                             /\ Piece(<<Junk(n)>> \o Tail(q), q)
  <1>1. /\ Tail(q) \in Seq(Frames) /\ Len(Tail(q)) = Len(q) - 1
        /\ \A i \in 1..Len(Tail(q)) : Tail(q)[i] = q[i + 1]
    BY HeadTailProperties
  <1>2. 1 \in Nat /\ 1 >= 1 /\ 1 <= Len(q)
    BY LenProperties, EmptySeq
  <1> DEFINE p == Tail(q)
  <1>3. p \in Seq(Frames) /\ Len(p) = Len(q) - 1 /\ \A i \in 1..Len(p) : p[i] = q[i + 1]
    BY <1>1
  <1> HIDE DEF p
  <1>4. /\ Piece(p, q)
        /\ \A n \in Nat : <<Junk(n)>> \o p \in Seq(Frames) /\ Piece(<<Junk(n)>> \o p, q)
    BY <1>2, <1>3, Behind
  <1>5. QED  BY <1>3, <1>4 DEF p

LEMMA SuffixPiece ==
    ASSUME NEW q \in Seq(Frames), q # <<>>, NEW n \in 2..(Len(q) + 1)
    PROVE  /\ SubSeq(q, n, Len(q)) \in Seq(Frames) /\ Piece(SubSeq(q, n, Len(q)), q)
           /\ <<Junk(Pieces)>> \o SubSeq(q, n, Len(q)) \in Seq(Frames)
           /\ Piece(<<Junk(Pieces)>> \o SubSeq(q, n, Len(q)), q)
  <1>1. Len(q) \in Nat /\ \A i \in n..Len(q) : q[i] \in Frames
    BY LenProperties, ElementOfSeq
  <1>2. /\ SubSeq(q, n, Len(q)) \in Seq(Frames)
        /\ Len(SubSeq(q, n, Len(q))) = IF n <= Len(q) THEN Len(q) - n + 1 ELSE 0
        /\ \A i \in 1..(Len(q) - n + 1) : SubSeq(q, n, Len(q))[i] = q[n + i - 1]
    BY <1>1, SubSeqProperties
  <1> DEFINE p == SubSeq(q, n, Len(q))  d == n - 1
  <1>3. /\ p \in Seq(Frames) /\ d \in Nat /\ d >= 1 /\ d <= Len(q)
        /\ Len(p) = Len(q) - d
    BY <1>1, <1>2
  <1>4. ASSUME NEW i \in 1..Len(p)
        PROVE  p[i] = q[i + d]
    <2>1. i \in 1..(Len(q) - n + 1) /\ n + i - 1 = i + d
      BY <1>1, <1>3
    <2>2. QED  BY <1>2, <2>1
  <1> HIDE DEF p, d
  <1>5. /\ Piece(p, q)
        /\ \A k \in Nat : <<Junk(k)>> \o p \in Seq(Frames) /\ Piece(<<Junk(k)>> \o p, q)
    BY <1>3, <1>4, Behind
  <1>6. QED  BY <1>3, <1>5, ConstantFacts DEF p

LEMMA PieceOfPiece ==
    ASSUME NEW p \in Seq(Frames), NEW q \in Seq(Frames), NEW o \in Seq(Frames),
           Piece(o, p), Piece(p, q)
    PROVE  Piece(o, q)
  <1>1. PICK d \in Nat : Shifted(o, p, d)
    BY DEF Piece
  <1>2. PICK f \in Nat : Shifted(p, q, f)
    BY DEF Piece
  <1>3. Len(o) \in Nat /\ Len(p) \in Nat /\ Len(q) \in Nat
    BY LenProperties
  <1>4. ASSUME NEW i \in 1..Len(o), o[i].kind # "junk"
        PROVE  i + (d + f) \in 1..Len(q) /\ o[i] = q[i + (d + f)]
    <2>1. i + d \in 1..Len(p) /\ o[i] = p[i + d]
      BY <1>1, <1>4 DEF Shifted
    <2>2. (i + d) + f \in 1..Len(q) /\ p[i + d] = q[(i + d) + f]
      BY <1>2, <1>4, <2>1 DEF Shifted
    <2>3. (i + d) + f = i + (d + f)
      BY <1>3
    <2>4. QED  BY <2>1, <2>2, <2>3
  <1>5. Shifted(o, q, d + f) /\ d + f \in Nat
    BY <1>4 DEF Shifted
  <1>6. QED  BY <1>5 DEF Piece

\* the ways junk at the head of a queue can be cut, and a cut message
LEMMA RestsArePieces ==
    ASSUME NEW q \in Seq(Frames), q # <<>>, NEW p \in RestsOfJunk(q)
    PROVE  p \in Seq(Frames) /\ Piece(p, q)
  <1>1. Len(q) \in Nat /\ Len(q) # 0
    BY LenProperties, EmptySeq
  <1>2. CASE \E n \in 2..(Len(q) + 1) : p = SubSeq(q, n, Len(q))
    BY <1>2, SuffixPiece
  <1>3. CASE \E n \in 3..(Len(q) + 1) : p = <<Junk(Pieces)>> \o SubSeq(q, n, Len(q))
    <2>1. PICK n \in 3..(Len(q) + 1) : p = <<Junk(Pieces)>> \o SubSeq(q, n, Len(q))
      BY <1>3
    <2>2. n \in 2..(Len(q) + 1)
      BY <1>1
    <2>3. QED  BY <2>1, <2>2, SuffixPiece
  <1>4. CASE q[1].no # 0 /\ p = <<Junk(q[1].no - 1)>> \o Tail(q)
    <2>1. q[1] \in Frames
      BY <1>1, ElementOfSeq
    <2>2. q[1].no - 1 \in Nat
      BY <1>4, <2>1 DEF Frames
    <2>3. QED  BY <1>4, <2>2, TailPiece
  <1>5. QED  BY <1>2, <1>3, <1>4 DEF RestsOfJunk

\* whatever a slave drops, it keeps a piece of what it had
LEMMA DropsKeepPiece ==
    ASSUME TypeOK, NEW s \in Slaves,
           IgnoreMessage(s) \/ Filter(s) \/ FilterJunk(s) \/ Quit(s)
    PROVE  \E p \in Seq(Frames) : Piece(p, rx[s]) /\ rx' = [rx EXCEPT ![s] = p]
  <1>1. rx[s] \in Seq(Frames) /\ rx[s] # <<>>
    BY DEF TypeOK, IgnoreMessage, Filter, FilterJunk, Quit
  <1>2. /\ Rest(s) \in Seq(Frames) /\ Piece(Rest(s), rx[s])
        /\ <<Junk(Pieces)>> \o Rest(s) \in Seq(Frames)
        /\ Piece(<<Junk(Pieces)>> \o Rest(s), rx[s])
    BY <1>1, TailPiece, ConstantFacts DEF Rest
  <1>3. ASSUME NEW p \in RestsOfJunk(rx[s]), Read(s, p)
        PROVE  \E o \in Seq(Frames) : Piece(o, rx[s]) /\ rx' = [rx EXCEPT ![s] = o]
    BY <1>1, <1>3, RestsArePieces DEF Read
  <1>4. CASE IgnoreMessage(s)
    BY <1>2, <1>3, <1>4 DEF IgnoreMessage, Read
  <1>5. CASE Filter(s)
    <2>1. CASE Rest(s) # <<>> /\ Read(s, <<Junk(Pieces)>> \o Tail(Rest(s)))
      <3>1. /\ <<Junk(Pieces)>> \o Tail(Rest(s)) \in Seq(Frames)
            /\ Piece(<<Junk(Pieces)>> \o Tail(Rest(s)), Rest(s))
        BY <1>2, <2>1, TailPiece, ConstantFacts
      <3>2. Piece(<<Junk(Pieces)>> \o Tail(Rest(s)), rx[s])
        BY <1>1, <1>2, <3>1, PieceOfPiece
      <3>3. QED  BY <2>1, <3>1, <3>2 DEF Read
    <2>2. CASE Read(s, Rest(s))
      BY <1>2, <2>2 DEF Read
    <2>3. QED  BY <1>5, <2>1, <2>2 DEF Filter
  <1>6. CASE FilterJunk(s)
    BY <1>3, <1>6 DEF FilterJunk
  <1>7. CASE Quit(s)
    <2>1. <<>> \in Seq(Frames) /\ Shifted(<<>>, rx[s], 0)
      BY EmptySeq DEF Shifted
    <2>2. QED  BY <1>7, <2>1 DEF Quit, Read, Piece
  <1>8. QED  BY <1>4, <1>5, <1>6, <1>7

-----------------------------------------------------------------------------
(* What the listeners hear.                                                  *)

\* a listener hears nothing, m or a disturbed m
HeardAs(new, old, m) ==
    new = old \/ \E c \in Disturbed(m) \cup {m} : new = Append(old, c)

LEMMA SpreadHeard ==
    ASSUME rx \in [Slaves -> Seq(Frames)], NEW D, NEW m \in Frames, NEW t,
           NEW d \in Disturbed(m) \cup {m}
    PROVE  /\ Spread(D, m, t, d) \in [Slaves -> Seq(Frames)]
           /\ \A s \in Slaves : HeardAs(Spread(D, m, t, d)[s], rx[s], m)
  <1>1. d \in Frames
    BY DisturbedType
  <1>2. ASSUME NEW s \in Slaves
        PROVE  /\ Spread(D, m, t, d)[s] \in Seq(Frames)
               /\ HeardAs(Spread(D, m, t, d)[s], rx[s], m)
    <2>1. Append(rx[s], m) \in Seq(Frames) /\ Append(rx[s], d) \in Seq(Frames)
      BY <1>1, AppendProperties
    <2>2. QED  BY <2>1 DEF Spread, HeardAs
  <1>3. QED  BY <1>2 DEF Spread

LEMMA HearsHeard ==
    ASSUME TypeOK, NEW m \in Frames, Hears(m)
    PROVE  /\ rx' \in [Slaves -> Seq(Frames)] /\ noise' \in 0..MaxNoise
           /\ \A s \in Slaves : HeardAs(rx'[s], rx[s], m)
  <1>1. rx \in [Slaves -> Seq(Frames)]
    BY DEF TypeOK
  <1>2. noise' \in 0..MaxNoise
    BY ConstantFacts DEF TypeOK, Hears, Disturb
  <1>3. PICK t \in up \cup {Broadcast}, d \in Disturbed(m) \cup {m} :
          rx' = Spread(up, m, t, d)
    BY DEF Hears
  <1>4. QED  BY <1>1, <1>2, <1>3, SpreadHeard

LEMMA TransmitHeard ==
    ASSUME TypeOK, NEW s \in Slaves, rx[s] # <<>>, NEW c \in Frames, Transmit(s, c)
    PROVE  /\ rx' \in [Slaves -> Seq(Frames)] /\ noise' \in 0..MaxNoise
           /\ rx'[s] = Rest(s)
           /\ \A t \in Slaves \ {s} : HeardAs(rx'[t], rx[t], c)
           /\ \E d \in Disturbed(c) \cup {c} :
                mbuf' = Append(mbuf, d) /\ torn' = (torn \/ d.kind = "junk")
  <1>1. rx \in [Slaves -> Seq(Frames)] /\ Rest(s) \in Seq(Frames)
    BY HeadTailProperties DEF TypeOK, Rest
  <1>2. noise' \in 0..MaxNoise
    BY ConstantFacts DEF TypeOK, Transmit, Disturb
  <1>3. PICK t \in up \cup {Broadcast}, d \in Disturbed(c) \cup {c} :
          rx' = [Spread(up, c, t, d) EXCEPT ![s] = Rest(s)]
    BY DEF Transmit
  <1>4. \E d1 \in Disturbed(c) \cup {c} :
          mbuf' = Append(mbuf, d1) /\ torn' = (torn \/ d1.kind = "junk")
    BY DEF Transmit, ToMaster
  <1>5. /\ Spread(up, c, t, d) \in [Slaves -> Seq(Frames)]
        /\ \A u \in Slaves : HeardAs(Spread(up, c, t, d)[u], rx[u], c)
    BY <1>1, SpreadHeard
  <1>6. QED  BY <1>1, <1>2, <1>3, <1>4, <1>5

-----------------------------------------------------------------------------
(* Types.                                                                    *)

\* the parts of TypeOK about the two ends
MasterTypes ==
    /\ timing \in Timings /\ recovery \in BOOLEAN
    /\ pc \in {"idle", "wait", "flush"}
    /\ req \in Frames /\ ok \in BOOLEAN /\ got \in Vals
    /\ mbuf \in Seq(Frames) /\ torn \in BOOLEAN

SlaveTypes ==
    /\ up \subseteq Slaves
    /\ rx \in [Slaves -> Seq(Frames)] /\ ignore \in [Slaves -> BOOLEAN]
    /\ regs \in [Slaves -> Vals] /\ executed \in [Slaves -> Nat]
    /\ noise \in 0..MaxNoise

LEMMA InitTypes == Init => TypeOK
  <1> SUFFICES ASSUME Init PROVE TypeOK
    OBVIOUS
  <1>1. req \in Frames
    BY ConstantFacts DEF Init, Frames, Functions
  <1>2. <<>> \in Seq(Frames)
    BY EmptySeq
  <1>3. MasterTypes
    BY <1>1, <1>2, ConstantFacts DEF Init, MasterTypes
  <1>4. /\ up \subseteq Slaves /\ ignore \in [Slaves -> BOOLEAN]
        /\ executed \in [Slaves -> Nat] /\ noise \in 0..MaxNoise
    BY ConstantFacts DEF Init
  <1>5. rx \in [Slaves -> Seq(Frames)] /\ regs \in [Slaves -> Vals]
    BY <1>2, ConstantFacts DEF Init
  <1>6. QED  BY <1>3, <1>4, <1>5 DEF MasterTypes, TypeOK

LEMMA CallTypes ==
    ASSUME TypeOK, NEW s \in Numbers, NEW fn \in Functions, NEW v \in Vals,
           Call(s, fn, v)
    PROVE  req' \in Frames /\ TypeOK'
  <1>1. req' \in Frames
    BY DEF TypeOK, Call, Frames
  <1>2. rx' \in [Slaves -> Seq(Frames)] /\ noise' \in 0..MaxNoise
    BY <1>1, HearsHeard DEF Call
  <1>3. MasterTypes'
    BY <1>1, ConstantFacts DEF TypeOK, MasterTypes, Call, config
  <1>4. SlaveTypes'
    BY <1>2 DEF TypeOK, SlaveTypes, Call, slaves
  <1>5. QED  BY <1>1, <1>3, <1>4 DEF TypeOK, MasterTypes, SlaveTypes

LEMMA FlushOrFailTypes ==
    ASSUME TypeOK, NEW f \in BOOLEAN, FlushOrFail(f)
    PROVE  /\ pc' \in {"idle", "flush"} /\ req' = req /\ ok' \in BOOLEAN
           /\ got' = got /\ (pc' = "idle" => ok' = FALSE) /\ (pc' = "flush" => f)
           /\ (pc' = "idle" => ~f)
  BY DEF TypeOK, FlushOrFail, Fail

LEMMA ReceiveTypes ==
    ASSUME TypeOK, Receive
    PROVE  TypeOK'
  <1>1. mbuf # <<>> /\ Tail(mbuf) \in Seq(Frames) /\ Head(mbuf) \in Frames
    BY HeadTailProperties DEF TypeOK, Receive
  <1>2. SlaveTypes'
    BY DEF TypeOK, SlaveTypes, Receive, slaves
  <1>3. timing' \in Timings /\ recovery' \in BOOLEAN /\ torn' \in BOOLEAN
    BY DEF TypeOK, Receive, config
  <1> DEFINE ends == /\ pc' \in {"idle", "flush"} /\ req' = req /\ ok' \in BOOLEAN
                     /\ got' = got
  <1>4. CASE BadChecksum(Head(mbuf))
    <2>1. mbuf' \in Seq(Frames)
      BY <1>1, <1>4, EmptySeq DEF BadChecksum
    <2>2. MasterTypes'
      BY <1>3, <1>4, <2>1 DEF TypeOK, MasterTypes, BadChecksum, Fail
    <2>3. QED  BY <1>2, <2>2 DEF TypeOK, MasterTypes, SlaveTypes
  <1>5. CASE WrongAnswer(Head(mbuf))
    <2>1. FlushOrFail(recovery) /\ recovery \in BOOLEAN /\ mbuf' = Tail(mbuf)
      BY <1>5 DEF WrongAnswer, TypeOK
    <2>2. ends
      BY <2>1, FlushOrFailTypes
    <2>3. MasterTypes'
      BY <1>1, <1>3, <2>1, <2>2 DEF TypeOK, MasterTypes
    <2>4. QED  BY <1>2, <2>3 DEF TypeOK, MasterTypes, SlaveTypes
  <1>6. CASE RightAnswer(Head(mbuf))
    <2>1. got' \in Vals
      BY <1>1, <1>6 DEF RightAnswer, TypeOK, Frames
    <2>2. MasterTypes'
      BY <1>1, <1>3, <1>6, <2>1 DEF TypeOK, MasterTypes, RightAnswer
    <2>3. QED  BY <1>2, <2>2 DEF TypeOK, MasterTypes, SlaveTypes
  <1>7. CASE Misread
    <2>1. mbuf' \in Seq(Frames)
      BY <1>1, <1>7, RestsArePieces DEF Misread, TypeOK
    <2>2. (Fail \/ FlushOrFail(recovery)) /\ recovery \in BOOLEAN
      BY <1>7 DEF Misread, TypeOK
    <2>3. CASE Fail
      <3>1. ends
        BY <2>3 DEF Fail, TypeOK
      <3>2. MasterTypes'
        BY <1>3, <2>1, <3>1 DEF TypeOK, MasterTypes
      <3>3. QED  BY <1>2, <3>2 DEF TypeOK, MasterTypes, SlaveTypes
    <2>4. CASE FlushOrFail(recovery)
      <3>1. ends
        BY <2>2, <2>4, FlushOrFailTypes
      <3>2. MasterTypes'
        BY <1>3, <2>1, <3>1 DEF TypeOK, MasterTypes
      <3>3. QED  BY <1>2, <3>2 DEF TypeOK, MasterTypes, SlaveTypes
    <2>5. QED  BY <2>2, <2>3, <2>4
  <1>8. QED  BY <1>4, <1>5, <1>6, <1>7 DEF Receive

LEMMA MasterTypesStep ==
    ASSUME TypeOK, MasterStep
    PROVE  TypeOK'
  <1>1. CASE ReceiveTimeout
    <2>1. FlushOrFail(recovery) /\ recovery \in BOOLEAN
      BY <1>1 DEF ReceiveTimeout, TypeOK
    <2>2. /\ pc' \in {"idle", "flush"} /\ req' = req /\ ok' \in BOOLEAN
          /\ got' = got
      BY <2>1, FlushOrFailTypes
    <2>3. MasterTypes' /\ SlaveTypes'
      BY <1>1, <2>2
         DEF TypeOK, MasterTypes, SlaveTypes, ReceiveTimeout, config, slaves
    <2>4. QED  BY <2>3 DEF TypeOK, MasterTypes, SlaveTypes
  <1>2. CASE Receive
    BY <1>2, ReceiveTypes
  <1>3. CASE Flush
    <2>1. MasterTypes' /\ SlaveTypes'
      BY <1>3, EmptySeq
         DEF TypeOK, MasterTypes, SlaveTypes, Flush, Fail, config, slaves
    <2>2. QED  BY <2>1 DEF TypeOK, MasterTypes, SlaveTypes
  <1>4. QED  BY <1>1, <1>2, <1>3 DEF MasterStep

LEMMA ServeTypes ==
    ASSUME TypeOK, NEW s \in Slaves, Serve(s)
    PROVE  TypeOK'
  <1>1. rx[s] # <<>> /\ First(s) \in Frames /\ Rest(s) \in Seq(Frames)
    BY HeadTailProperties DEF TypeOK, Serve, First, Rest
  <1>2. /\ rx' \in [Slaves -> Seq(Frames)] /\ noise' \in 0..MaxNoise
        /\ mbuf' \in Seq(Frames) /\ torn' \in BOOLEAN
    <2>1. CASE First(s).slave = Broadcast
      BY <1>1, <2>1 DEF Serve, Read, TypeOK
    <2>2. CASE First(s).slave # Broadcast
      <3>1. Transmit(s, Answer(s, First(s)))
        BY <2>2 DEF Serve
      <3>2. Answer(s, First(s)) \in Frames
        BY <1>1, AnswerType DEF TypeOK
      <3>3. /\ rx' \in [Slaves -> Seq(Frames)] /\ noise' \in 0..MaxNoise
            /\ \E d \in Disturbed(Answer(s, First(s))) \cup {Answer(s, First(s))} :
                 mbuf' = Append(mbuf, d) /\ torn' = (torn \/ d.kind = "junk")
        BY <1>1, <3>1, <3>2, TransmitHeard
      <3>4. PICK d \in Disturbed(Answer(s, First(s))) \cup {Answer(s, First(s))} :
              mbuf' = Append(mbuf, d) /\ torn' = (torn \/ d.kind = "junk")
        BY <3>3
      <3>5. d \in Frames
        BY <3>2, DisturbedType
      <3>6. mbuf' \in Seq(Frames) /\ torn' \in BOOLEAN
        BY <3>4, <3>5, AppendProperties DEF TypeOK
      <3>7. QED  BY <3>3, <3>6
    <2>3. QED  BY <2>1, <2>2
  <1>3. regs' \in [Slaves -> Vals] /\ executed' \in [Slaves -> Nat]
    BY <1>1 DEF Serve, Updated, TypeOK, Frames
  <1>4. MasterTypes'
    BY <1>2 DEF TypeOK, MasterTypes, Serve, config, master
  <1>5. SlaveTypes'
    BY <1>2, <1>3 DEF TypeOK, SlaveTypes, Serve
  <1>6. QED  BY <1>4, <1>5 DEF TypeOK, MasterTypes, SlaveTypes

\* the other steps of a slave
LEMMA DropTypes ==
    ASSUME TypeOK, NEW s \in Slaves,
           IgnoreMessage(s) \/ IgnoreTimeout(s) \/ Filter(s) \/ FilterJunk(s) \/ Quit(s)
    PROVE  /\ TypeOK' /\ up' \subseteq up
           /\ UNCHANGED <<config, master, mbuf, regs, executed, noise, torn>>
  <1>1. rx' \in [Slaves -> Seq(Frames)]
    <2>1. CASE IgnoreTimeout(s)
      BY <2>1 DEF IgnoreTimeout, TypeOK
    <2>2. CASE IgnoreMessage(s) \/ Filter(s) \/ FilterJunk(s) \/ Quit(s)
      BY <2>2, DropsKeepPiece DEF TypeOK
    <2>3. QED  BY <2>1, <2>2
  <1>2. UNCHANGED <<config, master, mbuf, regs, executed, noise, torn>>
    BY DEF IgnoreMessage, IgnoreTimeout, Filter, FilterJunk, Quit, slaves
  <1>3. up' \subseteq up /\ ignore' \in [Slaves -> BOOLEAN]
    BY DEF TypeOK, IgnoreMessage, IgnoreTimeout, Filter, FilterJunk, Quit, slaves
  <1>4. MasterTypes'
    BY <1>2 DEF TypeOK, MasterTypes, config, master
  <1>5. SlaveTypes'
    BY <1>1, <1>2, <1>3 DEF TypeOK, SlaveTypes
  <1>6. QED  BY <1>2, <1>3, <1>4, <1>5 DEF TypeOK, MasterTypes, SlaveTypes

\* the steps of Next, each a call or a step of one end
LEMMA Steps ==
    ASSUME Next
    PROVE  \/ \E s \in Numbers, fn \in Functions, v \in Vals : Call(s, fn, v)
           \/ MasterStep
           \/ \E s \in Slaves : Serve(s)
           \/ \E s \in Slaves : IgnoreMessage(s) \/ IgnoreTimeout(s) \/ Filter(s)
                                  \/ FilterJunk(s) \/ Quit(s)
  BY DEF Next, SlaveStep, Functions

LEMMA TypesKept == TypeOK /\ [Next]_vars => TypeOK'
  <1> SUFFICES ASSUME TypeOK, [Next]_vars PROVE TypeOK'
    OBVIOUS
  <1>1. CASE UNCHANGED vars
    BY <1>1 DEF vars, TypeOK, config, master, slaves
  <1>2. CASE Next
    BY <1>2, Steps, CallTypes, MasterTypesStep, ServeTypes, DropTypes
  <1>3. QED  BY <1>1, <1>2

(* The variables have their types: in particular no message of the line is   *)
(* cut into more pieces than it can be, however the slaves lose track.       *)
THEOREM TypeCorrect == Spec => []TypeOK
  BY InitTypes, TypesKept, PTL DEF Spec

-----------------------------------------------------------------------------
(* What is in the queues when a message is added, or a request served.       *)

\* a request of the next call, r: no other is as new
LEMMA RequestAdded ==
    ASSUME NEW q \in Seq(Frames), NEW s \in Slaves, NEW e \in Nat,
           NEW o \in Frames, NEW r \in Frames, NEW m \in Frames,
           Sound(q, s, e, o), e <= o.no, r.no = o.no + 1,
           m.kind = "ind", m.no = r.no, m.crc => m = r
    PROVE  /\ Sound(q, s, e, r) /\ Sound(Append(q, m), s, e, r)
           /\ Clean(q, s) => OnlyLast(q, s, r) /\ OnlyLast(Append(q, m), s, r)
  <1>1. o.no \in Nat /\ r.no \in Nat
    BY DEF Frames
  <1>2. ASSUME NEW i \in 1..Len(q)
        PROVE  q[i].no \in Nat
    <2>1. q[i] \in Frames
      BY ElementOfSeq
    <2>2. QED  BY <2>1 DEF Frames
  <1>3. Sound(q, s, e, r)
    BY <1>1, <1>2 DEF Sound
  <1>4. /\ Append(q, m) \in Seq(Frames) /\ Len(Append(q, m)) = Len(q) + 1
        /\ \A i \in 1..Len(q) : Append(q, m)[i] = q[i]
        /\ Append(q, m)[Len(q) + 1] = m
    BY AppendProperties
  <1>5. Len(q) \in Nat
    BY LenProperties
  <1>6. ASSUME NEW i \in 1..Len(Append(q, m))
        PROVE  \/ i \in 1..Len(q) /\ Append(q, m)[i] = q[i]
               \/ i = Len(q) + 1 /\ Append(q, m)[i] = m
    BY <1>4, <1>5
  <1>7. \A i \in 1..Len(Append(q, m)) :
          /\ Append(q, m)[i].crc /\ ForMe(s, Append(q, m)[i])
                => Append(q, m)[i].kind = "ind"
          /\ Append(q, m)[i].kind = "ind"
                => e < Append(q, m)[i].no /\ Append(q, m)[i].no <= r.no
          /\ Append(q, m)[i].kind = "ind" /\ Append(q, m)[i].crc
                /\ Append(q, m)[i].no = r.no => Append(q, m)[i] = r
    <2>1. e < m.no /\ m.no <= r.no
      BY <1>1
    <2>2. QED  BY <1>3, <1>6, <2>1 DEF Sound
  <1>8. ASSUME NEW i \in 1..Len(Append(q, m)), NEW j \in 1..Len(Append(q, m)),
               i < j, Append(q, m)[i].kind = "ind", Append(q, m)[j].kind = "ind"
        PROVE  Append(q, m)[i].no < Append(q, m)[j].no
    <2>1. i \in 1..Len(q) /\ Append(q, m)[i] = q[i]
      BY <1>5, <1>6, <1>8
    <2>2. CASE j \in 1..Len(q) /\ Append(q, m)[j] = q[j]
      BY <1>8, <2>1, <2>2 DEF Sound
    <2>3. CASE Append(q, m)[j] = m
      <3>1. q[i].no <= o.no /\ q[i].no \in Nat
        BY <1>2, <1>8, <2>1 DEF Sound
      <3>2. QED  BY <1>1, <2>1, <2>3, <3>1
    <2>4. QED  BY <1>6, <2>2, <2>3
  <1>9. Clean(q, s) => OnlyLast(q, s, r) /\ OnlyLast(Append(q, m), s, r)
    BY <1>6 DEF OnlyLast, Clean
  <1>10. QED  BY <1>3, <1>7, <1>8, <1>9 DEF Sound

\* a message that s does not take for a request to it
LEMMA OtherAdded ==
    ASSUME NEW q \in Seq(Frames), NEW s \in Slaves, NEW e \in Nat,
           NEW r \in Frames, NEW m \in Frames,
           m.kind # "ind", ~(m.crc /\ ForMe(s, m))
    PROVE  /\ Sound(q, s, e, r) => Sound(Append(q, m), s, e, r)
           /\ Clean(q, s) => Clean(Append(q, m), s)
           /\ OnlyLast(q, s, r) => OnlyLast(Append(q, m), s, r)
  <1>1. /\ Append(q, m) \in Seq(Frames) /\ Len(Append(q, m)) = Len(q) + 1
        /\ \A i \in 1..Len(q) : Append(q, m)[i] = q[i]
        /\ Append(q, m)[Len(q) + 1] = m
    BY AppendProperties
  <1>2. Len(q) \in Nat
    BY LenProperties
  <1>3. ASSUME NEW i \in 1..Len(Append(q, m))
        PROVE  \/ i \in 1..Len(q) /\ Append(q, m)[i] = q[i]
               \/ Append(q, m)[i] = m
    BY <1>1, <1>2
  <1>4. ASSUME Sound(q, s, e, r) PROVE Sound(Append(q, m), s, e, r)
    BY <1>3, <1>4 DEF Sound
  <1>5. QED  BY <1>3, <1>4 DEF Clean, OnlyLast

\* the first message is served
LEMMA FirstServed ==
    ASSUME NEW q \in Seq(Frames), q # <<>>, NEW s \in Slaves, NEW e \in Nat,
           NEW r \in Frames, Sound(q, s, e, r), Head(q).crc, ForMe(s, Head(q))
    PROVE  /\ Head(q) \in Frames /\ Head(q).kind = "ind"
           /\ e < Head(q).no /\ Head(q).no <= r.no
           /\ Head(q).no = r.no => Head(q) = r
           /\ Sound(Tail(q), s, Head(q).no, r)
           /\ OnlyLast(q, s, r) => Head(q) = r /\ Clean(Tail(q), s)
  <1>1. /\ Head(q) \in Frames /\ Head(q) = q[1] /\ Tail(q) \in Seq(Frames)
        /\ Len(Tail(q)) = Len(q) - 1
        /\ \A i \in 1..Len(Tail(q)) : Tail(q)[i] = q[i + 1]
    BY HeadTailProperties
  <1>2. Len(q) \in Nat /\ Len(q) # 0 /\ 1 \in 1..Len(q)
    BY EmptySeq, LenProperties
  <1>3. /\ Head(q).kind = "ind" /\ e < Head(q).no /\ Head(q).no <= r.no
        /\ Head(q).no = r.no => Head(q) = r
    BY <1>1, <1>2 DEF Sound
  <1>4. ASSUME NEW i \in 1..Len(Tail(q))
        PROVE  i + 1 \in 1..Len(q) /\ 1 < i + 1 /\ Tail(q)[i] = q[i + 1]
    BY <1>1, <1>2
  <1>5. ASSUME NEW i \in 1..Len(Tail(q)), Tail(q)[i].kind = "ind"
        PROVE  Head(q).no < Tail(q)[i].no
    BY <1>1, <1>2, <1>3, <1>4, <1>5 DEF Sound
  <1>6. ASSUME NEW i \in 1..Len(Tail(q))
        PROVE  /\ Tail(q)[i].crc /\ ForMe(s, Tail(q)[i]) => Tail(q)[i].kind = "ind"
               /\ Tail(q)[i].kind = "ind" => Tail(q)[i].no <= r.no
               /\ Tail(q)[i].kind = "ind" /\ Tail(q)[i].crc /\ Tail(q)[i].no = r.no
                    => Tail(q)[i] = r
    BY <1>4 DEF Sound
  <1>7. ASSUME NEW i \in 1..Len(Tail(q)), NEW j \in 1..Len(Tail(q)), i < j,
               Tail(q)[i].kind = "ind", Tail(q)[j].kind = "ind"
        PROVE  Tail(q)[i].no < Tail(q)[j].no
    <2>1. i + 1 < j + 1
      BY <1>1, <1>2, <1>7
    <2>2. QED  BY <1>4, <1>7, <2>1 DEF Sound
  <1>8. Sound(Tail(q), s, Head(q).no, r)
    BY <1>5, <1>6, <1>7 DEF Sound
  <1>9. ASSUME OnlyLast(q, s, r)
        PROVE  Head(q) = r /\ Clean(Tail(q), s)
    <2>1. Head(q).no = r.no
      BY <1>1, <1>2, <1>9 DEF OnlyLast
    <2>2. ASSUME NEW i \in 1..Len(Tail(q)), Tail(q)[i].crc, ForMe(s, Tail(q)[i])
          PROVE  FALSE
      <3>1. Tail(q)[i].no = r.no
        BY <1>4, <1>9, <2>2 DEF OnlyLast
      <3>2. Head(q).no < Tail(q)[i].no
        BY <1>5, <1>6, <2>2
      <3>3. r.no \in Nat
        BY DEF Frames
      <3>4. QED  BY <2>1, <3>1, <3>2, <3>3
    <2>3. QED  BY <1>3, <2>1, <2>2 DEF Clean
  <1>10. QED  BY <1>1, <1>3, <1>8, <1>9

\* the only request is for one slave: the others have nothing to execute
LEMMA OthersClean ==
    ASSUME NEW q \in Seq(Frames), NEW t \in Slaves, NEW e \in Nat,
           NEW r \in Frames, Sound(q, t, e, r), OnlyLast(q, t, r),
           r.slave \notin {t, Broadcast}
    PROVE  Clean(q, t)
  <1>1. ASSUME NEW i \in 1..Len(q), q[i].crc, ForMe(t, q[i])
        PROVE  FALSE
    <2>1. q[i].no = r.no /\ q[i].kind = "ind"
      BY <1>1 DEF OnlyLast, Sound
    <2>2. q[i] = r
      BY <1>1, <2>1 DEF Sound
    <2>3. QED  BY <1>1, <2>2 DEF ForMe
  <1>2. QED  BY <1>1 DEF Clean

LEMMA EmptyClean ==
    ASSUME NEW s, NEW e, NEW r
    PROVE  Clean(<<>>, s) /\ OnlyLast(<<>>, s, r) /\ Sound(<<>>, s, e, r)
  <1>1. \A i \in 1..Len(<<>>) : FALSE
    BY EmptySeq
  <1>2. QED  BY <1>1 DEF Clean, OnlyLast, Sound

-----------------------------------------------------------------------------
(* The inductive invariant.                                                  *)

LEMMA InitInv == Init => IInv
  <1> SUFFICES ASSUME Init PROVE IInv
    OBVIOUS
  <1>1. TypeOK
    BY InitTypes
  <1>2. Len(<<>>) = 0 /\ \A s \in Slaves : rx[s] = <<>> /\ executed[s] = 0
    BY EmptySeq DEF Init
  <1>3. QueuesInv
    <2>1. req.no = 0
      BY DEF Init
    <2>2. ASSUME NEW s \in Slaves
          PROVE  executed[s] <= req.no /\ Sound(rx[s], s, executed[s], req)
      <3>1. executed[s] <= req.no
        BY <1>2, <2>1
      <3>2. Sound(rx[s], s, executed[s], req)
        BY <1>2, EmptyClean
      <3>3. QED  BY <3>1, <3>2
    <2>3. QED  BY <2>2 DEF QueuesInv, Queues
  <1>4. AnswersInv
    BY <1>2, EmptyClean DEF AnswersInv, Answers, Init
  <1>5. TornInv
    BY DEF TornInv, Init
  <1>6. QED  BY <1>1, <1>3, <1>4, <1>5 DEF IInv

\* a call starts only when the last one is over
LEMMA CallKeeps ==
    ASSUME IInv, NEW s \in Numbers, NEW fn \in Functions, NEW v \in Vals,
           Call(s, fn, v)
    PROVE  QueuesInv' /\ AnswersInv'
  <1>1. TypeOK /\ QueuesInv /\ AnswersInv
    BY DEF IInv
  <1>2. req' \in Frames /\ req \in Frames /\ TypeOK'
    BY <1>1, CallTypes DEF TypeOK
  <1>3. /\ req'.no = req.no + 1 /\ req'.kind = "ind"
        /\ Hears(req') /\ UNCHANGED <<executed, regs, mbuf, timing, recovery, torn>>
        /\ pc' = "wait" /\ pc = "idle"
    BY DEF Call, slaves, config
  <1>4. \A t \in Slaves : HeardAs(rx'[t], rx[t], req')
    BY <1>1, <1>2, <1>3, HearsHeard
  <1>5. ASSUME NEW t \in Slaves
        PROVE  /\ executed[t] <= req'.no /\ Sound(rx'[t], t, executed[t], req')
               /\ Clean(rx[t], t) => OnlyLast(rx'[t], t, req')
    <2>1. /\ rx[t] \in Seq(Frames) /\ executed[t] \in Nat
          /\ executed[t] <= req.no /\ Sound(rx[t], t, executed[t], req)
          /\ req.no \in Nat
      BY <1>1, <1>2 DEF TypeOK, QueuesInv, Queues, Frames
    <2>2. /\ Sound(rx[t], t, executed[t], req')
          /\ Clean(rx[t], t) => OnlyLast(rx[t], t, req')
      <3>1. req'.crc => req' = req'
        OBVIOUS
      <3>2. QED  BY <1>2, <1>3, <2>1, <3>1, RequestAdded
    <2>3. ASSUME NEW c \in Disturbed(req') \cup {req'}, rx'[t] = Append(rx[t], c)
          PROVE  /\ Sound(rx'[t], t, executed[t], req')
                 /\ Clean(rx[t], t) => OnlyLast(rx'[t], t, req')
      <3>1. /\ c \in Frames /\ (c.crc => c = req')
            /\ \/ c.kind = "junk"
               \/ c.kind = "ind" /\ c.no = req'.no
        BY <1>2, <1>3, DisturbedType
      <3>2. CASE c.kind = "junk"
        <4>1. c.kind # "ind" /\ ~(c.crc /\ ForMe(t, c))
          BY <3>2 DEF ForMe
        <4>2. /\ Sound(Append(rx[t], c), t, executed[t], req')
              /\ OnlyLast(rx[t], t, req') => OnlyLast(Append(rx[t], c), t, req')
          BY <1>2, <2>1, <2>2, <3>1, <4>1, OtherAdded
        <4>3. QED  BY <2>2, <2>3, <4>2
      <3>3. CASE c.kind = "ind" /\ c.no = req'.no
        <4>1. /\ Sound(Append(rx[t], c), t, executed[t], req')
              /\ Clean(rx[t], t) => OnlyLast(Append(rx[t], c), t, req')
          BY <1>2, <1>3, <2>1, <3>1, <3>3, RequestAdded
        <4>2. QED  BY <2>3, <4>1
      <3>4. QED  BY <3>1, <3>2, <3>3
    <2>4. executed[t] <= req'.no
      BY <1>3, <2>1
    <2>5. QED  BY <1>4, <2>2, <2>3, <2>4 DEF HeardAs
  <1>6. QueuesInv'
    BY <1>3, <1>5 DEF QueuesInv, Queues
  <1>7. ASSUME Settled
        PROVE  Answers(pc', ok', got', req', mbuf', rx', regs')
    <2>1. mbuf' = <<>> /\ \A t \in Slaves : Clean(rx[t], t)
      BY <1>1, <1>3, <1>7 DEF AnswersInv, Answers
    <2>2. Len(mbuf') <= 1
      BY <2>1, EmptySeq
    <2>3. QED  BY <1>3, <1>5, <2>1, <2>2 DEF Answers
  <1>8. AnswersInv'
    BY <1>3, <1>7 DEF AnswersInv, Settled, Timely
  <1>9. QED  BY <1>6, <1>8

\* a queue that holds one message
LEMMA Single ==
    ASSUME NEW q \in Seq(Frames), q # <<>>, Len(q) <= 1
    PROVE  Len(q) = 1 /\ Head(q) = q[1] /\ Tail(q) = <<>>
  <1> DEFINE n == Len(q)
  <1>1. n \in Nat /\ n <= 1
    BY LenProperties
  <1>2. n # 0
    BY EmptySeq
  <1>3. /\ Tail(q) \in Seq(Frames) /\ Len(Tail(q)) = n - 1 /\ Head(q) = q[1]
    BY HeadTailProperties
  <1> HIDE DEF n
  <1>4. n = 1
    BY <1>1, <1>2
  <1>5. Len(Tail(q)) = 0
    BY <1>3, <1>4
  <1>6. Tail(q) = <<>>
    BY <1>3, <1>5, EmptySeq
  <1>7. QED  BY <1>3, <1>4, <1>6 DEF n

\* what the master waits for is the answer, or there will be none
LEMMA MasterKeeps ==
    ASSUME IInv, MasterStep
    PROVE  QueuesInv' /\ AnswersInv'
  <1>1. TypeOK /\ QueuesInv /\ AnswersInv
    BY DEF IInv
  <1>2. /\ UNCHANGED <<req, rx, executed, regs, timing, recovery>>
        /\ pc # "idle" /\ torn \in BOOLEAN
    BY <1>1
       DEF MasterStep, ReceiveTimeout, Receive, BadChecksum, WrongAnswer,
           RightAnswer, Misread, Flush, FlushOrFail, Fail, config, slaves, TypeOK
  <1>3. QueuesInv'
    BY <1>1, <1>2 DEF QueuesInv, Queues
  <1>4. SUFFICES ASSUME Timely, ~torn'
                 PROVE  Answers(pc', ok', got', req', mbuf', rx', regs')
    BY <1>2, <1>3 DEF AnswersInv, Settled, Timely
  <1>5. Len(<<>>) = 0
    OBVIOUS
  <1>6. ASSUME \A s \in Slaves : rx[s] = <<>>
        PROVE  \A s \in Slaves : Clean(rx[s], s) /\ OnlyLast(rx[s], s, req)
    BY <1>6, EmptyClean
  <1>7. recovery \in BOOLEAN
    BY <1>1 DEF TypeOK
  <1>8. CASE torn
    <2>1. Quiet /\ (ReceiveTimeout \/ Flush)
      BY <1>2, <1>4, <1>8 DEF MasterStep, ReceiveTimeout, Receive, Flush
    <2>2. mbuf' = <<>> /\ (pc' = "idle" => ok' = FALSE)
      BY <1>1, <1>7, <2>1, FlushOrFailTypes DEF ReceiveTimeout, Flush, Fail
    <2>3. \A s \in Slaves : Clean(rx[s], s) /\ OnlyLast(rx[s], s, req)
      BY <1>6, <2>1 DEF Quiet
    <2>4. QED  BY <1>2, <1>5, <2>2, <2>3 DEF Answers
  <1> SUFFICES ASSUME ~torn PROVE Answers(pc', ok', got', req', mbuf', rx', regs')
    BY <1>8
  <1>9. Answers(pc, ok, got, req, mbuf, rx, regs)
    BY <1>1, <1>4 DEF AnswersInv, Settled
  <1>10. CASE ReceiveTimeout
    <2>1. FlushOrFail(recovery) /\ mbuf' = mbuf /\ mbuf = <<>>
      BY <1>10 DEF ReceiveTimeout
    <2>2. /\ pc' \in {"idle", "flush"} /\ (pc' = "idle" => ok' = FALSE)
          /\ (pc' = "idle" => ~recovery)
      BY <1>1, <1>7, <2>1, FlushOrFailTypes
    <2>3. pc' = "idle" => \A s \in Slaves : Clean(rx[s], s)
      BY <1>4, <1>6, <1>10, <2>2 DEF Timely, ReceiveTimeout, Quiet
    <2>4. QED  BY <1>2, <1>9, <2>1, <2>2, <2>3 DEF Answers
  <1>11. CASE Flush
    <2>1. mbuf' = <<>> /\ pc' = "idle" /\ ok' = FALSE
      BY <1>11 DEF Flush, Fail
    <2>2. \A s \in Slaves : Clean(rx[s], s)
      BY <1>4, <1>6, <1>11 DEF Timely, Flush, Quiet
    <2>3. QED  BY <1>2, <1>9, <1>5, <2>1, <2>2 DEF Answers
  <1>12. CASE Receive
    <2>1. mbuf # <<>> /\ mbuf \in Seq(Frames)
      BY <1>1, <1>12 DEF Receive, TypeOK
    <2>2. Len(mbuf) = 1 /\ Head(mbuf) = mbuf[1] /\ Tail(mbuf) = <<>>
      <3>1. Len(mbuf) <= 1
        BY <1>9 DEF Answers
      <3>2. QED  BY <2>1, <3>1, Single
    <2>3. \A s \in Slaves : Clean(rx[s], s)
      BY <1>9, <2>1 DEF Answers
    <2>4. Head(mbuf).kind # "junk"
      BY <1>9, <2>1, <2>2 DEF Answers
    <2>5. BadChecksum(Head(mbuf)) \/ WrongAnswer(Head(mbuf)) \/ RightAnswer(Head(mbuf))
      BY <1>12, <2>4 DEF Receive
    <2>6. mbuf' = <<>>
      BY <2>2, <2>5 DEF BadChecksum, WrongAnswer, RightAnswer
    <2>7. pc' = "idle" /\ ok' => req.slave \in Slaves /\ regs[req.slave] = got'
      <3>1. CASE BadChecksum(Head(mbuf))
        BY <3>1 DEF BadChecksum, Fail
      <3>2. CASE WrongAnswer(Head(mbuf))
        BY <1>1, <1>7, <3>2, FlushOrFailTypes DEF WrongAnswer
      <3>3. CASE RightAnswer(Head(mbuf))
        BY <1>9, <2>1, <2>2, <3>3 DEF RightAnswer, Answers
      <3>4. QED  BY <2>5, <3>1, <3>2, <3>3
    <2>8. QED  BY <1>2, <1>9, <1>5, <2>3, <2>6, <2>7 DEF Answers
  <1>13. QED  BY <1>10, <1>11, <1>12 DEF MasterStep

\* a slave that drops what it reads
LEMMA DropKeeps ==
    ASSUME IInv, NEW s \in Slaves,
           IgnoreMessage(s) \/ IgnoreTimeout(s) \/ Filter(s) \/ FilterJunk(s) \/ Quit(s)
    PROVE  QueuesInv' /\ AnswersInv'
  <1>1. TypeOK /\ QueuesInv /\ AnswersInv
    BY DEF IInv
  <1>2. UNCHANGED <<timing, recovery, pc, req, ok, got, mbuf, regs, executed, torn>>
    BY <1>1, DropTypes DEF config, master
  <1>3. ASSUME NEW t \in Slaves
        PROVE  rx[t] \in Seq(Frames) /\ rx'[t] \in Seq(Frames)
               /\ (rx'[t] = rx[t] \/ Piece(rx'[t], rx[t]))
    <2>1. CASE IgnoreTimeout(s)
      BY <1>1, <2>1 DEF IgnoreTimeout, TypeOK
    <2>2. CASE IgnoreMessage(s) \/ Filter(s) \/ FilterJunk(s) \/ Quit(s)
      <3>1. PICK p \in Seq(Frames) : Piece(p, rx[s]) /\ rx' = [rx EXCEPT ![s] = p]
        BY <1>1, <2>2, DropsKeepPiece
      <3>2. QED  BY <1>1, <3>1 DEF TypeOK
    <2>3. QED  BY <2>1, <2>2
  <1>4. ASSUME NEW t \in Slaves
        PROVE  /\ \A e, r : Sound(rx[t], t, e, r) => Sound(rx'[t], t, e, r)
               /\ Clean(rx[t], t) => Clean(rx'[t], t)
               /\ \A r : OnlyLast(rx[t], t, r) => OnlyLast(rx'[t], t, r)
    BY <1>3, PieceSound, PieceClean, PieceOnlyLast
  <1>5. QueuesInv'
    BY <1>1, <1>2, <1>4 DEF QueuesInv, Queues
  <1>6. AnswersInv'
    <2>1. SUFFICES ASSUME Settled
                   PROVE  Answers(pc, ok, got, req, mbuf, rx', regs)
      BY <1>2 DEF AnswersInv, Settled, Timely
    <2>2. Answers(pc, ok, got, req, mbuf, rx, regs)
      BY <1>1, <2>1 DEF AnswersInv
    <2>3. QED  BY <1>4, <2>2 DEF Answers
  <1>7. QED  BY <1>5, <1>6

\* what a served request does to the queues, its own and those of the others
LEMMA ServedQueues ==
    ASSUME IInv, NEW s \in Slaves, Serve(s)
    PROVE  /\ First(s) \in Frames /\ First(s).slave \in {s, Broadcast}
           /\ executed[s] < First(s).no /\ First(s).no <= req.no
           /\ First(s).no = req.no => First(s) = req
           /\ OnlyLast(rx[s], s, req) =>
                First(s) = req /\ ~Clean(rx[s], s) /\ Clean(rx'[s], s)
           /\ Sound(rx'[s], s, First(s).no, req)
           /\ \A t \in Slaves \ {s} :
                /\ Sound(rx'[t], t, executed[t], req)
                /\ Clean(rx[t], t) => Clean(rx'[t], t)
                /\ OnlyLast(rx[t], t, req) => OnlyLast(rx'[t], t, req)
           /\ \/ First(s).slave = Broadcast /\ mbuf' = mbuf /\ torn' = torn
              \/ torn'
              \/ /\ First(s).slave = s /\ torn' = torn
                 /\ \E c \in Frames :
                      /\ mbuf' = Append(mbuf, c)
                      /\ c.kind = "con" /\ c.fn = First(s).fn
                      /\ c.val = IF c.fn = "read" THEN regs[s] ELSE First(s).val
  <1>1. TypeOK /\ QueuesInv /\ req \in Frames
    BY DEF IInv, TypeOK
  <1>2. /\ rx[s] \in Seq(Frames) /\ rx[s] # <<>> /\ executed[s] \in Nat
        /\ Sound(rx[s], s, executed[s], req)
    BY <1>1 DEF TypeOK, QueuesInv, Queues, Serve
  <1>3. /\ First(s) = Head(rx[s]) /\ Rest(s) = Tail(rx[s])
        /\ First(s).crc /\ ForMe(s, First(s)) /\ First(s).slave \in {s, Broadcast}
    BY DEF First, Rest, Serve, ForMe
  <1>4. /\ First(s) \in Frames /\ executed[s] < First(s).no /\ First(s).no <= req.no
        /\ First(s).no = req.no => First(s) = req
        /\ Sound(Rest(s), s, First(s).no, req)
        /\ OnlyLast(rx[s], s, req) => First(s) = req /\ Clean(Rest(s), s)
    BY <1>1, <1>2, <1>3, FirstServed
  <1>5. ~Clean(rx[s], s)
    <2>1. Len(rx[s]) \in Nat /\ Len(rx[s]) # 0
      BY <1>2, EmptySeq, LenProperties
    <2>2. First(s) = rx[s][1]
      BY <1>2, <1>3, HeadTailProperties
    <2>3. QED  BY <1>3, <2>1, <2>2 DEF Clean
  <1>6. CASE First(s).slave = Broadcast
    <2>1. mbuf' = mbuf /\ torn' = torn /\ rx' = [rx EXCEPT ![s] = Rest(s)]
      BY <1>6 DEF Serve, Read
    <2>2. rx'[s] = Rest(s) /\ \A t \in Slaves \ {s} : rx'[t] = rx[t]
      BY <1>1, <2>1 DEF TypeOK
    <2>3. QED  BY <1>1, <1>3, <1>4, <1>5, <1>6, <2>1, <2>2 DEF QueuesInv, Queues
  <1>7. CASE First(s).slave # Broadcast
    <2> DEFINE c == Answer(s, First(s))
    <2>1. /\ c \in Frames /\ c.kind = "con" /\ c.slave = s /\ c.fn = First(s).fn
          /\ c.val = IF First(s).fn = "read" THEN regs[s] ELSE First(s).val
      BY <1>1, <1>4, AnswerType DEF TypeOK
    <2>2. Transmit(s, c)
      BY <1>7 DEF Serve
    <2> HIDE DEF c
    <2>3. /\ rx'[s] = Rest(s) /\ \A t \in Slaves \ {s} : HeardAs(rx'[t], rx[t], c)
          /\ \E d \in Disturbed(c) \cup {c} :
               mbuf' = Append(mbuf, d) /\ torn' = (torn \/ d.kind = "junk")
      BY <1>1, <1>2, <2>1, <2>2, TransmitHeard
    <2>4. ASSUME NEW d \in Disturbed(c) \cup {c}
          PROVE  /\ d \in Frames /\ d.kind # "ind" /\ (d.crc => d.slave = s)
                 /\ \/ d.kind = "junk"
                    \/ d.kind = "con" /\ d.fn = c.fn /\ d.val = c.val
      BY <2>1, DisturbedType
    <2>5. ASSUME NEW t \in Slaves \ {s}
          PROVE  /\ Sound(rx'[t], t, executed[t], req)
                 /\ Clean(rx[t], t) => Clean(rx'[t], t)
                 /\ OnlyLast(rx[t], t, req) => OnlyLast(rx'[t], t, req)
      <3>1. /\ rx[t] \in Seq(Frames) /\ executed[t] \in Nat
            /\ Sound(rx[t], t, executed[t], req)
        BY <1>1 DEF TypeOK, QueuesInv, Queues
      <3>2. ASSUME NEW d \in Disturbed(c) \cup {c}, rx'[t] = Append(rx[t], d)
            PROVE  /\ Sound(rx'[t], t, executed[t], req)
                   /\ Clean(rx[t], t) => Clean(rx'[t], t)
                   /\ OnlyLast(rx[t], t, req) => OnlyLast(rx'[t], t, req)
        <4>1. d \in Frames /\ d.kind # "ind" /\ ~(d.crc /\ ForMe(t, d))
          BY <2>4, ConstantFacts DEF ForMe
        <4>2. QED  BY <1>1, <3>1, <3>2, <4>1, OtherAdded
      <3>3. QED  BY <2>3, <3>1, <3>2 DEF HeardAs
    <2>6. \/ torn'
          \/ /\ torn' = torn
             /\ \E d \in Frames :
                  /\ mbuf' = Append(mbuf, d) /\ d.kind = "con" /\ d.fn = First(s).fn
                  /\ d.val = IF d.fn = "read" THEN regs[s] ELSE First(s).val
      <3>1. PICK d \in Disturbed(c) \cup {c} :
              mbuf' = Append(mbuf, d) /\ torn' = (torn \/ d.kind = "junk")
        BY <2>3
      <3>2. CASE d.kind = "junk"
        BY <3>1, <3>2
      <3>3. CASE d.kind # "junk"
        <4>1. torn' = torn
          BY <1>1, <3>1, <3>3 DEF TypeOK
        <4>2. QED  BY <2>1, <2>4, <3>1, <3>3, <4>1
      <3>4. QED  BY <3>2, <3>3
    <2>7. QED  BY <1>3, <1>4, <1>5, <1>7, <2>3, <2>5, <2>6
  <1>8. QED  BY <1>6, <1>7

LEMMA ServeKeeps ==
    ASSUME IInv, NEW s \in Slaves, Serve(s)
    PROVE  QueuesInv' /\ AnswersInv'
  <1>1. TypeOK /\ QueuesInv /\ AnswersInv
    BY DEF IInv
  <1>2. /\ UNCHANGED <<timing, recovery, pc, req, ok, got>>
        /\ executed' = [executed EXCEPT ![s] = First(s).no]
        /\ regs' = [regs EXCEPT ![s] = IF First(s).fn = "read" THEN @ ELSE First(s).val]
    BY DEF Serve, config, master, Updated
  <1>3. executed \in [Slaves -> Nat] /\ regs \in [Slaves -> Vals] /\ mbuf \in Seq(Frames)
    BY <1>1 DEF TypeOK
  <1>4. QueuesInv'
    <2>1. ASSUME NEW t \in Slaves
          PROVE  executed'[t] <= req.no /\ Sound(rx'[t], t, executed'[t], req)
      <3>1. CASE t = s
        BY <1>2, <1>3, <3>1, ServedQueues
      <3>2. CASE t # s
        <4>1. executed'[t] = executed[t] /\ executed[t] <= req.no
          BY <1>1, <1>2, <1>3, <3>2 DEF QueuesInv, Queues
        <4>2. QED  BY <3>2, <4>1, ServedQueues
      <3>3. QED  BY <3>1, <3>2
    <2>2. QED  BY <1>2, <2>1 DEF QueuesInv, Queues
  <1>5. SUFFICES ASSUME Timely, ~torn'
                 PROVE  Answers(pc, ok, got, req, mbuf', rx', regs')
    BY <1>2, <1>4 DEF AnswersInv, Settled, Timely
  <1>6. ~torn
    BY <1>5, ServedQueues
  <1>7. Answers(pc, ok, got, req, mbuf, rx, regs)
    BY <1>1, <1>5, <1>6 DEF AnswersInv, Settled
  <1>8. /\ First(s) = req /\ Clean(rx'[s], s)
        /\ mbuf = <<>> /\ pc # "idle"
    <2>1. OnlyLast(rx[s], s, req)
      BY <1>7 DEF Answers
    <2>2. First(s) = req /\ ~Clean(rx[s], s) /\ Clean(rx'[s], s)
      BY <2>1, ServedQueues
    <2>3. QED  BY <1>7, <2>2 DEF Answers
  <1>9. ASSUME NEW t \in Slaves
        PROVE  OnlyLast(rx'[t], t, req)
    <2>1. CASE t = s
      BY <1>8, <2>1 DEF Clean, OnlyLast
    <2>2. CASE t # s
      BY <1>7, <2>2, ServedQueues DEF Answers
    <2>3. QED  BY <2>1, <2>2
  <1>10. CASE mbuf' = mbuf
    BY <1>7, <1>8, <1>9, <1>10 DEF Answers
  <1>11. CASE First(s).slave = s /\
              \E c \in Frames :
                 /\ mbuf' = Append(mbuf, c)
                 /\ c.kind = "con" /\ c.fn = First(s).fn
                 /\ c.val = IF c.fn = "read" THEN regs[s] ELSE First(s).val
    <2>1. PICK c \in Frames :
            /\ mbuf' = Append(mbuf, c) /\ c.kind = "con" /\ c.fn = req.fn
            /\ c.val = IF c.fn = "read" THEN regs[s] ELSE req.val
      BY <1>8, <1>11
    <2>2. req.slave = s
      BY <1>8, <1>11
    <2>3. Len(mbuf') = 1 /\ mbuf'[1] = c /\ c.kind = "con"
      BY <1>8, <2>1
    <2>4. c.val = regs'[s] /\ (c.fn # "read" => c.val = req.val)
      BY <1>2, <1>3, <1>8, <2>1
    <2>5. ASSUME NEW t \in Slaves
          PROVE  Clean(rx'[t], t)
      <3>1. CASE t = s
        BY <1>8, <3>1
      <3>2. CASE t # s
        <4>1. rx[t] \in Seq(Frames) /\ executed[t] \in Nat /\ req \in Frames
              /\ Sound(rx[t], t, executed[t], req) /\ OnlyLast(rx[t], t, req)
          BY <1>1, <1>7 DEF TypeOK, QueuesInv, Queues, Answers
        <4>2. req.slave \notin {t, Broadcast}
          BY <2>2, <3>2, ConstantFacts
        <4>3. Clean(rx[t], t)
          BY <4>1, <4>2, OthersClean
        <4>4. QED  BY <3>2, <4>3, ServedQueues
      <3>3. QED  BY <3>1, <3>2
    <2>6. QED  BY <1>8, <1>9, <2>2, <2>3, <2>4, <2>5 DEF Answers
  <1>12. QED  BY <1>5, <1>10, <1>11, ServedQueues

\* a line on which nothing was disturbed has no junk for the master
LEMMA TornKept ==
    ASSUME TypeOK, TornInv, Next
    PROVE  TornInv'
  <1>1. noise \in Nat /\ noise + 1 # 0 /\ torn \in BOOLEAN
    BY ConstantFacts DEF TypeOK
  <1>2. CASE \E s \in Numbers, fn \in Functions, v \in Vals : Call(s, fn, v)
    BY <1>1, <1>2 DEF Call, Hears, Disturb, TornInv
  <1>3. CASE MasterStep
    BY <1>1, <1>3 DEF MasterStep, ReceiveTimeout, Receive, Flush, TornInv
  <1>4. CASE \E s \in Slaves : Serve(s)
    <2>1. PICK s \in Slaves : Serve(s)
      BY <1>4
    <2>2. CASE UNCHANGED <<noise, torn>>
      BY <2>2 DEF TornInv
    <2>3. CASE Transmit(s, Answer(s, First(s)))
      <3>1. CASE Disturb
        BY <1>1, <3>1 DEF Disturb, TornInv
      <3>2. CASE ToMaster(Answer(s, First(s))) /\ UNCHANGED noise
        <4>1. rx[s] # <<>> /\ First(s) \in Frames /\ regs \in [Slaves -> Vals]
          BY <2>1, HeadTailProperties DEF Serve, TypeOK, First
        <4>2. Answer(s, First(s)).kind = "con"
          BY <4>1, AnswerType
        <4>3. torn' = torn
          BY <1>1, <3>2, <4>2 DEF ToMaster
        <4>4. QED  BY <3>2, <4>3 DEF TornInv
      <3>3. QED  BY <2>3, <3>1, <3>2 DEF Transmit
    <2>4. QED  BY <2>1, <2>2, <2>3 DEF Serve
  <1>5. CASE \E s \in Slaves : IgnoreMessage(s) \/ IgnoreTimeout(s) \/ Filter(s)
                                  \/ FilterJunk(s) \/ Quit(s)
    BY <1>5, DropTypes DEF TornInv
  <1>6. QED  BY <1>2, <1>3, <1>4, <1>5, Steps

LEMMA InvKept == IInv /\ [Next]_vars => IInv'
  <1> SUFFICES ASSUME IInv, [Next]_vars PROVE IInv'
    OBVIOUS
  <1>1. TypeOK'
    BY TypesKept DEF IInv
  <1>2. CASE UNCHANGED vars
    <2>1. QueuesInv' /\ AnswersInv' /\ TornInv'
      BY <1>2
         DEF IInv, vars, QueuesInv, AnswersInv, TornInv, Settled, Timely, config,
             master, slaves
    <2>2. QED  BY <1>1, <2>1 DEF IInv
  <1>3. CASE Next
    <2>1. QueuesInv' /\ AnswersInv'
      BY <1>3, Steps, CallKeeps, MasterKeeps, ServeKeeps, DropKeeps
    <2>2. TornInv'
      BY <1>3, TornKept DEF IInv
    <2>3. QED  BY <1>1, <2>1, <2>2 DEF IInv
  <1>4. QED  BY <1>2, <1>3

LEMMA Invariance == Spec => []IInv
  BY InitInv, InvKept, PTL DEF Spec

(* A success is true: with timeouts that are long enough, or with answers    *)
(* that the error recovery sleeps for and flushes, what a call read or wrote *)
(* is what the slave it names holds, for any number of slaves, calls and     *)
(* disturbed messages, although nothing on the line says which call a        *)
(* message is of.  Where a disturbed answer cost the master the length, this *)
(* holds again from the next call that ends on a silent line.                *)
THEOREM SuccessIsTrue == Spec => []AckedMatchesSlave
  <1>1. IInv => AckedMatchesSlave
    BY DEF IInv, AnswersInv, Answers, Settled, Timely, AckedMatchesSlave
  <1>2. QED  BY <1>1, Invariance, PTL

(* However late, lost or disturbed the messages are and whatever a slave     *)
(* takes for a request, it executes what was sent to it, in the order of the *)
(* calls and at most once.                                                   *)
THEOREM OnlyItsOwn == Spec => OwnInOrder
  <1>1. ASSUME IInv, [Next]_vars, NEW s \in Slaves, Serve(s)
        PROVE  /\ executed'[s] > executed[s]
               /\ \A t \in Slaves \ {s} : regs'[t] = regs[t] /\ executed'[t] = executed[t]
               /\ executed'[s] = req.no => Asked(s)
    <2>1. executed \in [Slaves -> Nat] /\ regs \in [Slaves -> Vals]
      BY <1>1 DEF IInv, TypeOK
    <2>2. /\ executed' = [executed EXCEPT ![s] = First(s).no]
          /\ regs' = [regs EXCEPT ![s] = IF First(s).fn = "read" THEN @ ELSE First(s).val]
      BY <1>1 DEF Serve, Updated
    <2>3. /\ First(s).slave \in {s, Broadcast} /\ executed[s] < First(s).no
          /\ First(s) \in Frames
          /\ First(s).no = req.no => First(s) = req
      BY <1>1, ServedQueues
    <2>4. executed'[s] = First(s).no /\ First(s).no \in Nat /\ executed[s] \in Nat
      BY <2>1, <2>2, <2>3 DEF Frames
    <2>5. executed'[s] > executed[s]
      BY <2>3, <2>4
    <2>6. QED  BY <2>1, <2>2, <2>3, <2>4, <2>5 DEF Asked
  <1>2. IInv /\ [Next]_vars =>
          [\A s \in Slaves : Serve(s) =>
             /\ executed'[s] > executed[s]
             /\ \A t \in Slaves \ {s} : regs'[t] = regs[t] /\ executed'[t] = executed[t]
             /\ executed'[s] = req.no => Asked(s)]_vars
    BY <1>1
  <1>3. QED  BY <1>2, Invariance, PTL DEF Spec, OwnInOrder

-----------------------------------------------------------------------------
(* Slaves in phase, on an undisturbed line with timeouts in order.           *)

Final(q) == q[Len(q)]

\* Slave s, with ig its flag and q its unread messages, tells requests from
\* confirmations: they take turns, beginning with what s expects, and behind a
\* request that s will serve there is nothing.
InPhase(q, ig, s) ==
    /\ \A i \in 1..Len(q) :
         /\ q[i].crc /\ q[i].kind \in {"ind", "con"}
         /\ q[i].kind = "con" => q[i].slave \notin {s, Broadcast}
         /\ q[i].kind = "ind" /\ ForMe(s, q[i]) => i = Len(q)
    /\ q # <<>> => q[1].kind = IF ig THEN "con" ELSE "ind"
    /\ \A i \in 2..Len(q) : q[i].kind # q[i - 1].kind

\* the next message is a request
Ended(q) == q # <<>> => Final(q).kind = "con"

\* r is the newest message, or it has been read and its confirmation is awaited
Ends(q, r) == q # <<>> /\ Final(q) = r
Opened(q, ig, r) == IF q = <<>> THEN ig ELSE Final(q) = r

IsFor(s, r) == r.slave \in {s, Broadcast}

\* The slaves u are in phase.  During a call the slaves it names have executed
\* the request or will; when it names one that is there, the master waits until
\* that slave has answered, and it is the right answer.
Phases(p, o, r, mb, u, q, ig, e) ==
    /\ r.kind = "ind" /\ r.crc
    /\ \A s \in u : InPhase(q[s], ig[s], s)
    /\ p = "idle" =>
         /\ \A s \in u : Ended(q[s])
         /\ r.no > 0 => /\ \A s \in u : IsFor(s, r) => e[s] = r.no
                        /\ r.slave \in u => o
    /\ p # "idle" => \A s \in u : IsFor(s, r) => e[s] = r.no \/ Ends(q[s], r)
    /\ p # "idle" /\ r.slave \in u =>
         /\ p = "wait"
         /\ mb = <<>> => Ends(q[r.slave], r) /\ \A s \in u : Opened(q[s], ig[s], r)
         /\ mb # <<>> => e[r.slave] = r.no /\ \A s \in u : Ended(q[s])
    /\ mb # <<>> => /\ r.slave \in u
                    /\ mb[1].crc /\ mb[1].slave = r.slave /\ mb[1].fn = r.fn

Undisturbed == timing = "prompt" /\ noise = 0

PhaseInv == Undisturbed => Phases(pc, ok, req, mbuf, up, rx, ignore, executed)

LEMMA PhaseEmpty ==
    ASSUME NEW ig, NEW s
    PROVE  InPhase(<<>>, ig, s) /\ Ended(<<>>)
  BY EmptySeq DEF InPhase, Ended

\* a request comes when the slave expects one
LEMMA PhaseRequest ==
    ASSUME NEW q \in Seq(Frames), NEW ig \in BOOLEAN, NEW s, NEW m \in Frames,
           m.crc, m.kind = "ind", InPhase(q, ig, s), Ended(q), q = <<>> => ~ig
    PROVE  /\ InPhase(Append(q, m), ig, s) /\ Ends(Append(q, m), m)
           /\ Opened(Append(q, m), ig, m)
  <1> DEFINE o == Append(q, m)
             n == Len(q)
  <1>1. /\ o \in Seq(Frames) /\ Len(o) = n + 1 /\ o # <<>>
        /\ \A i \in 1..n : o[i] = q[i]
        /\ o[n + 1] = m
    BY AppendProperties
  <1>2. n \in Nat /\ (q = <<>> <=> n = 0)
    BY LenProperties, EmptySeq
  <1>3. /\ \A i \in 1..n :
             /\ q[i].crc /\ q[i].kind \in {"ind", "con"}
             /\ q[i].kind = "con" => q[i].slave \notin {s, Broadcast}
             /\ q[i].kind = "ind" /\ ForMe(s, q[i]) => i = n
        /\ q # <<>> => q[1].kind = (IF ig THEN "con" ELSE "ind") /\ q[n].kind = "con"
        /\ \A i \in 2..n : q[i].kind # q[i - 1].kind
    BY DEF InPhase, Ended, Final
  <1> HIDE DEF o, n
  <1>4. ASSUME NEW i \in 1..(n + 1)
        PROVE  /\ o[i].crc /\ o[i].kind \in {"ind", "con"}
               /\ o[i].kind = "con" => o[i].slave \notin {s, Broadcast}
               /\ o[i].kind = "ind" /\ ForMe(s, o[i]) => i = n + 1
    <2>1. CASE i = n + 1
      BY <1>1, <2>1
    <2>2. CASE i # n + 1
      <3>1. i \in 1..n /\ q # <<>>
        BY <1>2, <2>2
      <3>2. QED  BY <1>1, <1>2, <1>3, <3>1
    <2>3. QED  BY <2>1, <2>2
  <1>5. o[1].kind = IF ig THEN "con" ELSE "ind"
    <2>1. CASE q = <<>>
      BY <1>1, <1>2, <2>1
    <2>2. CASE q # <<>>
      <3>1. 1 \in 1..n
        BY <1>2, <2>2
      <3>2. QED  BY <1>1, <1>3, <2>2, <3>1
    <2>3. QED  BY <2>1, <2>2
  <1>6. ASSUME NEW i \in 2..(n + 1)
        PROVE  o[i].kind # o[i - 1].kind
    <2>1. CASE i = n + 1
      <3>1. n \in 1..n /\ q # <<>> /\ i - 1 = n
        BY <1>2, <2>1
      <3>2. o[i - 1].kind = "con" /\ o[i].kind = "ind"
        BY <1>1, <1>3, <2>1, <3>1
      <3>3. QED  BY <3>2
    <2>2. CASE i # n + 1
      <3>1. i \in 2..n /\ i \in 1..n /\ i - 1 \in 1..n
        BY <1>2, <2>2
      <3>2. QED  BY <1>1, <1>3, <3>1
    <2>3. QED  BY <2>1, <2>2
  <1>7. QED  BY <1>1, <1>4, <1>5, <1>6 DEF InPhase, Ends, Opened, Final, o

\* the confirmation comes when the slave has read, or will read, the request r
LEMMA PhaseConfirmation ==
    ASSUME NEW q \in Seq(Frames), NEW ig \in BOOLEAN, NEW s, NEW m \in Frames,
           m.crc, m.kind = "con", m.slave \notin {s, Broadcast},
           NEW r, r.kind = "ind", ~IsFor(s, r), InPhase(q, ig, s), Opened(q, ig, r)
    PROVE  InPhase(Append(q, m), ig, s) /\ Ended(Append(q, m))
  <1> DEFINE o == Append(q, m)
             n == Len(q)
  <1>1. /\ o \in Seq(Frames) /\ Len(o) = n + 1 /\ o # <<>>
        /\ \A i \in 1..n : o[i] = q[i]
        /\ o[n + 1] = m
    BY AppendProperties
  <1>2. n \in Nat /\ (q = <<>> <=> n = 0)
    BY LenProperties, EmptySeq
  <1>3. /\ \A i \in 1..n :
             /\ q[i].crc /\ q[i].kind \in {"ind", "con"}
             /\ q[i].kind = "con" => q[i].slave \notin {s, Broadcast}
             /\ q[i].kind = "ind" /\ ForMe(s, q[i]) => i = n
        /\ q # <<>> => q[1].kind = (IF ig THEN "con" ELSE "ind") /\ q[n] = r
        /\ q = <<>> => ig
        /\ \A i \in 2..n : q[i].kind # q[i - 1].kind
    BY DEF InPhase, Opened, Final
  <1>4. ~ForMe(s, r)
    BY DEF ForMe, IsFor
  <1> HIDE DEF o, n
  <1>5. ASSUME NEW i \in 1..(n + 1)
        PROVE  /\ o[i].crc /\ o[i].kind \in {"ind", "con"}
               /\ o[i].kind = "con" => o[i].slave \notin {s, Broadcast}
               /\ o[i].kind = "ind" /\ ForMe(s, o[i]) => i = n + 1
    <2>1. CASE i = n + 1
      BY <1>1, <2>1
    <2>2. CASE i # n + 1
      <3>1. i \in 1..n /\ q # <<>>
        BY <1>2, <2>2
      <3>2. QED  BY <1>1, <1>2, <1>3, <1>4, <3>1
    <2>3. QED  BY <2>1, <2>2
  <1>6. o[1].kind = IF ig THEN "con" ELSE "ind"
    <2>1. CASE q = <<>>
      BY <1>1, <1>2, <1>3, <2>1
    <2>2. CASE q # <<>>
      <3>1. 1 \in 1..n
        BY <1>2, <2>2
      <3>2. QED  BY <1>1, <1>3, <2>2, <3>1
    <2>3. QED  BY <2>1, <2>2
  <1>7. ASSUME NEW i \in 2..(n + 1)
        PROVE  o[i].kind # o[i - 1].kind
    <2>1. CASE i = n + 1
      <3>1. n \in 1..n /\ q # <<>> /\ i - 1 = n
        BY <1>2, <2>1
      <3>2. o[i - 1].kind = "ind" /\ o[i].kind = "con"
        BY <1>1, <1>3, <2>1, <3>1
      <3>3. QED  BY <3>2
    <2>2. CASE i # n + 1
      <3>1. i \in 2..n /\ i \in 1..n /\ i - 1 \in 1..n
        BY <1>2, <2>2
      <3>2. QED  BY <1>1, <1>3, <3>1
    <2>3. QED  BY <2>1, <2>2
  <1>8. QED  BY <1>1, <1>5, <1>6, <1>7 DEF InPhase, Ended, Final, o

\* a slave in phase reads
LEMMA PhaseRead ==
    ASSUME NEW q \in Seq(Frames), q # <<>>, NEW ig \in BOOLEAN, NEW s,
           InPhase(q, ig, s)
    PROVE  /\ Head(q).crc /\ Head(q).kind = IF ig THEN "con" ELSE "ind"
           /\ ~ig /\ ForMe(s, Head(q)) => Tail(q) = <<>>
           /\ ig \/ ~ForMe(s, Head(q)) => InPhase(Tail(q), ~ig, s)
           /\ Ended(q) => Ended(Tail(q))
           /\ \A r : Ends(q, r) => \/ Tail(q) = <<>> /\ Head(q) = r
                                   \/ Ends(Tail(q), r)
  <1> DEFINE o == Tail(q)
             n == Len(q)
  <1>1. /\ o \in Seq(Frames) /\ Len(o) = n - 1 /\ Head(q) = q[1]
        /\ \A i \in 1..Len(o) : o[i] = q[i + 1]
    BY HeadTailProperties
  <1>2. n \in Nat /\ n # 0 /\ (o = <<>> <=> Len(o) = 0)
    BY <1>1, LenProperties, EmptySeq
  <1>3. /\ \A i \in 1..n :
             /\ q[i].crc /\ q[i].kind \in {"ind", "con"}
             /\ q[i].kind = "con" => q[i].slave \notin {s, Broadcast}
             /\ q[i].kind = "ind" /\ ForMe(s, q[i]) => i = n
        /\ q[1].kind = IF ig THEN "con" ELSE "ind"
        /\ \A i \in 2..n : q[i].kind # q[i - 1].kind
    BY DEF InPhase
  <1> HIDE DEF o, n
  <1>4. 1 \in 1..n /\ (o = <<>> <=> n = 1)
    BY <1>1, <1>2
  <1>5. ASSUME NEW i \in 1..Len(o)
        PROVE  i + 1 \in 1..n /\ i + 1 \in 2..n /\ (i + 1) - 1 = i /\ o[i] = q[i + 1]
    BY <1>1, <1>2
  <1>6. InPhase(o, ~ig, s)
    <2>1. ASSUME NEW i \in 1..Len(o)
          PROVE  /\ o[i].crc /\ o[i].kind \in {"ind", "con"}
                 /\ o[i].kind = "con" => o[i].slave \notin {s, Broadcast}
                 /\ o[i].kind = "ind" /\ ForMe(s, o[i]) => i = Len(o)
      <3>1. i + 1 = n => i = Len(o)
        BY <1>1, <1>2
      <3>2. QED  BY <1>3, <1>5, <3>1
    <2>2. ASSUME o # <<>>
          PROVE  o[1].kind = IF ~ig THEN "con" ELSE "ind"
      <3>1. 1 \in 1..Len(o) /\ 2 \in 1..n /\ 2 \in 2..n
        BY <1>1, <1>2, <1>4, <2>2
      <3>2. o[1] = q[2] /\ q[2].kind # q[1].kind /\ q[2].kind \in {"ind", "con"}
        <4>1. 1 + 1 = 2 /\ 2 - 1 = 1
          OBVIOUS
        <4>2. o[1] = q[2]
          BY <1>1, <3>1, <4>1
        <4>3. q[2].kind # q[1].kind
          BY <1>3, <3>1, <4>1
        <4>4. QED  BY <1>3, <3>1, <4>2, <4>3
      <3>3. QED  BY <1>3, <3>2
    <2>3. ASSUME NEW i \in 2..Len(o)
          PROVE  o[i].kind # o[i - 1].kind
      <3>1. i \in 1..Len(o) /\ i - 1 \in 1..Len(o) /\ (i - 1) + 1 = i
        BY <1>1, <1>2
      <3>2. o[i] = q[i + 1] /\ o[i - 1] = q[i]
        BY <1>5, <3>1
      <3>3. i + 1 \in 2..n /\ (i + 1) - 1 = i
        BY <1>5, <3>1
      <3>4. q[i + 1].kind # q[(i + 1) - 1].kind
        BY <1>3, <3>3
      <3>5. QED  BY <3>2, <3>3, <3>4
    <2>4. QED  BY <2>1, <2>2, <2>3 DEF InPhase
  <1>7. ASSUME o # <<>>
        PROVE  o[Len(o)] = q[n]
    <2>1. Len(o) \in 1..Len(o) /\ Len(o) + 1 = n
      BY <1>1, <1>2, <1>4, <1>7
    <2>2. QED  BY <1>1, <2>1
  <1>8. o = <<>> => q[n] = q[1]
    BY <1>4
  <1>9. ~ig /\ ForMe(s, q[1]) => o = <<>>
    BY <1>3, <1>4
  <1>10. Ended(q) => Ended(o)
    BY <1>7 DEF Ended, Final, n
  <1>11. \A r : Ends(q, r) => (o = <<>> /\ q[1] = r) \/ Ends(o, r)
    BY <1>7, <1>8 DEF Ends, Final, n
  <1>12. QED  BY <1>1, <1>3, <1>4, <1>6, <1>9, <1>10, <1>11 DEF o

\* the state of the proof: the invariants, on an undisturbed line
PhaseState == IInv /\ PhaseInv /\ Undisturbed

LEMMA PhaseFacts ==
    ASSUME PhaseState
    PROVE  /\ TypeOK /\ Phases(pc, ok, req, mbuf, up, rx, ignore, executed)
           /\ Answers(pc, ok, got, req, mbuf, rx, regs)
           /\ req \in Frames /\ mbuf \in Seq(Frames) /\ up \subseteq Slaves
           /\ \A s \in Slaves : rx[s] \in Seq(Frames) /\ ignore[s] \in BOOLEAN
           /\ \A s \in up : rx[s] \in Seq(Frames) /\ ignore[s] \in BOOLEAN
           /\ Broadcast \notin up
  <1>1. TypeOK /\ AnswersInv /\ Settled /\ PhaseInv /\ Undisturbed
    BY DEF PhaseState, IInv, TornInv, Undisturbed, Settled, Timely
  <1>2. QED  BY <1>1, ConstantFacts DEF TypeOK, AnswersInv, PhaseInv

LEMMA PhaseInit == Init => PhaseInv
  <1> SUFFICES ASSUME Init PROVE Phases(pc, ok, req, mbuf, up, rx, ignore, executed)
    BY DEF PhaseInv
  <1>1. /\ pc = "idle" /\ mbuf = <<>> /\ req.no = 0 /\ req.kind = "ind" /\ req.crc
        /\ \A s \in up : rx[s] = <<>>
    BY DEF Init
  <1>2. ~(req.no > 0)
    BY <1>1
  <1>3. QED  BY <1>1, <1>2, PhaseEmpty DEF Phases

\* a line that is undisturbed after a step was undisturbed before it
LEMMA UndisturbedBefore ==
    ASSUME TypeOK, [Next]_vars, Undisturbed'
    PROVE  Undisturbed /\ noise' = noise
  <1>1. noise \in Nat
    BY ConstantFacts DEF TypeOK
  <1>2. noise' = noise \/ noise' = noise + 1
    <2>1. CASE UNCHANGED vars
      BY <2>1 DEF vars
    <2>2. CASE Next
      <3>1. CASE \E s \in Numbers, fn \in Functions, v \in Vals : Call(s, fn, v)
        BY <3>1 DEF Call, Hears, Disturb
      <3>2. CASE MasterStep
        BY <3>2 DEF MasterStep, ReceiveTimeout, Receive, Flush
      <3>3. CASE \E s \in Slaves : Serve(s)
        BY <3>3 DEF Serve, Transmit, Disturb
      <3>4. CASE \E s \in Slaves : IgnoreMessage(s) \/ IgnoreTimeout(s) \/ Filter(s)
                                  \/ FilterJunk(s) \/ Quit(s)
        BY <3>4 DEF IgnoreMessage, IgnoreTimeout, Filter, FilterJunk, Quit
      <3>5. QED  BY <2>2, <3>1, <3>2, <3>3, <3>4, Steps
    <2>3. QED  BY <2>1, <2>2
  <1>3. timing' = timing
    <2>1. CASE UNCHANGED vars
      BY <2>1 DEF vars, config
    <2>2. CASE Next
      <3>1. CASE \E s \in Numbers, fn \in Functions, v \in Vals : Call(s, fn, v)
        BY <3>1 DEF Call, config
      <3>2. CASE MasterStep
        BY <3>2 DEF MasterStep, ReceiveTimeout, Receive, Flush, config
      <3>3. CASE \E s \in Slaves : Serve(s)
        BY <3>3 DEF Serve, config
      <3>4. CASE \E s \in Slaves : IgnoreMessage(s) \/ IgnoreTimeout(s) \/ Filter(s)
                                  \/ FilterJunk(s) \/ Quit(s)
        BY <3>4 DEF IgnoreMessage, IgnoreTimeout, Filter, FilterJunk, Quit, config
      <3>5. QED  BY <2>2, <3>1, <3>2, <3>3, <3>4, Steps
    <2>3. QED  BY <2>1, <2>2
  <1>4. noise = 0 /\ noise' = noise
    <2>1. noise' = 0
      BY DEF Undisturbed
    <2>2. noise + 1 # 0
      BY <1>1
    <2>3. QED  BY <1>2, <2>1, <2>2
  <1>5. QED  BY <1>3, <1>4 DEF Undisturbed

\* a call finds every slave waiting for a request
LEMMA PhaseCall ==
    ASSUME PhaseState, NEW s \in Numbers, NEW fn \in Functions, NEW v \in Vals,
           Call(s, fn, v), noise' = noise
    PROVE  Phases(pc', ok', req', mbuf', up', rx', ignore', executed')
  <1>1. /\ Phases(pc, ok, req, mbuf, up, rx, ignore, executed) /\ mbuf = <<>>
        /\ rx \in [Slaves -> Seq(Frames)] /\ up \subseteq Slaves /\ TypeOK
        /\ \A t \in up : rx[t] \in Seq(Frames) /\ ignore[t] \in BOOLEAN
    <2>1. pc = "idle"
      BY DEF Call
    <2>2. QED  BY <2>1, PhaseFacts DEF TypeOK, Answers
  <1>2. /\ pc = "idle" /\ pc' = "wait" /\ up' = up /\ mbuf' = mbuf
        /\ ignore' = ignore /\ Hears(req')
        /\ req'.kind = "ind" /\ req'.crc
        /\ \A t \in up : ignore[t] => rx[t] # <<>>
    BY DEF Call, slaves, PhaseState, Undisturbed
  <1>3. req' \in Frames
    BY <1>1, CallTypes
  <1>4. rx' = Spread(up, req', Broadcast, req')
    <2>1. noise \in Nat /\ noise + 1 # noise
      BY <1>1, ConstantFacts DEF TypeOK
    <2>2. ~Disturb
      BY <2>1 DEF Disturb
    <2>3. QED  BY <1>2, <2>2 DEF Hears
  <1>5. ASSUME NEW t \in up
        PROVE  /\ InPhase(rx'[t], ignore[t], t) /\ Ends(rx'[t], req')
               /\ Opened(rx'[t], ignore[t], req')
    <2>1. rx'[t] = Append(rx[t], req')
      BY <1>1, <1>4 DEF Spread
    <2>2. /\ InPhase(rx[t], ignore[t], t) /\ Ended(rx[t])
          /\ rx[t] = <<>> => ~ignore[t]
      BY <1>1, <1>2 DEF Phases
    <2>3. QED  BY <1>1, <1>2, <1>3, <2>1, <2>2, PhaseRequest
  <1>6. QED  BY <1>1, <1>2, <1>5 DEF Phases

\* the master gives up only when the slave is not there, and takes the answer
LEMMA PhaseMaster ==
    ASSUME PhaseState, MasterStep
    PROVE  Phases(pc', ok', req', mbuf', up', rx', ignore', executed')
  <1>1. /\ Phases(pc, ok, req, mbuf, up, rx, ignore, executed)
        /\ Answers(pc, ok, got, req, mbuf, rx, regs)
        /\ TypeOK /\ req \in Frames /\ mbuf \in Seq(Frames) /\ up \subseteq Slaves
        /\ recovery \in BOOLEAN /\ timing = "prompt" /\ Broadcast \notin up
    BY PhaseFacts DEF TypeOK, PhaseState, Undisturbed
  <1>2. /\ UNCHANGED <<req, rx, executed, up, ignore>> /\ pc # "idle"
    BY DEF MasterStep, ReceiveTimeout, Receive, BadChecksum, WrongAnswer,
           RightAnswer, Misread, Flush, FlushOrFail, Fail, slaves
  <1>3. ASSUME Quiet, mbuf = <<>> \/ pc # "wait", mbuf' = <<>>,
               pc' \in {"idle", "flush"}
        PROVE  Phases(pc', ok', req', mbuf', up', rx', ignore', executed')
    <2>1. \A s \in up : rx[s] = <<>>
      BY <1>1, <1>3 DEF Quiet
    <2>2. req.slave \notin up
      BY <1>1, <1>2, <1>3, <2>1 DEF Phases, Ends
    <2>3. \A s \in up : IsFor(s, req) => executed[s] = req.no
      BY <1>1, <1>2, <2>1 DEF Phases, Ends
    <2>4. \A s \in up : InPhase(rx[s], ignore[s], s) /\ Ended(rx[s])
      BY <1>1, <2>1, PhaseEmpty DEF Phases
    <2>5. req.kind = "ind" /\ req.crc
      BY <1>1 DEF Phases
    <2>6. QED  BY <1>2, <1>3, <2>2, <2>3, <2>4, <2>5 DEF Phases
  <1>4. CASE ReceiveTimeout
    <2>1. /\ Quiet /\ mbuf = <<>> /\ mbuf' = mbuf /\ FlushOrFail(recovery)
      BY <1>1, <1>4 DEF ReceiveTimeout
    <2>2. pc' \in {"idle", "flush"}
      BY <1>1, <2>1, FlushOrFailTypes
    <2>3. QED  BY <1>3, <2>1, <2>2
  <1>5. CASE Flush
    <2>1. Quiet /\ pc # "wait" /\ mbuf' = <<>> /\ pc' = "idle"
      BY <1>1, <1>5 DEF Flush, Fail
    <2>2. QED  BY <1>3, <2>1
  <1>6. CASE Receive
    <2>1. mbuf # <<>>
      BY <1>6 DEF Receive
    <2>2. Len(mbuf) = 1 /\ Head(mbuf) = mbuf[1] /\ Tail(mbuf) = <<>>
      <3>1. Len(mbuf) <= 1
        BY <1>1 DEF Answers
      <3>2. QED  BY <1>1, <2>1, <3>1, Single
    <2>3. /\ req.slave \in up /\ mbuf[1].crc /\ mbuf[1].slave = req.slave
          /\ mbuf[1].fn = req.fn
          /\ executed[req.slave] = req.no /\ \A s \in up : Ended(rx[s])
      BY <1>1, <1>2, <2>1 DEF Phases
    <2>4. Corresponds(mbuf[1]) /\ FromMySlave(mbuf[1])
      BY <1>1, <2>1, <2>3 DEF Corresponds, FromMySlave, Answers
    <2>5. mbuf[1].kind = "con"
      BY <1>1, <2>1 DEF Answers
    <2>6. RightAnswer(mbuf[1])
      BY <1>6, <2>2, <2>3, <2>4, <2>5 DEF Receive, BadChecksum, WrongAnswer
    <2>7. pc' = "idle" /\ ok' = TRUE /\ mbuf' = <<>>
      BY <2>2, <2>6 DEF RightAnswer
    <2>8. \A s \in up : IsFor(s, req) => executed[s] = req.no
      BY <1>1, <2>3 DEF IsFor
    <2>9. /\ req.kind = "ind" /\ req.crc
          /\ \A s \in up : InPhase(rx[s], ignore[s], s)
      BY <1>1 DEF Phases
    <2>10. QED  BY <1>2, <2>3, <2>7, <2>8, <2>9 DEF Phases
  <1>7. QED  BY <1>4, <1>5, <1>6 DEF MasterStep

\* what a slave in phase drops is a request for another slave or its confirmation
LEMMA PhaseDrop ==
    ASSUME PhaseState, NEW s \in Slaves,
           IgnoreMessage(s) \/ IgnoreTimeout(s) \/ Filter(s) \/ FilterJunk(s) \/ Quit(s)
    PROVE  Phases(pc', ok', req', mbuf', up', rx', ignore', executed')
  <1>1. /\ Phases(pc, ok, req, mbuf, up, rx, ignore, executed)
        /\ TypeOK /\ up \subseteq Slaves /\ s \in up /\ rx[s] \in Seq(Frames)
        /\ rx \in [Slaves -> Seq(Frames)] /\ ignore \in [Slaves -> BOOLEAN]
        /\ ignore[s] \in BOOLEAN /\ InPhase(rx[s], ignore[s], s)
        /\ req.kind = "ind" /\ timing = "prompt"
    <2>1. s \in up
      BY DEF IgnoreMessage, IgnoreTimeout, Filter, FilterJunk, Quit
    <2>2. QED  BY <2>1, PhaseFacts DEF Phases, TypeOK, PhaseState, Undisturbed
  <1>2. UNCHANGED <<pc, ok, req, mbuf, executed>>
    BY <1>1, DropTypes DEF master
  <1>3. CASE IgnoreTimeout(s)
    <2>1. /\ Quiet /\ ignore' = [ignore EXCEPT ![s] = FALSE] /\ rx' = rx /\ up' = up
      BY <1>1, <1>3 DEF IgnoreTimeout, slaves
    <2>2. \A t \in up : rx[t] = <<>>
      BY <1>1, <2>1 DEF Quiet
    <2>3. \A t \in up : InPhase(rx'[t], ignore'[t], t)
      BY <2>1, <2>2, PhaseEmpty
    <2>4. pc # "idle" /\ req.slave \in up => mbuf # <<>>
      BY <1>1, <2>2 DEF Phases, Ends
    <2>5. QED  BY <1>1, <1>2, <2>1, <2>3, <2>4 DEF Phases
  <1>4. ASSUME rx[s] # <<>>, ignore[s] \/ ~ForMe(s, Head(rx[s])),
               rx' = [rx EXCEPT ![s] = Tail(rx[s])],
               ignore' = [ignore EXCEPT ![s] = ~ignore[s]], up' = up
        PROVE  Phases(pc', ok', req', mbuf', up', rx', ignore', executed')
    <2>1. /\ Head(rx[s]).kind = IF ignore[s] THEN "con" ELSE "ind"
          /\ InPhase(Tail(rx[s]), ~ignore[s], s)
          /\ Ended(rx[s]) => Ended(Tail(rx[s]))
          /\ Ends(rx[s], req) => \/ Tail(rx[s]) = <<>> /\ Head(rx[s]) = req
                                 \/ Ends(Tail(rx[s]), req)
      BY <1>1, <1>4, PhaseRead
    <2>2. /\ rx'[s] = Tail(rx[s]) /\ ignore'[s] = ~ignore[s]
          /\ \A t \in Slaves \ {s} : rx'[t] = rx[t] /\ ignore'[t] = ignore[t]
      BY <1>1, <1>4
    <2>3. IsFor(s, req) /\ Ends(rx[s], req) => Ends(rx'[s], req)
      BY <1>1, <1>4, <2>1, <2>2 DEF IsFor, ForMe
    <2>4. Opened(rx[s], ignore[s], req) => Opened(rx'[s], ignore'[s], req)
      BY <1>1, <1>4, <2>1, <2>2 DEF Opened, Ends
    <2>5. ASSUME NEW t \in up
          PROVE  /\ InPhase(rx'[t], ignore'[t], t)
                 /\ Ended(rx[t]) => Ended(rx'[t])
                 /\ IsFor(t, req) /\ Ends(rx[t], req) => Ends(rx'[t], req)
                 /\ Opened(rx[t], ignore[t], req) => Opened(rx'[t], ignore'[t], req)
      <3>1. CASE t = s
        BY <2>1, <2>2, <2>3, <2>4, <3>1
      <3>2. CASE t # s
        <4>1. t \in Slaves \ {s} /\ InPhase(rx[t], ignore[t], t)
          BY <1>1, <3>2 DEF Phases
        <4>2. QED  BY <2>2, <4>1
      <3>3. QED  BY <3>1, <3>2
    <2>6. IsFor(req.slave, req)
      BY DEF IsFor
    <2>7. QED  BY <1>1, <1>2, <1>4, <2>5, <2>6 DEF Phases
  <1>5. CASE rx[s] # <<>>
    <2>1. Head(rx[s]).crc /\ Head(rx[s]).kind = IF ignore[s] THEN "con" ELSE "ind"
      BY <1>1, <1>5, PhaseRead
    <2>2. CASE IgnoreMessage(s)
      <3>1. /\ ignore[s] /\ Read(s, Rest(s)) /\ up' = up
            /\ ignore' = [ignore EXCEPT ![s] = FALSE]
        BY <2>1, <2>2 DEF IgnoreMessage, First, slaves
      <3>2. ignore' = [ignore EXCEPT ![s] = ~ignore[s]]
        BY <3>1
      <3>3. QED  BY <1>4, <1>5, <3>1, <3>2 DEF Read, Rest
    <2>3. CASE Filter(s)
      <3>1. /\ ~ignore[s] /\ ~ForMe(s, Head(rx[s])) /\ Read(s, Rest(s)) /\ up' = up
            /\ ignore' = [ignore EXCEPT ![s] = TRUE]
        BY <2>1, <2>3 DEF Filter, First, slaves
      <3>2. ignore' = [ignore EXCEPT ![s] = ~ignore[s]]
        BY <3>1
      <3>3. QED  BY <1>4, <1>5, <3>1, <3>2 DEF Read, Rest
    <2>4. ~FilterJunk(s) /\ ~Quit(s)
      BY <2>1 DEF FilterJunk, Quit, First
    <2>5. QED  BY <1>3, <2>2, <2>3, <2>4
  <1>6. CASE rx[s] = <<>>
    BY <1>3, <1>6 DEF IgnoreMessage, Filter, FilterJunk, Quit
  <1>7. QED  BY <1>5, <1>6

\* a slave serves the last request, and the others wait for its confirmation
LEMMA PhaseServe ==
    ASSUME PhaseState, NEW s \in Slaves, Serve(s), noise' = noise
    PROVE  Phases(pc', ok', req', mbuf', up', rx', ignore', executed')
  <1>1. /\ Phases(pc, ok, req, mbuf, up, rx, ignore, executed)
        /\ Answers(pc, ok, got, req, mbuf, rx, regs) /\ IInv
        /\ TypeOK /\ req \in Frames /\ up \subseteq Slaves /\ Broadcast \notin up
        /\ \A t \in up : rx[t] \in Seq(Frames) /\ ignore[t] \in BOOLEAN
        /\ rx \in [Slaves -> Seq(Frames)] /\ executed \in [Slaves -> Nat]
        /\ regs \in [Slaves -> Vals]
    BY PhaseFacts DEF TypeOK, PhaseState
  <1>2. /\ s \in up /\ ~ignore[s] /\ rx[s] # <<>> /\ ForMe(s, First(s))
        /\ UNCHANGED <<pc, ok, req, up, ignore>>
        /\ executed' = [executed EXCEPT ![s] = First(s).no]
    BY DEF Serve, master
  <1>3. /\ First(s) = req /\ mbuf = <<>> /\ pc # "idle"
    <2>1. OnlyLast(rx[s], s, req)
      BY <1>1 DEF Answers
    <2>2. First(s) = req /\ ~Clean(rx[s], s)
      BY <1>1, <2>1, ServedQueues
    <2>3. QED  BY <1>1, <2>2 DEF Answers
  <1>4. Rest(s) = <<>>
    <2>1. InPhase(rx[s], ignore[s], s)
      BY <1>1, <1>2 DEF Phases
    <2>2. QED  BY <1>1, <1>2, <2>1, PhaseRead DEF First, Rest
  <1>5. /\ executed'[s] = req.no
        /\ \A t \in up \ {s} : executed'[t] = executed[t]
    BY <1>1, <1>2, <1>3
  <1>6. /\ req.kind = "ind" /\ req.crc
        /\ \A t \in up : InPhase(rx[t], ignore[t], t)
        /\ \A t \in up : IsFor(t, req) => executed[t] = req.no \/ Ends(rx[t], req)
    BY <1>1, <1>3 DEF Phases
  <1>7. CASE req.slave = Broadcast
    <2>1. mbuf' = mbuf /\ rx' = [rx EXCEPT ![s] = <<>>]
      BY <1>3, <1>4, <1>7 DEF Serve, Read
    <2>2. rx'[s] = <<>> /\ \A t \in up \ {s} : rx'[t] = rx[t]
      BY <1>1, <2>1
    <2>3. \A t \in up : InPhase(rx'[t], ignore[t], t)
      BY <1>6, <2>2, PhaseEmpty
    <2>4. \A t \in up : IsFor(t, req) => executed'[t] = req.no \/ Ends(rx'[t], req)
      BY <1>5, <1>6, <2>2
    <2>5. req.slave \notin up /\ mbuf' = <<>>
      BY <1>1, <1>3, <1>7, <2>1
    <2>6. QED  BY <1>2, <1>3, <1>6, <2>3, <2>4, <2>5 DEF Phases
  <1>8. CASE req.slave # Broadcast
    <2> DEFINE c == Answer(s, req)
    <2>1. /\ c \in Frames /\ c.kind = "con" /\ c.slave = s /\ c.fn = req.fn /\ c.crc
      <3>1. c \in Frames /\ c.kind = "con" /\ c.slave = s /\ c.fn = req.fn
        BY <1>1, AnswerType
      <3>2. c.crc
        BY <1>1 DEF Answer, Frames
      <3>3. QED  BY <3>1, <3>2
    <2>2. Transmit(s, c)
      BY <1>3, <1>8 DEF Serve
    <2> HIDE DEF c
    <2>3. /\ mbuf' = Append(mbuf, c)
          /\ rx' = [Spread(up, c, Broadcast, c) EXCEPT ![s] = Rest(s)]
      <3>1. noise \in Nat /\ noise + 1 # noise
        BY <1>1, ConstantFacts DEF TypeOK
      <3>2. ~Disturb
        BY <3>1 DEF Disturb
      <3>3. QED  BY <2>2, <3>2 DEF Transmit, ToMaster
    <2>4. req.slave = s
      BY <1>2, <1>3, <1>8 DEF ForMe
    <2>5. mbuf' # <<>> /\ mbuf'[1] = c
      BY <1>3, <2>3
    <2>6. /\ rx'[s] = <<>>
          /\ \A t \in up \ {s} : rx'[t] = Append(rx[t], c)
      BY <1>1, <1>4, <2>3 DEF Spread
    <2>7. pc = "wait" /\ \A t \in up : Opened(rx[t], ignore[t], req)
      BY <1>1, <1>2, <1>3, <2>4 DEF Phases
    <2>8. ASSUME NEW t \in up
          PROVE  InPhase(rx'[t], ignore[t], t) /\ Ended(rx'[t])
      <3>1. CASE t = s
        BY <2>6, <3>1, PhaseEmpty
      <3>2. CASE t # s
        <4>1. c.slave \notin {t, Broadcast} /\ ~IsFor(t, req)
          BY <1>1, <1>2, <2>1, <2>4, <3>2 DEF IsFor
        <4>2. InPhase(rx[t], ignore[t], t) /\ Opened(rx[t], ignore[t], req)
          BY <1>6, <2>7
        <4>3. rx'[t] = Append(rx[t], c)
          BY <2>6, <3>2
        <4>4. rx[t] \in Seq(Frames) /\ ignore[t] \in BOOLEAN /\ req.kind = "ind"
          BY <1>1, <1>6
        <4>5. InPhase(Append(rx[t], c), ignore[t], t) /\ Ended(Append(rx[t], c))
          BY <2>1, <4>1, <4>2, <4>4, PhaseConfirmation
        <4>6. QED  BY <4>3, <4>5
      <3>3. QED  BY <3>1, <3>2
    <2>9. \A t \in up : IsFor(t, req) => executed'[t] = req.no
      BY <1>1, <1>2, <1>5, <2>4 DEF IsFor
    <2>10. QED  BY <1>2, <1>3, <1>5, <1>6, <2>1, <2>4, <2>5, <2>7, <2>8, <2>9 DEF Phases
  <1>9. QED  BY <1>7, <1>8

LEMMA PhaseKept == IInv /\ PhaseInv /\ [Next]_vars => PhaseInv'
  <1> SUFFICES ASSUME IInv, PhaseInv, [Next]_vars, Undisturbed'
               PROVE  Phases(pc', ok', req', mbuf', up', rx', ignore', executed')
    BY DEF PhaseInv
  <1>1. PhaseState /\ noise' = noise
    BY UndisturbedBefore DEF PhaseState, IInv
  <1>2. CASE UNCHANGED vars
    BY <1>1, <1>2, PhaseFacts DEF vars, master, slaves
  <1>3. CASE Next
    BY <1>1, <1>3, Steps, PhaseCall, PhaseMaster, PhaseDrop, PhaseServe
  <1>4. QED  BY <1>2, <1>3

(* Every request is heard: on an undisturbed line, with the timeouts in      *)
(* order, every slave that a call names has executed it when the call ends,  *)
(* and a call that names a slave on the line has succeeded, for any number   *)
(* of slaves, of calls and of messages that a slave has still to read.       *)
THEOREM EveryRequestIsHeard == Spec => []Heard
  <1>1. PhaseInv => Heard
    BY DEF PhaseInv, Undisturbed, Phases, Heard, Asked, IsFor
  <1>2. QED  BY <1>1, PhaseInit, PhaseKept, Invariance, PTL DEF Spec

=============================================================================
