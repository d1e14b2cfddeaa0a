----------------------- MODULE ModbusTransactionProofs -----------------------
(* Theorems about ModbusTransaction for every mapping, every number of calls  *)
(* and connections and every error recovery mode.  The heart of the argument: *)
(* a transaction identifier that wraps still tells the messages in the        *)
(* channels apart as long as none of them is TidMod calls old.                *)
EXTENDS ModbusTransaction, TLAPS

\* the identifier of the call k calls before the one that has identifier t
TidBack(t, k) == IF k <= t THEN t - k ELSE t + TidMod - k

\* the messages of a channel are in the order of the calls
Ordered(q) == \A i, j \in 1..Len(q) : i < j => q[i].no < q[j].no

\* a message carries the identifier of its call, and is not too old for it
Identified(q) == \A i \in 1..Len(q) :
    /\ q[i].no <= req.no
    /\ req.no - q[i].no < TidMod
    /\ q[i].tid = TidBack(req.tid, req.no - q[i].no)

\* confirmations answer requests the server has executed, and the one of the
\* current call shows the register as it still is
Answers(q) == \A i \in 1..Len(q) :
    /\ q[i].no <= executed
    /\ q[i].no = req.no =>
         /\ q[i].fn = req.fn /\ q[i].addr = req.addr
         /\ ~q[i].exc => q[i].addr \in Served /\ regs[q[i].addr] = q[i].val

\* what is in the receive buffer was sent before what is still on its way
Queues ==
    /\ Ordered(c2s) /\ Ordered(s2c) /\ Ordered(rbuf)
    /\ Identified(c2s) /\ Identified(s2c) /\ Identified(rbuf)
    /\ \A i \in 1..Len(rbuf), j \in 1..Len(s2c) : rbuf[i].no < s2c[j].no

\* requests on their way are not executed yet
Requested ==
    /\ executed <= req.no
    /\ pc = "send" => executed < req.no
    /\ \A i \in 1..Len(c2s) :
         /\ executed < c2s[i].no
         /\ pc = "send" => c2s[i].no < req.no
         /\ c2s[i].no = req.no => c2s[i].fn = req.fn /\ c2s[i].addr = req.addr

Answered == Answers(s2c) /\ Answers(rbuf)

\* after a success the channels are empty, and the register is as acknowledged
Acked ==
    ok => /\ pc = "idle"
          /\ Tcp => /\ executed = req.no /\ c2s = <<>> /\ s2c = <<>> /\ rbuf = <<>>
                    /\ req.addr \in Served /\ regs[req.addr] = got

IInv == TypeOK /\ Queues /\ Requested /\ Answered /\ Acked

-----------------------------------------------------------------------------
(* d is a run of consecutive elements of q *)
Segment(d, q) ==
    \E k \in Nat : /\ Len(d) + k <= Len(q)
                   /\ \A i \in 1..Len(d) : d[i] = q[i + k]

LEMMA SegmentSelf ==
    ASSUME NEW S, NEW q \in Seq(S)
    PROVE  Segment(q, q)
  <1>1. Len(q) + 0 <= Len(q) /\ \A i \in 1..Len(q) : q[i] = q[i + 0]
    OBVIOUS
  <1>2. QED  BY <1>1 DEF Segment

LEMMA ElementType ==
    ASSUME NEW S, NEW q \in Seq(S)
    PROVE  \A i \in 1..Len(q) : q[i] \in S
  OBVIOUS

LEMMA EmptySeq ==
    ASSUME NEW S
    PROVE  <<>> \in Seq(S)
  OBVIOUS

LEMMA SegmentEmpty ==
    ASSUME NEW S, NEW q \in Seq(S)
    PROVE  Segment(<<>>, q)
  <1>1. Len(<<>>) + 0 <= Len(q) /\ \A i \in 1..Len(<<>>) : <<>>[i] = q[i + 0]
    OBVIOUS
  <1>2. QED  BY <1>1 DEF Segment

LEMMA SegmentTail ==
    ASSUME NEW S, NEW q \in Seq(S), q # <<>>
    PROVE  Tail(q) \in Seq(S) /\ Segment(Tail(q), q)
  <1>1. Len(Tail(q)) + 1 <= Len(q)
        /\ \A i \in 1..Len(Tail(q)) : Tail(q)[i] = q[i + 1]
    OBVIOUS
  <1>2. QED  BY <1>1 DEF Segment

LEMMA SegmentTrans ==
    ASSUME NEW S, NEW q \in Seq(S), NEW d \in Seq(S), NEW e \in Seq(S),
           Segment(d, q), Segment(e, d)
    PROVE  Segment(e, q)
  <1>1. PICK k \in Nat : /\ Len(d) + k <= Len(q)
                         /\ \A i \in 1..Len(d) : d[i] = q[i + k]
    BY DEF Segment
  <1>2. PICK m \in Nat : /\ Len(e) + m <= Len(d)
                         /\ \A i \in 1..Len(e) : e[i] = d[i + m]
    BY DEF Segment
  <1>3. m + k \in Nat /\ Len(e) + (m + k) <= Len(q)
    BY <1>1, <1>2
  <1>4. ASSUME NEW i \in 1..Len(e) PROVE e[i] = q[i + (m + k)]
    <2>1. i + m \in 1..Len(d)
      BY <1>2
    <2>2. e[i] = d[i + m] /\ d[i + m] = q[(i + m) + k]
      BY <2>1, <1>1, <1>2
    <2>3. QED  BY <2>2
  <1>5. QED  BY <1>3, <1>4 DEF Segment

(* What a close leaves of the requests, and what the server's close leaves    *)
LEMMA SegmentSurviving ==
    ASSUME NEW S, c2s \in Seq(S), NEW d \in RequestsSurvivingClose
    PROVE  d \in Seq(S) /\ Segment(d, c2s)
  <1>1. PICK n \in 0..Len(c2s) : d = SubSeq(c2s, 1, n)
    BY DEF RequestsSurvivingClose
  <1>2. d \in Seq(S) /\ Len(d) + 0 <= Len(c2s)
        /\ \A i \in 1..Len(d) : d[i] = c2s[i + 0]
    BY <1>1
  <1>3. QED  BY <1>2 DEF Segment

LEMMA SegmentAfterClosing ==
    ASSUME NEW S, NEW q \in Seq(S), NEW s, NEW d \in AfterClosing(s, q)
    PROVE  d \in Seq(S) /\ Segment(d, q)
  <1>1. PICK n \in 0..Len(q) : d = SubSeq(q, n + 1, Len(q))
    BY DEF AfterClosing
  <1>2. d \in Seq(S) /\ Len(d) + n <= Len(q)
        /\ \A i \in 1..Len(d) : d[i] = q[i + n]
    BY <1>1
  <1>3. QED  BY <1>2 DEF Segment

-----------------------------------------------------------------------------
(* Type correctness.                                                          *)

LEMMA NextTidType ==
    ASSUME NEW t \in 0..(TidMod - 1)
    PROVE  NextTid(t) \in 0..(TidMod - 1)
  BY ConstantsAssumption DEF NextTid

LEMMA ClosedType ==
    ASSUME TypeOK, Close
    PROVE  /\ c2s' \in Seq(Indications)
           /\ s2c' \in Seq(Confirmations) /\ rbuf' \in Seq(Confirmations)
  BY SegmentSurviving DEF TypeOK, Close

LEMMA ConnectedType ==
    ASSUME TypeOK, Connect
    PROVE  connected' \in BOOLEAN /\ conn' \in Nat \ {0} /\ linkUp' \in BOOLEAN
  <1>1. conn' \in Nat \ {0}
    <2>1. conn \in Nat \ {0} /\ (conn' = conn \/ conn' = conn + 1)
      BY DEF TypeOK, Connect
    <2>2. QED  BY <2>1
  <1>2. connected' \in BOOLEAN /\ linkUp' \in BOOLEAN
    BY Zenon DEF Connect
  <1>3. QED  BY <1>1, <1>2

LEMMA ConfirmationType ==
    ASSUME TypeOK, NEW m \in Indications
    PROVE  Confirmation(m) \in Confirmations
  BY DEF TypeOK, Confirmation, Confirmations, Indications

LEMMA TypeInit == Init => TypeOK
  <1> SUFFICES ASSUME Init PROVE TypeOK
    OBVIOUS
  <1>1. (CHOOSE a \in Addrs : TRUE) \in Addrs
    BY ConstantsAssumption
  <1>2. req \in Requests
    BY <1>1, ConstantsAssumption DEF Init, Requests, Functions
  <1>3. regs \in [Served -> Vals]
    BY ConstantsAssumption DEF Init
  <1>4. /\ ok \in BOOLEAN /\ connected \in BOOLEAN /\ linkUp \in BOOLEAN
        /\ serving \in BOOLEAN /\ got \in Vals
        /\ pc \in {"idle", "send", "wait", "flush"}
    BY Zenon, ConstantsAssumption DEF Init
  <1>5. /\ c2s \in Seq(Indications)
        /\ s2c \in Seq(Confirmations) /\ rbuf \in Seq(Confirmations)
        /\ conn \in Nat \ {0} /\ sconn \in Nat /\ executed \in Nat
    BY DEF Init
  <1>6. QED
    BY <1>2, <1>3, <1>4, <1>5 DEF TypeOK, Init

LEMMA TypeStep == TypeOK /\ [Next]_vars => TypeOK'
  <1> SUFFICES ASSUME TypeOK, [Next]_vars PROVE TypeOK'
    OBVIOUS
  <1> USE DEF TypeOK
  <1>1. ASSUME NEW fn \in Functions, NEW a \in Addrs, NEW v \in Vals, Call(fn, a, v)
        PROVE  TypeOK'
    <2>1. req' \in Requests
      BY <1>1, NextTidType DEF Call, Requests
    <2>2. QED
      BY <1>1, <2>1 DEF Call, socket, channel, server
  <1>2. CASE Send
    <2>1. Indication \in Indications
      BY DEF Indication, Indications, Requests
    <2>2. c2s' \in Seq(Indications)
      BY <1>2, <2>1 DEF Send
    <2>3. QED
      BY <1>2, <2>2 DEF Send, socket, server
  <1>3. CASE SendBroken
    <2>1. CASE Link
      BY <1>3, <2>1, ClosedType, ConnectedType DEF SendBroken, client, server
    <2>2. CASE ~Link
      BY <1>3, <2>2 DEF SendBroken, Fail, socket, channel, server
    <2>3. QED  BY <2>1, <2>2
  <1>4. CASE SendRefused
    <2>1. rbuf' \in Seq(Confirmations)
      BY <1>4, EmptySeq, Zenon DEF SendRefused
    <2>2. QED
      BY <1>4, <2>1, Zenon DEF SendRefused, Fail, client, socket, server
  <1>5. CASE ReceiveTimeout
    BY <1>5 DEF ReceiveTimeout, FlushOrFail, Fail, socket, channel, server
  <1>6. CASE ReceiveReset
    <2>1. CASE Link
      BY <1>6, <2>1, ClosedType, ConnectedType DEF ReceiveReset, Fail, server
    <2>2. CASE ~Link
      BY <1>6, <2>2 DEF ReceiveReset, Fail, socket, channel, server
    <2>3. QED  BY <2>1, <2>2
  <1>7. CASE Receive
    <2>1. rbuf' \in Seq(Confirmations) /\ Head(rbuf) \in Confirmations
      BY <1>7 DEF Receive
    <2>2. Head(rbuf).val \in Vals
      BY <2>1 DEF Confirmations
    <2>3. /\ pc' \in {"idle", "send", "wait", "flush"}
          /\ ok' \in BOOLEAN /\ got' \in Vals /\ req' = req
      BY <1>7, <2>2, Zenon DEF Receive, FlushOrFail, Fail, Succeed
    <2>4. QED
      BY <1>7, <2>1, <2>3 DEF Receive, socket, server
  <1>8. CASE Flush
    BY <1>8, EmptySeq, Zenon DEF Flush, Fail, socket, server
  <1>9. CASE AppFlush
    BY <1>9 DEF AppFlush, client, socket, server
  <1>10. CASE AppReconnect
    BY <1>10, ClosedType, ConnectedType DEF AppReconnect, client, server
  <1>11. CASE Deliver
    BY <1>11 DEF Deliver, client, socket, server
  <1>12. CASE Break
    <2>1. c2s' \in Seq(Indications)
      BY <1>12, SegmentSurviving DEF Break
    <2>2. s2c' \in Seq(Confirmations) /\ rbuf' \in Seq(Confirmations)
      BY <1>12, EmptySeq, Zenon DEF Break
    <2>3. QED
      BY <1>12, <2>1, <2>2, Zenon DEF Break, client, server
  <1>13. CASE Accept
    <2>1. c2s' \in Seq(Indications) /\ sconn' \in Nat
      BY <1>13, SegmentAfterClosing DEF Accept
    <2>2. serving' \in BOOLEAN
      BY <1>13, Zenon DEF Accept
    <2>3. QED
      BY <1>13, <2>1, <2>2, Zenon DEF Accept, client, socket
  <1>14. CASE CloseClient
    BY <1>14 DEF CloseClient, client, socket, channel
  <1>15. CASE Serve
    <2> DEFINE m == Head(c2s)
    <2>1. m \in Indications /\ Tail(c2s) \in Seq(Indications)
      BY <1>15 DEF Serve
    <2>2. m.val \in Vals /\ m.no \in Nat
      BY <2>1 DEF Indications
    <2>3. regs' \in [Served -> Vals] /\ executed' \in Nat
      BY <1>15, <2>2 DEF Serve
    <2>4. s2c' \in Seq(Confirmations)
      <3>1. Confirmation(m) \in Confirmations
        BY <2>1, ConfirmationType
      <3>2. s2c' = Append(s2c, Confirmation(m)) \/ s2c' = s2c
        BY <1>15, Zenon DEF Serve
      <3>3. Append(s2c, Confirmation(m)) \in Seq(Confirmations)
        BY <3>1
      <3>4. QED  BY <3>2, <3>3, Zenon
    <2>5. c2s' \in Seq(Indications) /\ serving' \in BOOLEAN
      BY <1>15, <2>1, SegmentAfterClosing DEF Serve
    <2>6. QED
      BY <1>15, <2>3, <2>4, <2>5 DEF Serve, client, socket
  <1>16. CASE UNCHANGED vars
    BY <1>16 DEF vars, client, socket, channel, server
  <1>17. QED
    BY <1>1, <1>2, <1>3, <1>4, <1>5, <1>6, <1>7, <1>8, <1>9, <1>10, <1>11,
       <1>12, <1>13, <1>14, <1>15, <1>16, ConstantsAssumption
       DEF Next, ClientStep, ServerStep, ReadRegister, WriteRegister, Functions

(* The variables keep their types (TypeOK).                                   *)
THEOREM TypeCorrect == Spec => []TypeOK
  BY TypeInit, TypeStep, PTL DEF Spec

-----------------------------------------------------------------------------
(* Steps that only take messages away keep the invariant.                     *)

Within(d, q) == \A i \in 1..Len(d) : \E j \in 1..Len(q) : d[i] = q[j]

LEMMA SegmentElement ==
    ASSUME NEW S, NEW q \in Seq(S), NEW d \in Seq(S), Segment(d, q)
    PROVE  Within(d, q)
  <1>1. PICK k \in Nat : /\ Len(d) + k <= Len(q)
                         /\ \A n \in 1..Len(d) : d[n] = q[n + k]
    BY DEF Segment
  <1>2. ASSUME NEW i \in 1..Len(d)
        PROVE  i + k \in 1..Len(q) /\ d[i] = q[i + k]
    BY <1>1
  <1>3. QED  BY <1>2 DEF Within

LEMMA OrderedSegment ==
    ASSUME NEW S, NEW q \in Seq(S), NEW d \in Seq(S), Segment(d, q), Ordered(q)
    PROVE  Ordered(d)
  <1>1. PICK k \in Nat : /\ Len(d) + k <= Len(q)
                         /\ \A n \in 1..Len(d) : d[n] = q[n + k]
    BY DEF Segment
  <1>2. ASSUME NEW i \in 1..Len(d), NEW j \in 1..Len(d), i < j
        PROVE  d[i].no < d[j].no
    <2>1. i + k \in 1..Len(q) /\ j + k \in 1..Len(q) /\ i + k < j + k
      BY <1>1, <1>2
    <2>2. q[i + k].no < q[j + k].no
      BY <2>1 DEF Ordered
    <2>3. QED  BY <1>1, <2>2
  <1>3. QED  BY <1>2 DEF Ordered

LEMMA ShrinkQueues ==
    ASSUME IInv, TypeOK',
           Segment(c2s', c2s), Segment(s2c', s2c), Segment(rbuf', rbuf),
           req' = req, regs' = regs, executed' = executed,
           pc' = "send" => pc = "send"
    PROVE  Queues' /\ Requested' /\ Answered'
  <1>1. /\ c2s \in Seq(Indications) /\ c2s' \in Seq(Indications)
        /\ s2c \in Seq(Confirmations) /\ s2c' \in Seq(Confirmations)
        /\ rbuf \in Seq(Confirmations) /\ rbuf' \in Seq(Confirmations)
    BY DEF IInv, TypeOK
  <1>2. /\ \A i \in 1..Len(c2s') : \E j \in 1..Len(c2s) : c2s'[i] = c2s[j]
        /\ \A i \in 1..Len(s2c') : \E j \in 1..Len(s2c) : s2c'[i] = s2c[j]
        /\ \A i \in 1..Len(rbuf') : \E j \in 1..Len(rbuf) : rbuf'[i] = rbuf[j]
    <2>1. Within(c2s', c2s) /\ Within(s2c', s2c) /\ Within(rbuf', rbuf)
      BY <1>1, SegmentElement
    <2>2. QED  BY <2>1 DEF Within
  <1>3. Queues'
    <2>1. Ordered(c2s)' /\ Ordered(s2c)' /\ Ordered(rbuf)'
      <3>1. Ordered(c2s') /\ Ordered(s2c') /\ Ordered(rbuf')
        BY <1>1, OrderedSegment DEF IInv, Queues
      <3>2. QED  BY <3>1 DEF Ordered
    <2>2. Identified(c2s)' /\ Identified(s2c)' /\ Identified(rbuf)'
      BY <1>2, ZenonT(60) DEF IInv, Queues, Identified
    <2>3. \A i \in 1..Len(rbuf'), j \in 1..Len(s2c') : rbuf'[i].no < s2c'[j].no
      <3>1. \A i \in 1..Len(rbuf), j \in 1..Len(s2c) : rbuf[i].no < s2c[j].no
        BY DEF IInv, Queues
      <3>2. QED  BY <1>2, <3>1, Zenon
    <2>4. QED  BY <2>1, <2>2, <2>3 DEF Queues
  <1>4. Requested'
    BY <1>2, Zenon DEF IInv, Requested
  <1>5. Answered'
    BY <1>2, Zenon DEF IInv, Answered, Answers
  <1>6. QED
    BY <1>3, <1>4, <1>5

LEMMA Shrink ==
    ASSUME IInv, TypeOK',
           Segment(c2s', c2s), Segment(s2c', s2c), Segment(rbuf', rbuf),
           req' = req, regs' = regs, executed' = executed,
           pc' = "send" => pc = "send",
           ok' => ok /\ pc' = pc /\ got' = got
    PROVE  IInv'
  <1>1. Acked'
    <2>1. SUFFICES ASSUME ok' PROVE Acked'
      BY DEF Acked
    <2>2. ok /\ pc' = pc /\ got' = got
      BY <2>1
    <2>3. ASSUME Tcp PROVE c2s' = <<>> /\ s2c' = <<>> /\ rbuf' = <<>>
      <3>1. c2s = <<>> /\ s2c = <<>> /\ rbuf = <<>>
        BY <2>2, <2>3 DEF IInv, Acked
      <3>2. /\ c2s' \in Seq(Indications)
            /\ s2c' \in Seq(Confirmations) /\ rbuf' \in Seq(Confirmations)
        BY DEF TypeOK
      <3>3. QED  BY <3>1, <3>2 DEF Segment
    <2>4. QED
      BY <2>2, <2>3, Zenon DEF IInv, Acked
  <1>2. QED
    BY <1>1, ShrinkQueues DEF IInv

-----------------------------------------------------------------------------
(* The other steps, one lemma each.                                           *)

\* the identifier sent n calls ago, as long as n < TidMod
LEMMA TidBackNext ==
    ASSUME NEW t \in 0..(TidMod - 1), NEW k \in Nat, k + 1 < TidMod
    PROVE  TidBack(NextTid(t), k + 1) = TidBack(t, k)
  BY ConstantsAssumption DEF TidBack, NextTid

LEMMA TidBackInjective ==
    ASSUME NEW t \in 0..(TidMod - 1), NEW k \in Nat, k < TidMod,
           TidBack(t, k) = t
    PROVE  k = 0
  BY ConstantsAssumption DEF TidBack

LEMMA Numbers ==
    ASSUME TypeOK
    PROVE  /\ \A i \in 1..Len(c2s) : c2s[i].no \in Nat
           /\ \A i \in 1..Len(s2c) : s2c[i].no \in Nat
           /\ \A i \in 1..Len(rbuf) : rbuf[i].no \in Nat
  <1>1. \A i \in 1..Len(c2s) : c2s[i] \in Indications
    BY ElementType DEF TypeOK
  <1>2. \A i \in 1..Len(s2c) : s2c[i] \in Confirmations
    BY ElementType DEF TypeOK
  <1>3. \A i \in 1..Len(rbuf) : rbuf[i] \in Confirmations
    BY ElementType DEF TypeOK
  <1>4. QED
    BY <1>1, <1>2, <1>3 DEF Indications, Confirmations

LEMMA StepCall ==
    ASSUME IInv, TypeOK', NEW fn, NEW a, NEW v, Call(fn, a, v)
    PROVE  IInv'
  <1>1. /\ req \in Requests /\ req' \in Requests
        /\ c2s \in Seq(Indications) /\ s2c \in Seq(Confirmations)
        /\ rbuf \in Seq(Confirmations)
    BY DEF IInv, TypeOK
  <1>2. /\ req'.no = req.no + 1 /\ req'.tid = NextTid(req.tid)
        /\ req.no \in Nat /\ req.tid \in 0..(TidMod - 1)
        /\ c2s' = c2s /\ s2c' = s2c /\ rbuf' = rbuf
        /\ regs' = regs /\ executed' = executed
        /\ pc' = "send" /\ ok' = FALSE
    BY <1>1 DEF Call, Requests, channel, server
  <1>3. ASSUME NEW m \in Nat, m <= req.no, req.no + 1 - m <= MaxLag,
               NEW t, t = TidBack(req.tid, req.no - m)
        PROVE  /\ m < req'.no /\ req'.no - m < TidMod
               /\ t = TidBack(req'.tid, req'.no - m)
    <2>1. req.no - m \in Nat /\ (req.no - m) + 1 < TidMod
      BY <1>2, <1>3, ConstantsAssumption
    <2>2. TidBack(NextTid(req.tid), (req.no - m) + 1) = TidBack(req.tid, req.no - m)
      BY <1>2, <2>1, TidBackNext
    <2>3. (req.no - m) + 1 = req'.no - m
      BY <1>2
    <2>4. QED  BY <1>2, <1>3, <2>1, <2>2, <2>3
  <1>4. ASSUME NEW m, m.no \in Nat, m.no <= req.no, req.no + 1 - m.no <= MaxLag,
               m.tid = TidBack(req.tid, req.no - m.no)
        PROVE  /\ m.no < req'.no /\ req'.no - m.no < TidMod
               /\ m.tid = TidBack(req'.tid, req'.no - m.no)
    BY <1>3, <1>4
  <1>5. /\ Recent(c2s) /\ Recent(s2c) /\ Recent(rbuf)
        /\ Identified(c2s) /\ Identified(s2c) /\ Identified(rbuf)
    BY DEF Call, IInv, Queues
  <1>6. \A i \in 1..Len(c2s) :
          /\ c2s[i].no < req'.no /\ c2s[i].no <= req'.no /\ c2s[i].no # req'.no
          /\ req'.no - c2s[i].no < TidMod
          /\ c2s[i].tid = TidBack(req'.tid, req'.no - c2s[i].no)
    <2>1. TAKE i \in 1..Len(c2s)
    <2>2. c2s[i].no \in Nat
      BY Numbers DEF IInv
    <2>3. /\ c2s[i].no < req'.no /\ req'.no - c2s[i].no < TidMod
          /\ c2s[i].tid = TidBack(req'.tid, req'.no - c2s[i].no)
      BY <1>4, <1>5, <2>2 DEF Recent, Identified
    <2>4. c2s[i].no <= req'.no /\ c2s[i].no # req'.no
      BY <1>2, <2>2, <2>3
    <2>5. QED  BY <2>3, <2>4
  <1>7. \A i \in 1..Len(s2c) :
          /\ s2c[i].no < req'.no /\ s2c[i].no <= req'.no /\ s2c[i].no # req'.no
          /\ req'.no - s2c[i].no < TidMod
          /\ s2c[i].tid = TidBack(req'.tid, req'.no - s2c[i].no)
    <2>1. TAKE i \in 1..Len(s2c)
    <2>2. s2c[i].no \in Nat
      BY Numbers DEF IInv
    <2>3. /\ s2c[i].no < req'.no /\ req'.no - s2c[i].no < TidMod
          /\ s2c[i].tid = TidBack(req'.tid, req'.no - s2c[i].no)
      BY <1>4, <1>5, <2>2 DEF Recent, Identified
    <2>4. s2c[i].no <= req'.no /\ s2c[i].no # req'.no
      BY <1>2, <2>2, <2>3
    <2>5. QED  BY <2>3, <2>4
  <1>8. \A i \in 1..Len(rbuf) :
          /\ rbuf[i].no < req'.no /\ rbuf[i].no <= req'.no /\ rbuf[i].no # req'.no
          /\ req'.no - rbuf[i].no < TidMod
          /\ rbuf[i].tid = TidBack(req'.tid, req'.no - rbuf[i].no)
    <2>1. TAKE i \in 1..Len(rbuf)
    <2>2. rbuf[i].no \in Nat
      BY Numbers DEF IInv
    <2>3. /\ rbuf[i].no < req'.no /\ req'.no - rbuf[i].no < TidMod
          /\ rbuf[i].tid = TidBack(req'.tid, req'.no - rbuf[i].no)
      BY <1>4, <1>5, <2>2 DEF Recent, Identified
    <2>4. rbuf[i].no <= req'.no /\ rbuf[i].no # req'.no
      BY <1>2, <2>2, <2>3
    <2>5. QED  BY <2>3, <2>4
  <1>9. Queues'
    <2>1. Identified(c2s)'
      BY <1>2, <1>6, Zenon DEF Identified
    <2>2. Identified(s2c)'
      BY <1>2, <1>7, Zenon DEF Identified
    <2>3. Identified(rbuf)'
      BY <1>2, <1>8, Zenon DEF Identified
    <2>4. QED
      BY <1>2, <2>1, <2>2, <2>3 DEF Queues, Ordered, IInv
  <1>10. Requested'
    <2>1. executed <= req.no /\ executed \in Nat
      BY DEF IInv, Requested, TypeOK
    <2>2. executed < req'.no /\ executed <= req'.no
      BY <1>2, <2>1
    <2>3. \A i \in 1..Len(c2s) : executed < c2s[i].no
      BY DEF IInv, Requested
    <2>4. QED  BY <1>2, <1>6, <2>2, <2>3, Zenon DEF Requested
  <1>11. Answered'
    <2>1. /\ \A i \in 1..Len(s2c) : s2c[i].no <= executed
          /\ \A i \in 1..Len(rbuf) : rbuf[i].no <= executed
      BY DEF IInv, Answered, Answers
    <2>2. Answers(s2c)'
      BY <1>2, <1>7, <2>1, Zenon DEF Answers
    <2>3. Answers(rbuf)'
      BY <1>2, <1>8, <2>1, Zenon DEF Answers
    <2>4. QED  BY <2>2, <2>3 DEF Answered
  <1>12. Acked'
    BY <1>2 DEF Acked
  <1>13. QED
    BY <1>9, <1>10, <1>11, <1>12 DEF IInv

LEMMA AppendElements ==
    ASSUME NEW S, NEW q \in Seq(S), NEW m \in S
    PROVE  /\ Len(Append(q, m)) = Len(q) + 1
           /\ \A i \in 1..Len(Append(q, m)) :
                \/ i \in 1..Len(q) /\ Append(q, m)[i] = q[i]
                \/ i = Len(q) + 1 /\ Append(q, m)[i] = m
  OBVIOUS

LEMMA AppendOrdered ==
    ASSUME NEW S, NEW q \in Seq(S), NEW m \in S, Ordered(q),
           \A i \in 1..Len(q) : q[i].no < m.no
    PROVE  Ordered(Append(q, m))
  <1>1. ASSUME NEW i \in 1..Len(Append(q, m)), NEW j \in 1..Len(Append(q, m)), i < j
        PROVE  Append(q, m)[i].no < Append(q, m)[j].no
    <2>1. i \in 1..Len(q) /\ Append(q, m)[i] = q[i]
      BY <1>1, AppendElements
    <2>2. CASE j \in 1..Len(q) /\ Append(q, m)[j] = q[j]
      <3>1. q[i].no < q[j].no
        BY <1>1, <2>1, <2>2 DEF Ordered
      <3>2. QED  BY <2>1, <2>2, <3>1
    <2>3. CASE j = Len(q) + 1 /\ Append(q, m)[j] = m
      BY <2>1, <2>3
    <2>4. QED  BY <2>2, <2>3, AppendElements
  <1>2. QED  BY <1>1 DEF Ordered

LEMMA StepSend ==
    ASSUME IInv, TypeOK', Send
    PROVE  IInv'
  <1>1. /\ req' = req /\ s2c' = s2c /\ rbuf' = rbuf
        /\ regs' = regs /\ executed' = executed
        /\ pc = "send" /\ pc' = "wait" /\ ok' = ok
        /\ c2s' = c2s \/ c2s' = Append(c2s, Indication)
    BY DEF Send, server
  <1>2. /\ ~ok /\ executed < req.no
        /\ \A i \in 1..Len(c2s) : c2s[i].no < req.no
    BY <1>1 DEF IInv, Acked, Requested
  <1>3. /\ req \in Requests /\ req.no \in Nat /\ req.tid \in 0..(TidMod - 1)
        /\ c2s \in Seq(Indications)
    BY DEF IInv, TypeOK, Requests
  <1>4. Indication \in Indications
    BY DEF IInv, TypeOK, Indication, Indications, Requests
  <1>5. /\ Indication.no = req.no /\ Indication.tid = req.tid
        /\ Indication.fn = req.fn /\ Indication.addr = req.addr
    BY DEF Indication
  <1>6. req.no <= req.no /\ req.no - req.no = 0 /\ 0 < TidMod
        /\ req.tid = TidBack(req.tid, 0)
    BY <1>3, ConstantsAssumption DEF TidBack
  <1>7. \A i \in 1..Len(c2s') :
          \/ i \in 1..Len(c2s) /\ c2s'[i] = c2s[i]
          \/ c2s'[i] = Indication
    BY <1>1, <1>3, <1>4, AppendElements
  <1>8. Queues'
    <2>1. Ordered(c2s)'
      <3>1. Ordered(c2s)
        BY DEF IInv, Queues
      <3>2. Ordered(Append(c2s, Indication))
        BY <1>2, <1>3, <1>4, <1>5, <3>1, AppendOrdered
      <3>3. Ordered(c2s')
        BY <1>1, <3>1, <3>2
      <3>4. QED  BY <3>3 DEF Ordered
    <2>2. Identified(c2s)'
      <3>1. Identified(c2s)
        BY DEF IInv, Queues
      <3>2. QED  BY <1>1, <1>5, <1>6, <1>7, <3>1, Zenon DEF Identified
    <2>3. QED
      BY <1>1, <2>1, <2>2 DEF IInv, Queues, Ordered, Identified
  <1>9. Requested'
    <2>1. \A i \in 1..Len(c2s') : executed < c2s'[i].no
      BY <1>2, <1>5, <1>7, Zenon DEF IInv, Requested
    <2>2. \A i \in 1..Len(c2s') : c2s'[i].no = req.no
             => c2s'[i].fn = req.fn /\ c2s'[i].addr = req.addr
      BY <1>5, <1>7, Zenon DEF IInv, Requested
    <2>3. executed <= req.no
      BY DEF IInv, Requested
    <2>4. pc' # "send"
      BY <1>1
    <2>5. QED
      <3>1. executed' <= req'.no /\ (pc' = "send" => executed' < req'.no)
        BY <1>1, <2>3, <2>4
      <3>2. \A i \in 1..Len(c2s)' :
              /\ executed' < c2s'[i].no
              /\ pc' = "send" => c2s'[i].no < req'.no
              /\ c2s'[i].no = req'.no
                   => c2s'[i].fn = req'.fn /\ c2s'[i].addr = req'.addr
        BY <1>1, <2>1, <2>2, <2>4
      <3>3. QED  BY <3>1, <3>2, Zenon DEF Requested
  <1>10. Answered'
    BY <1>1 DEF IInv, Answered, Answers
  <1>11. Acked'
    BY <1>1, <1>2 DEF Acked
  <1>12. QED
    BY <1>8, <1>9, <1>10, <1>11 DEF IInv

LEMMA StepDeliver ==
    ASSUME IInv, TypeOK', Deliver
    PROVE  IInv'
  <1> DEFINE m == Head(s2c)
  <1>1. /\ req' = req /\ c2s' = c2s /\ s2c # <<>>
        /\ rbuf' = Append(rbuf, m) /\ s2c' = Tail(s2c)
        /\ regs' = regs /\ executed' = executed
        /\ pc' = pc /\ ok' = ok /\ got' = got
    BY DEF Deliver, client, server
  <1>2. /\ s2c \in Seq(Confirmations) /\ rbuf \in Seq(Confirmations)
        /\ Tail(s2c) \in Seq(Confirmations) /\ m \in Confirmations
        /\ 1 \in 1..Len(s2c) /\ m = s2c[1]
        /\ Len(Tail(s2c)) = Len(s2c) - 1
        /\ \A i \in 1..Len(Tail(s2c)) :
             i + 1 \in 1..Len(s2c) /\ 1 < i + 1 /\ Tail(s2c)[i] = s2c[i + 1]
    BY <1>1 DEF IInv, TypeOK
  <1>3. \A i \in 1..Len(rbuf') :
          \/ i \in 1..Len(rbuf) /\ rbuf'[i] = rbuf[i]
          \/ rbuf'[i] = m
    BY <1>1, <1>2, AppendElements
  <1>4. /\ \A i \in 1..Len(rbuf) : rbuf[i].no < m.no
        /\ \A i \in 1..Len(s2c') : m.no < s2c'[i].no
    <2>1. \A i \in 1..Len(rbuf) : rbuf[i].no < s2c[1].no
      BY <1>2 DEF IInv, Queues
    <2>2. ASSUME NEW i \in 1..Len(Tail(s2c))
          PROVE  s2c[1].no < s2c[i + 1].no
      BY <1>2 DEF IInv, Queues, Ordered
    <2>3. QED  BY <1>1, <1>2, <2>1, <2>2
  <1>5. \A i \in 1..Len(s2c') : \E j \in 1..Len(s2c) : s2c'[i] = s2c[j]
    BY <1>1, <1>2
  <1>6. Queues'
    <2>1. Ordered(rbuf)' /\ Ordered(s2c)'
      <3>1. Ordered(Append(rbuf, m))
        BY <1>2, <1>4, AppendOrdered DEF IInv, Queues
      <3>2. Ordered(Tail(s2c))
        BY <1>1, <1>2, SegmentTail, OrderedSegment DEF IInv, Queues
      <3>3. QED  BY <1>1, <3>1, <3>2 DEF Ordered
    <2>2. Identified(rbuf)' /\ Identified(s2c)'
      <3>1. Identified(s2c) /\ Identified(rbuf)
        BY DEF IInv, Queues
      <3>2. QED
        BY <1>1, <1>2, <1>3, <1>5, <3>1, ZenonT(60) DEF Identified
    <2>3. \A i \in 1..Len(rbuf'), j \in 1..Len(s2c') : rbuf'[i].no < s2c'[j].no
      <3>1. \A i \in 1..Len(rbuf), j \in 1..Len(s2c) : rbuf[i].no < s2c[j].no
        BY DEF IInv, Queues
      <3>2. QED  BY <1>3, <1>4, <1>5, <3>1, Zenon
    <2>4. QED
      BY <1>1, <2>1, <2>2, <2>3 DEF IInv, Queues, Ordered, Identified
  <1>7. Requested'
    BY <1>1 DEF IInv, Requested
  <1>8. Answered'
    <2>1. Answers(s2c) /\ Answers(rbuf)
      BY DEF IInv, Answered
    <2>2. Answers(s2c)'
      BY <1>1, <1>5, <2>1, ZenonT(60) DEF Answers
    <2>3. Answers(rbuf)'
      <3>1. /\ m.no <= executed
            /\ m.no = req.no =>
                 /\ m.fn = req.fn /\ m.addr = req.addr
                 /\ ~m.exc => m.addr \in Served /\ regs[m.addr] = m.val
        BY <1>2, <2>1 DEF Answers
      <3>2. QED  BY <1>1, <1>3, <2>1, <3>1, ZenonT(60) DEF Answers
    <2>4. QED  BY <2>2, <2>3 DEF Answered
  <1>9. Acked'
    <2>1. CASE ~ok
      BY <1>1, <2>1 DEF Acked
    <2>2. CASE ok /\ ~Tcp
      BY <1>1, <2>2 DEF IInv, Acked
    <2>3. CASE ok /\ Tcp
      BY <1>1, <2>3 DEF IInv, Acked
    <2>4. QED  BY <2>1, <2>2, <2>3
  <1>10. QED
    BY <1>6, <1>7, <1>8, <1>9 DEF IInv

LEMMA StepServe ==
    ASSUME IInv, TypeOK', Serve
    PROVE  IInv'
  <1> DEFINE m == Head(c2s)
  <1>1. /\ req' = req /\ rbuf' = rbuf /\ pc' = pc /\ ok' = ok /\ got' = got
        /\ c2s # <<>> /\ executed' = m.no
        /\ s2c' = s2c \/ s2c' = Append(s2c, Confirmation(m))
        /\ c2s' = Tail(c2s) \/ c2s' \in AfterClosing(sconn, Tail(c2s))
    BY Zenon DEF Serve, client
  <1>2. /\ c2s \in Seq(Indications) /\ s2c \in Seq(Confirmations)
        /\ Tail(c2s) \in Seq(Indications) /\ m \in Indications
        /\ 1 \in 1..Len(c2s) /\ m = c2s[1]
        /\ \A i \in 1..Len(Tail(c2s)) :
             i + 1 \in 1..Len(c2s) /\ 1 < i + 1 /\ Tail(c2s)[i] = c2s[i + 1]
    BY <1>1 DEF IInv, TypeOK
  <1>3. /\ m.no \in Nat /\ req.no \in Nat /\ executed \in Nat
        /\ m.addr \in Addrs /\ m.val \in Vals
    BY <1>2 DEF IInv, TypeOK, Indications, Requests
  <1>4. c2s' \in Seq(Indications) /\ Segment(c2s', Tail(c2s))
    BY <1>1, <1>2, SegmentSelf, SegmentAfterClosing
  <1>5. Segment(c2s', c2s)
    BY <1>1, <1>2, <1>4, SegmentTail, SegmentTrans
  <1>6. \A i \in 1..Len(c2s') : \E j \in 1..Len(c2s) : c2s'[i] = c2s[j]
    <2>1. Within(c2s', c2s)
      BY <1>2, <1>4, <1>5, SegmentElement
    <2>2. QED  BY <2>1 DEF Within
  <1>7. \A i \in 1..Len(c2s') : m.no < c2s'[i].no
    <2>1. \A i \in 1..Len(Tail(c2s)) : m.no < Tail(c2s)[i].no
      BY <1>2 DEF IInv, Queues, Ordered
    <2>2. Within(c2s', Tail(c2s))
      BY <1>2, <1>4, SegmentElement
    <2>3. QED  BY <2>1, <2>2, Zenon DEF Within
  <1>8. /\ executed < m.no /\ m.no <= req.no /\ req.no - m.no < TidMod
        /\ m.tid = TidBack(req.tid, req.no - m.no)
        /\ pc = "send" => m.no < req.no
        /\ m.no = req.no => m.fn = req.fn /\ m.addr = req.addr
    BY <1>2 DEF IInv, Requested, Queues, Identified
  <1>9. \A i \in 1..Len(s2c') :
          \/ i \in 1..Len(s2c) /\ s2c'[i] = s2c[i]
          \/ s2c'[i] = Confirmation(m)
    <2>1. Confirmation(m) \in Confirmations
      BY <1>2, ConfirmationType DEF IInv
    <2>2. CASE s2c' = s2c
      BY <2>2
    <2>3. CASE s2c' = Append(s2c, Confirmation(m))
      BY <1>2, <2>1, <2>3, AppendElements
    <2>4. QED  BY <1>1, <2>2, <2>3
  <1>10. /\ Confirmation(m).no = m.no /\ Confirmation(m).tid = m.tid
         /\ Confirmation(m).fn = m.fn /\ Confirmation(m).addr = m.addr
    BY DEF Confirmation
  <1>11. /\ \A i \in 1..Len(s2c) : s2c[i].no < m.no /\ s2c[i].no # req.no
                                    /\ s2c[i].no <= m.no
         /\ \A i \in 1..Len(rbuf) : rbuf[i].no < m.no /\ rbuf[i].no # req.no
                                    /\ rbuf[i].no <= m.no
    <2>1. /\ \A i \in 1..Len(s2c) : s2c[i].no <= executed /\ s2c[i].no \in Nat
          /\ \A i \in 1..Len(rbuf) : rbuf[i].no <= executed /\ rbuf[i].no \in Nat
      BY Numbers, Zenon DEF IInv, Answered, Answers
    <2>2. QED  BY <1>3, <1>8, <2>1, SMTT(30)
  <1>12. Queues'
    <2>1. Ordered(c2s)'
      <3>1. Ordered(c2s')
        BY <1>2, <1>4, <1>5, OrderedSegment DEF IInv, Queues
      <3>2. QED  BY <3>1 DEF Ordered
    <2>2. Ordered(s2c)'
      <3>1. Ordered(s2c)
        BY DEF IInv, Queues
      <3>2. Ordered(Append(s2c, Confirmation(m)))
        <4>1. Confirmation(m) \in Confirmations
          BY <1>2, ConfirmationType DEF IInv
        <4>2. QED  BY <1>2, <1>10, <1>11, <3>1, <4>1, AppendOrdered
      <3>3. Ordered(s2c')
        BY <1>1, <3>1, <3>2
      <3>4. QED  BY <3>3 DEF Ordered
    <2>3. Identified(c2s)'
      <3>1. Identified(c2s)
        BY DEF IInv, Queues
      <3>2. QED  BY <1>1, <1>6, <3>1, Zenon DEF Identified
    <2>4. Identified(s2c)'
      <3>1. Identified(s2c)
        BY DEF IInv, Queues
      <3>2. QED  BY <1>1, <1>8, <1>9, <1>10, <3>1, Zenon DEF Identified
    <2>5. \A i \in 1..Len(rbuf), j \in 1..Len(s2c') : rbuf[i].no < s2c'[j].no
      BY <1>9, <1>10, <1>11, Zenon DEF IInv, Queues
    <2>6. QED
      BY <1>1, <2>1, <2>2, <2>3, <2>4, <2>5 DEF IInv, Queues, Ordered, Identified
  <1>13. Requested'
    <2>1. executed' <= req'.no /\ (pc' = "send" => executed' < req'.no)
      BY <1>1, <1>8
    <2>2. \A i \in 1..Len(c2s)' :
            /\ executed' < c2s'[i].no
            /\ pc' = "send" => c2s'[i].no < req'.no
            /\ c2s'[i].no = req'.no
                 => c2s'[i].fn = req'.fn /\ c2s'[i].addr = req'.addr
      <3>1. \A i \in 1..Len(c2s) :
              /\ pc = "send" => c2s[i].no < req.no
              /\ c2s[i].no = req.no => c2s[i].fn = req.fn /\ c2s[i].addr = req.addr
        BY DEF IInv, Requested
      <3>2. QED  BY <1>1, <1>6, <1>7, <3>1, Zenon
    <2>3. QED  BY <2>1, <2>2, Zenon DEF Requested
  <1>14. Answered'
    <2>1. ~Confirmation(m).exc => /\ Confirmation(m).addr \in Served
                                  /\ regs'[Confirmation(m).addr] = Confirmation(m).val
      <3>1. SUFFICES ASSUME m.addr \in Served
                     PROVE  regs'[m.addr] = Confirmation(m).val
        BY DEF Confirmation
      <3>2. regs \in [Served -> Vals] /\ m.fn \in {"read", "write"}
        BY <1>2 DEF IInv, TypeOK, Indications, Functions
      <3>3. regs' = IF m.fn = "write" /\ m.addr \in Served
                    THEN [regs EXCEPT ![m.addr] = m.val] ELSE regs
        BY Zenon DEF Serve
      <3>4. CASE m.fn = "write"
        BY <3>1, <3>2, <3>3, <3>4 DEF Confirmation
      <3>5. CASE m.fn = "read"
        BY <3>1, <3>2, <3>3, <3>5 DEF Confirmation
      <3>6. QED  BY <3>2, <3>4, <3>5
    <2>2. m.no <= m.no
      BY <1>3
    <2>3. Answers(s2c)'
      BY <1>1, <1>8, <1>9, <1>10, <1>11, <2>1, <2>2, Zenon DEF Answers
    <2>4. Answers(rbuf)'
      BY <1>1, <1>11, Zenon DEF Answers
    <2>5. QED  BY <2>3, <2>4 DEF Answered
  <1>15. Acked'
    <2>1. CASE ~ok
      BY <1>1, <2>1 DEF Acked
    <2>2. CASE ok /\ ~Tcp
      BY <1>1, <2>2 DEF IInv, Acked
    <2>3. CASE ok /\ Tcp
      BY <1>1, <2>3 DEF IInv, Acked
    <2>4. QED  BY <2>1, <2>2, <2>3
  <1>16. QED
    BY <1>12, <1>13, <1>14, <1>15 DEF IInv

(* An accepted identifier is that of the current call.                        *)
LEMMA AcceptedIsCurrent ==
    ASSUME IInv, Tcp, rbuf # <<>>
    PROVE  TidAccepted(Head(rbuf)) <=> Head(rbuf).no = req.no
  <1> DEFINE rsp == Head(rbuf)
  <1>1. /\ rbuf \in Seq(Confirmations) /\ 1 \in 1..Len(rbuf) /\ rsp = rbuf[1]
        /\ req.no \in Nat /\ req.tid \in 0..(TidMod - 1) /\ rsp.no \in Nat
    <2>1. rbuf \in Seq(Confirmations) /\ req \in Requests
      BY DEF IInv, TypeOK
    <2>2. 1 \in 1..Len(rbuf) /\ rsp = rbuf[1]
      BY <2>1
    <2>3. QED  BY <2>1, <2>2, Numbers DEF IInv, Requests
  <1>2. /\ rsp.no <= req.no /\ req.no - rsp.no < TidMod
        /\ rsp.tid = TidBack(req.tid, req.no - rsp.no)
    BY <1>1 DEF IInv, Queues, Identified
  <1>3. ASSUME TidAccepted(rsp) PROVE rsp.no = req.no
    <2>1. TidBack(req.tid, req.no - rsp.no) = req.tid
      BY <1>2, <1>3 DEF TidAccepted
    <2>2. req.no - rsp.no = 0
      BY <1>1, <1>2, <2>1, TidBackInjective
    <2>3. QED  BY <1>1, <2>2
  <1>4. ASSUME rsp.no = req.no PROVE TidAccepted(rsp)
    <2>1. req.no - rsp.no = 0
      BY <1>1, <1>4
    <2>2. TidBack(req.tid, 0) = req.tid
      BY <1>1 DEF TidBack
    <2>3. QED  BY <1>2, <2>1, <2>2 DEF TidAccepted
  <1>5. QED  BY <1>3, <1>4

(* When the client has the confirmation of its current call, nothing else is  *)
(* left in the channels.                                                      *)
LEMMA CurrentIsLast ==
    ASSUME IInv, rbuf # <<>>, Head(rbuf).no = req.no
    PROVE  executed = req.no /\ c2s = <<>> /\ s2c = <<>> /\ Tail(rbuf) = <<>>
  <1>1. /\ c2s \in Seq(Indications) /\ s2c \in Seq(Confirmations)
        /\ rbuf \in Seq(Confirmations) /\ req.no \in Nat /\ executed \in Nat
    BY DEF IInv, TypeOK, Requests
  <1>2. /\ 1 \in 1..Len(rbuf) /\ rbuf[1].no = req.no
        /\ \A i \in 1..Len(Tail(rbuf)) : i + 1 \in 1..Len(rbuf)
    BY <1>1
  <1>3. Identified(c2s) /\ Identified(s2c) /\ Identified(rbuf)
    BY DEF IInv, Queues
  <1>4. executed = req.no
    <2>1. rbuf[1].no <= executed /\ executed <= req.no
      BY <1>2 DEF IInv, Answered, Answers, Requested
    <2>2. QED  BY <1>1, <1>2, <2>1
  <1>5. c2s = <<>>
    <2>1. ASSUME 1 \in 1..Len(c2s) PROVE FALSE
      <3>1. executed < c2s[1].no /\ c2s[1].no <= req.no /\ c2s[1].no \in Nat
        BY <1>3, <2>1, Numbers DEF IInv, Requested, Identified
      <3>2. QED  BY <1>1, <1>4, <3>1
    <2>2. QED  BY <1>1, <2>1
  <1>6. s2c = <<>>
    <2>1. ASSUME 1 \in 1..Len(s2c) PROVE FALSE
      <3>1. rbuf[1].no < s2c[1].no /\ s2c[1].no <= req.no /\ s2c[1].no \in Nat
        BY <1>2, <1>3, <2>1, Numbers DEF IInv, Queues, Identified
      <3>2. QED  BY <1>1, <1>2, <3>1
    <2>2. QED  BY <1>1, <2>1
  <1>7. Tail(rbuf) = <<>>
    <2>1. ASSUME 1 \in 1..Len(Tail(rbuf)) PROVE FALSE
      <3>1. 2 \in 1..Len(rbuf)
        BY <1>1, <1>2, <2>1
      <3>2. rbuf[1].no < rbuf[2].no /\ rbuf[2].no <= req.no /\ rbuf[2].no \in Nat
        BY <1>2, <1>3, <3>1, Numbers DEF IInv, Queues, Ordered, Identified
      <3>3. QED  BY <1>1, <1>2, <3>2
    <2>2. QED  BY <1>1, <2>1
  <1>8. QED  BY <1>4, <1>5, <1>6, <1>7

LEMMA StepReceive ==
    ASSUME IInv, TypeOK', Receive
    PROVE  IInv'
  <1> DEFINE rsp == Head(rbuf)
  <1>1. /\ req' = req /\ c2s' = c2s /\ s2c' = s2c /\ regs' = regs
        /\ executed' = executed /\ rbuf' = Tail(rbuf) /\ rbuf # <<>>
        /\ pc = "wait"
    BY Zenon DEF Receive, server, FlushOrFail, Fail, Succeed
  <1>2. \/ pc' = "flush" /\ ok' = ok
        \/ pc' = "idle" /\ ok' = FALSE
        \/ /\ pc' = "idle" /\ ok' = TRUE /\ got' = rsp.val
           /\ TidAccepted(rsp) /\ ~rsp.exc
    BY Zenon DEF Receive, FlushOrFail, Fail, Succeed
  <1>3. /\ c2s \in Seq(Indications) /\ s2c \in Seq(Confirmations)
        /\ rbuf \in Seq(Confirmations) /\ rsp \in Confirmations
        /\ 1 \in 1..Len(rbuf) /\ rsp = rbuf[1]
        /\ \A i \in 1..Len(Tail(rbuf)) :
             i + 1 \in 1..Len(rbuf) /\ 1 < i + 1 /\ Tail(rbuf)[i] = rbuf[i + 1]
    BY <1>1 DEF IInv, TypeOK
  <1>4. /\ Segment(c2s', c2s) /\ Segment(s2c', s2c) /\ Segment(rbuf', rbuf)
    BY <1>1, <1>3, SegmentSelf, SegmentTail
  <1>5. pc' # "send"
    BY <1>2
  <1>6. Queues' /\ Requested' /\ Answered'
    BY <1>1, <1>4, <1>5, ShrinkQueues
  <1>7. ~ok
    BY <1>1 DEF IInv, Acked
  <1>8. CASE ok' = ok \/ ok' = FALSE
    BY <1>6, <1>7, <1>8 DEF IInv, Acked
  <1>9. CASE /\ pc' = "idle" /\ ok' = TRUE /\ got' = rsp.val
             /\ TidAccepted(rsp) /\ ~rsp.exc
    <2>1. SUFFICES ASSUME Tcp
                   PROVE  /\ executed = req.no
                          /\ c2s = <<>> /\ s2c = <<>> /\ Tail(rbuf) = <<>>
                          /\ req.addr \in Served /\ regs[req.addr] = rsp.val
      BY <1>1, <1>6, <1>9 DEF IInv, Acked
    <2>2. rsp.no = req.no
      BY <1>1, <1>9, <2>1, AcceptedIsCurrent
    <2>3. executed = req.no /\ c2s = <<>> /\ s2c = <<>> /\ Tail(rbuf) = <<>>
      BY <1>1, <2>2, CurrentIsLast
    <2>4. rsp.addr = req.addr /\ rsp.addr \in Served /\ regs[rsp.addr] = rsp.val
      BY <1>3, <1>9, <2>2 DEF IInv, Answered, Answers
    <2>5. QED  BY <2>3, <2>4
  <1>10. QED  BY <1>2, <1>8, <1>9

LEMMA SegmentClosed ==
    ASSUME TypeOK, Close
    PROVE  Segment(c2s', c2s) /\ Segment(s2c', s2c) /\ Segment(rbuf', rbuf)
  <1>1. Segment(c2s', c2s)
    BY SegmentSelf, SegmentSurviving DEF TypeOK, Close
  <1>2. Segment(s2c', s2c) /\ Segment(rbuf', rbuf)
    BY SegmentEmpty DEF TypeOK, Close
  <1>3. QED  BY <1>1, <1>2

(* The steps that add nothing to a channel.                                   *)
LEMMA ShrinkingSteps ==
    ASSUME TypeOK,
           \/ SendBroken \/ SendRefused \/ ReceiveTimeout \/ ReceiveReset
           \/ Flush \/ AppFlush \/ AppReconnect \/ Break
           \/ Accept \/ CloseClient \/ UNCHANGED vars
    PROVE  Segment(c2s', c2s) /\ Segment(s2c', s2c) /\ Segment(rbuf', rbuf)
  <1>1. TypeOK
    OBVIOUS
  <1>2. /\ Segment(c2s, c2s) /\ Segment(s2c, s2c) /\ Segment(rbuf, rbuf)
        /\ Segment(<<>>, s2c) /\ Segment(<<>>, rbuf)
    BY <1>1, SegmentSelf, SegmentEmpty DEF TypeOK
  <1>3. CASE SendBroken \/ ReceiveReset \/ AppReconnect
    <2>1. Close \/ UNCHANGED channel
      BY <1>3, Zenon DEF SendBroken, ReceiveReset, AppReconnect, channel
    <2>2. CASE Close
      BY <1>1, <2>2, SegmentClosed
    <2>3. CASE UNCHANGED channel
      BY <1>2, <2>3 DEF channel
    <2>4. QED  BY <2>1, <2>2, <2>3
  <1>4. CASE SendRefused \/ Flush \/ AppFlush
    <2>1. c2s' = c2s /\ s2c' = s2c /\ (rbuf' = rbuf \/ rbuf' = <<>>)
      BY <1>4, Zenon DEF SendRefused, Flush, AppFlush
    <2>2. QED  BY <1>2, <2>1
  <1>5. CASE ReceiveTimeout \/ CloseClient \/ UNCHANGED vars
    <2>1. UNCHANGED channel
      BY <1>5, Zenon DEF ReceiveTimeout, CloseClient, vars
    <2>2. QED  BY <1>2, <2>1 DEF channel
  <1>6. CASE Break
    <2>1. /\ c2s' \in RequestsSurvivingClose
          /\ s2c' = <<>> /\ (rbuf' = rbuf \/ rbuf' = <<>>)
      BY <1>6, Zenon DEF Break
    <2>2. Segment(c2s', c2s)
      BY <1>1, <2>1, SegmentSurviving DEF TypeOK
    <2>3. QED  BY <1>2, <2>1, <2>2
  <1>7. CASE Accept
    <2>1. /\ s2c' = s2c /\ rbuf' = rbuf
          /\ c2s' = c2s \/ c2s' \in AfterClosing(sconn + 1, c2s)
      BY <1>7, Zenon DEF Accept
    <2>2. Segment(c2s', c2s)
      BY <1>1, <1>2, <2>1, SegmentAfterClosing DEF TypeOK
    <2>3. QED  BY <1>2, <2>1, <2>2
  <1>8. QED  BY <1>3, <1>4, <1>5, <1>6, <1>7

LEMMA StepShrinking ==
    ASSUME IInv, TypeOK',
           \/ SendBroken \/ SendRefused \/ ReceiveTimeout \/ ReceiveReset
           \/ Flush \/ AppFlush \/ AppReconnect \/ Break
           \/ Accept \/ CloseClient \/ UNCHANGED vars
    PROVE  IInv'
  <1>1. TypeOK
    BY DEF IInv
  <1>2. req' = req /\ regs' = regs /\ executed' = executed
    BY Zenon DEF SendBroken, SendRefused, ReceiveTimeout, ReceiveReset, Flush,
       AppFlush, AppReconnect, Break, Accept, CloseClient, Fail, FlushOrFail,
       client, server, vars
  <1>3. /\ pc' = "send" => pc = "send"
        /\ ok' => ok /\ pc' = pc /\ got' = got
    <2>1. \/ pc' = pc /\ ok' = ok /\ got' = got
          \/ pc' = "idle" /\ ok' = FALSE
          \/ pc = "wait" /\ pc' = "flush" /\ ok' = ok
      BY Zenon DEF SendBroken, SendRefused, ReceiveTimeout, ReceiveReset, Flush,
         AppFlush, AppReconnect, Break, Accept, CloseClient, Fail, FlushOrFail,
         client, server, vars
    <2>2. ok => pc = "idle"
      BY DEF IInv, Acked
    <2>3. QED  BY <2>1, <2>2
  <1>4. Segment(c2s', c2s) /\ Segment(s2c', s2c) /\ Segment(rbuf', rbuf)
    BY <1>1, ShrinkingSteps
  <1>5. QED  BY <1>2, <1>3, <1>4, Shrink

-----------------------------------------------------------------------------
(* The theorems.                                                              *)

LEMMA InvariantInit == Init => IInv
  <1> SUFFICES ASSUME Init PROVE IInv
    OBVIOUS
  <1>1. TypeOK
    BY TypeInit
  <1>2. Queues
    BY DEF Init, Queues, Ordered, Identified
  <1>3. Requested /\ Answered /\ Acked
    BY DEF Init, Requested, Answered, Answers, Acked
  <1>4. QED  BY <1>1, <1>2, <1>3 DEF IInv

LEMMA InvariantStep == IInv /\ [Next]_vars => IInv'
  <1> SUFFICES ASSUME IInv, [Next]_vars PROVE IInv'
    OBVIOUS
  <1>1. TypeOK'
    BY TypeStep DEF IInv
  <1>2. ASSUME NEW fn, NEW a, NEW v, Call(fn, a, v) PROVE IInv'
    BY <1>1, <1>2, StepCall
  <1>3. CASE Send
    BY <1>1, <1>3, StepSend
  <1>4. CASE Receive
    BY <1>1, <1>4, StepReceive
  <1>5. CASE Deliver
    BY <1>1, <1>5, StepDeliver
  <1>6. CASE Serve
    BY <1>1, <1>6, StepServe
  <1>7. CASE \/ SendBroken \/ SendRefused \/ ReceiveTimeout \/ ReceiveReset
             \/ Flush \/ AppFlush \/ AppReconnect \/ Break
             \/ Accept \/ CloseClient \/ UNCHANGED vars
    BY <1>1, <1>7, StepShrinking
  <1>8. QED
    BY <1>2, <1>3, <1>4, <1>5, <1>6, <1>7, Zenon
       DEF Next, ClientStep, ServerStep, ReadRegister, WriteRegister

LEMMA Invariant == Spec => []IInv
  BY InvariantInit, InvariantStep, PTL DEF Spec

(* A call over TCP that has returned success read or wrote what the server's  *)
(* register now holds, whatever earlier calls failed and whichever            *)
(* connections broke (AckedMatchesServer): as long as no message is           *)
(* TidMod calls old.                                                          *)
THEOREM SuccessIsTrue == ASSUME Tcp PROVE Spec => []AckedMatchesServer
  <1>1. IInv => AckedMatchesServer
    BY DEF IInv, Acked, AckedMatchesServer
  <1>2. QED  BY <1>1, Invariant, PTL

(* After a successful call over TCP nothing of an earlier call is on the way. *)
THEOREM SuccessLeavesNothing == ASSUME Tcp PROVE Spec => []SuccessDrains
  <1>1. IInv => SuccessDrains
    BY DEF IInv, Acked, SuccessDrains
  <1>2. QED  BY <1>1, Invariant, PTL

(* The server executes requests in the order of the calls, each at most once, *)
(* over TCP and over a serial line.                                           *)
THEOREM InOrderAtMostOnce == Spec => ExecutedInOrder
  <1> DEFINE Later == Serve \/ regs' # regs => executed' > executed
  <1>1. IInv /\ [Next]_vars => [Later]_vars
    <2> SUFFICES ASSUME IInv, [Next]_vars PROVE Later
      OBVIOUS
    <2>1. CASE Serve
      <3>1. /\ 1 \in 1..Len(c2s) /\ Head(c2s) = c2s[1]
            /\ executed' = Head(c2s).no
        BY <2>1 DEF Serve, IInv, TypeOK
      <3>2. executed < c2s[1].no /\ executed \in Nat /\ c2s[1].no \in Nat
        BY <3>1, Numbers DEF IInv, Requested, TypeOK
      <3>3. QED  BY <3>1, <3>2
    <2>2. CASE ~Serve
      <3>1. regs' = regs /\ executed' = executed
        BY <2>2, Zenon DEF Next, ClientStep, ServerStep, ReadRegister, WriteRegister,
           Call, Send, SendBroken, SendRefused, ReceiveTimeout, ReceiveReset,
           Receive, Flush, AppFlush, AppReconnect, Deliver, Break, Accept,
           CloseClient, vars, server
      <3>2. QED  BY <2>2, <3>1
    <2>3. QED  BY <2>1, <2>2
  <1>2. QED
    BY <1>1, Invariant, PTL DEF Spec, ExecutedInOrder

-----------------------------------------------------------------------------
(* Out of step for good: without recovery only the end of a connection rids   *)
(* it of what earlier calls have left there.                                  *)

\* the confirmation the client waits for is still to come
AwaitInv ==
    /\ sconn <= conn
    /\ recovery = {} =>
         /\ pc # "flush"
         /\ pc = "wait" /\ connected /\ linkUp => OnTheWay(req.no)

LEMMA AppendKeeps ==
    ASSUME NEW S, NEW q \in Seq(S), NEW m \in S
    PROVE  /\ Len(q) + 1 \in 1..Len(Append(q, m)) /\ Append(q, m)[Len(q) + 1] = m
           /\ \A i \in 1..Len(q) :
                i \in 1..Len(Append(q, m)) /\ Append(q, m)[i] = q[i]
  OBVIOUS

LEMMA TailKeeps ==
    ASSUME NEW S, NEW q \in Seq(S), q # <<>>
    PROVE  /\ Head(q) = q[1]
           /\ \A i \in 1..Len(q) :
                i # 1 => i - 1 \in 1..Len(Tail(q)) /\ Tail(q)[i - 1] = q[i]
  OBVIOUS

(* Closing connections up to s leaves the messages of the later ones.         *)
LEMMA AfterClosingKeeps ==
    ASSUME NEW S, NEW q \in Seq(S), NEW s, NEW d \in AfterClosing(s, q),
           NEW i \in 1..Len(q), ~(q[i].conn <= s)
    PROVE  \E j \in 1..Len(d) : d[j] = q[i]
  <1>1. PICK n \in 0..Len(q) : /\ d = SubSeq(q, n + 1, Len(q))
                               /\ \A k \in 1..n : q[k].conn <= s
    BY DEF AfterClosing
  <1>2. i > n
    BY <1>1
  <1>3. i - n \in 1..Len(d) /\ d[i - n] = q[i]
    BY <1>1, <1>2
  <1>4. QED  BY <1>3

(* What is on the way stays there until the client reads it.                  *)
LEMMA StaysOnTheWay ==
    ASSUME IInv, AwaitInv, [Next]_vars, recovery = {}, linkUp,
           conn' = conn, linkUp', connected', NEW n, OnTheWay(n),
           ~(Receive /\ Head(rbuf).no = n)
    PROVE  OnTheWay(n)'
  <1>1. /\ c2s \in Seq(Indications) /\ s2c \in Seq(Confirmations)
        /\ rbuf \in Seq(Confirmations) /\ conn \in Nat /\ sconn \in Nat
        /\ sconn <= conn
    BY DEF IInv, TypeOK, AwaitInv
  <1>2. ~Link /\ ~AppFlushes /\ pc # "flush"
    BY DEF Link, AppFlushes, AwaitInv
  <1>3. CASE UNCHANGED channel
    BY <1>3 DEF channel, OnTheWay
  <1>4. CASE Send
    <2>1. Indication \in Indications
      BY DEF IInv, TypeOK, Indication, Indications, Requests
    <2>2. s2c' = s2c /\ rbuf' = rbuf /\ c2s' = Append(c2s, Indication)
      BY <1>4 DEF Send
    <2>3. \A i \in 1..Len(c2s) : i \in 1..Len(c2s') /\ c2s'[i] = c2s[i]
      BY <1>1, <2>1, <2>2, AppendKeeps
    <2>4. QED  BY <2>2, <2>3, Zenon DEF OnTheWay
  <1>5. CASE Deliver
    <2>1. c2s' = c2s /\ s2c # <<>> /\ rbuf' = Append(rbuf, Head(s2c)) /\ s2c' = Tail(s2c)
      BY <1>5 DEF Deliver
    <2>2. Head(s2c) \in Confirmations
      BY <1>1, <2>1
    <2>3. /\ Head(s2c) = s2c[1] /\ rbuf'[Len(rbuf) + 1] = Head(s2c)
          /\ Len(rbuf) + 1 \in 1..Len(rbuf')
          /\ \A i \in 1..Len(rbuf) : i \in 1..Len(rbuf') /\ rbuf'[i] = rbuf[i]
      BY <1>1, <2>1, <2>2, AppendKeeps, TailKeeps
    <2>4. \A i \in 1..Len(s2c) :
            i # 1 => i - 1 \in 1..Len(s2c') /\ s2c'[i - 1] = s2c[i]
      BY <1>1, <2>1, TailKeeps
    <2>5. QED  BY <2>1, <2>3, <2>4, Zenon DEF OnTheWay
  <1>6. CASE Receive
    <2>1. c2s' = c2s /\ s2c' = s2c /\ rbuf # <<>> /\ rbuf' = Tail(rbuf)
      BY <1>6, Zenon DEF Receive
    <2>2. /\ Head(rbuf) = rbuf[1]
          /\ \A i \in 1..Len(rbuf) :
               i # 1 => i - 1 \in 1..Len(rbuf') /\ rbuf'[i - 1] = rbuf[i]
      BY <1>1, <2>1, TailKeeps
    <2>3. QED  BY <1>6, <2>1, <2>2, Zenon DEF OnTheWay
  <1>7. CASE Accept
    <2>1. /\ s2c' = s2c /\ rbuf' = rbuf
          /\ \/ c2s' = c2s
             \/ sconn + 1 < conn /\ c2s' \in AfterClosing(sconn + 1, c2s)
      BY <1>7, Zenon DEF Accept
    <2>2. CASE c2s' = c2s
      BY <2>1, <2>2 DEF OnTheWay
    <2>3. CASE sconn + 1 < conn /\ c2s' \in AfterClosing(sconn + 1, c2s)
      <3>1. ASSUME NEW i \in 1..Len(c2s), c2s[i].conn = conn
            PROVE  \E j \in 1..Len(c2s') : c2s'[j] = c2s[i]
        <4>1. ~(c2s[i].conn <= sconn + 1)
          BY <1>1, <2>3, <3>1
        <4>2. QED  BY <1>1, <2>3, <4>1, AfterClosingKeeps
      <3>2. QED  BY <2>1, <3>1, Zenon DEF OnTheWay
    <2>4. QED  BY <2>1, <2>2, <2>3
  <1>8. CASE Serve
    <2> DEFINE m == Head(c2s)
    <2>1. /\ c2s # <<>> /\ m.conn = sconn /\ rbuf' = rbuf
          /\ \/ sconn = conn /\ s2c' = Append(s2c, Confirmation(m)) /\ c2s' = Tail(c2s)
             \/ /\ sconn # conn /\ s2c' = s2c
                /\ c2s' = Tail(c2s) \/ c2s' \in AfterClosing(sconn, Tail(c2s))
      BY <1>8, Zenon DEF Serve
    <2>2. /\ m \in Indications /\ Confirmation(m) \in Confirmations
          /\ Tail(c2s) \in Seq(Indications) /\ Confirmation(m).no = m.no
      BY <1>1, <2>1, ConfirmationType DEF IInv, Confirmation
    <2>3. CASE sconn = conn /\ s2c' = Append(s2c, Confirmation(m)) /\ c2s' = Tail(c2s)
      <3>1. /\ m = c2s[1] /\ s2c'[Len(s2c) + 1].no = m.no
            /\ Len(s2c) + 1 \in 1..Len(s2c')
            /\ \A i \in 1..Len(s2c) : i \in 1..Len(s2c') /\ s2c'[i] = s2c[i]
        BY <1>1, <2>1, <2>2, <2>3, AppendKeeps, TailKeeps
      <3>2. \A i \in 1..Len(c2s) :
              i # 1 => i - 1 \in 1..Len(c2s') /\ c2s'[i - 1] = c2s[i]
        BY <1>1, <2>1, <2>3, TailKeeps
      <3> HIDE DEF m
      <3>3. QED  BY <2>1, <3>1, <3>2, Zenon DEF OnTheWay
    <2>4. CASE sconn # conn /\ s2c' = s2c
      <3>1. ASSUME NEW i \in 1..Len(c2s), c2s[i].conn = conn
            PROVE  \E j \in 1..Len(c2s') : c2s'[j] = c2s[i]
        <4>1. i # 1 /\ ~(c2s[i].conn <= sconn)
          BY <1>1, <2>1, <2>4, <3>1, TailKeeps
        <4>2. i - 1 \in 1..Len(Tail(c2s)) /\ Tail(c2s)[i - 1] = c2s[i]
          BY <1>1, <2>1, <4>1, TailKeeps
        <4>3. CASE c2s' = Tail(c2s)
          BY <4>2, <4>3
        <4>4. CASE c2s' \in AfterClosing(sconn, Tail(c2s))
          <5> DEFINE t == Tail(c2s)
                     k == i - 1
          <5>1. /\ t \in Seq(Indications) /\ c2s' \in AfterClosing(sconn, t)
                /\ k \in 1..Len(t) /\ t[k] = c2s[i]
            BY <2>2, <4>2, <4>4, Zenon
          <5> HIDE DEF t, k
          <5>2. ~(t[k].conn <= sconn)
            BY <4>1, <5>1, Zenon
          <5>3. \E j \in 1..Len(c2s') : c2s'[j] = t[k]
            BY <5>1, <5>2, AfterClosingKeeps, Zenon
          <5>4. QED  BY <5>1, <5>3, Zenon
        <4>5. QED  BY <2>1, <2>4, <4>3, <4>4
      <3>2. QED  BY <2>1, <2>4, <3>1, Zenon DEF OnTheWay
    <2>5. QED  BY <2>1, <2>3, <2>4
  <1>9. ASSUME NEW fn, NEW a, NEW v, Call(fn, a, v) PROVE OnTheWay(n)'
    BY <1>3, <1>9 DEF Call
  <1>10. CASE SendRefused \/ ReceiveTimeout \/ CloseClient \/ UNCHANGED vars
    <2>1. UNCHANGED channel
      BY <1>2, <1>10, Zenon DEF SendRefused, ReceiveTimeout, CloseClient, vars, channel
    <2>2. QED  BY <1>3, <2>1
  <1>11. ~Flush /\ ~AppFlush /\ ~Break /\ ~ReceiveReset
    BY <1>2, Zenon DEF Flush, AppFlush, Break, ReceiveReset
  <1>12. ~AppReconnect
    <2>1. Connect => conn' = conn + 1 \/ ~connected'
      BY Zenon DEF Connect
    <2>2. QED  BY <1>1, <2>1 DEF AppReconnect
  <1>13. CASE SendBroken
    <2>1. UNCHANGED channel
      BY <1>2, <1>13, Zenon DEF SendBroken
    <2>2. QED  BY <1>3, <2>1
  <1>14. QED
    BY <1>4, <1>5, <1>6, <1>7, <1>8, <1>9, <1>10, <1>11, <1>12, <1>13, Zenon
       DEF Next, ClientStep, ServerStep, ReadRegister, WriteRegister

LEMMA RecoveryKept == [Next]_vars => recovery' = recovery
  BY Zenon DEF Next, ClientStep, ServerStep, ReadRegister, WriteRegister, Call,
     Send, SendBroken, SendRefused, ReceiveTimeout, ReceiveReset, Receive, Flush,
     AppFlush, AppReconnect, Deliver, Break, Accept, CloseClient, Serve, vars

LEMMA AwaitInit == Init => AwaitInv
  BY DEF Init, AwaitInv

(* A step that waits on was waiting already, on the same connection.          *)
LEMMA WaitsOn ==
    ASSUME [Next]_vars, recovery = {}, pc' = "wait", linkUp', connected', ~Send
    PROVE  /\ pc = "wait" /\ req' = req /\ conn' = conn
           /\ linkUp /\ connected /\ ~Receive
  <1>1. ~Link /\ ~Protocol /\ "idle" # "wait" /\ "send" # "wait"
    BY DEF Link, Protocol
  <1>2. ~Fail
    BY <1>1, Zenon DEF Fail
  <1>3. ~FlushOrFail(Link) /\ ~FlushOrFail(Protocol) /\ \A v : ~Succeed(v)
    BY <1>1, <1>2, Zenon DEF FlushOrFail, Succeed
  <1>4. /\ ~SendBroken /\ ~SendRefused /\ ~ReceiveTimeout /\ ~ReceiveReset
        /\ ~Flush /\ \A fn, a, v : ~Call(fn, a, v)
    <2>1. ~SendBroken
      <3>1. SendBroken => Fail
        BY <1>1, Zenon DEF SendBroken
      <3>2. QED  BY <1>2, <3>1
    <2>2. ~SendRefused
      <3>1. SendRefused => Fail
        BY <1>1, Zenon DEF SendRefused
      <3>2. QED  BY <1>2, <3>1
    <2>3. ~ReceiveTimeout /\ ~ReceiveReset /\ ~Flush
      BY <1>2, <1>3, Zenon DEF ReceiveTimeout, ReceiveReset, Flush
    <2>4. \A fn, a, v : ~Call(fn, a, v)
      BY <1>1, Zenon DEF Call
    <2>5. QED  BY <2>1, <2>2, <2>3, <2>4
  <1>5. ~Receive
    BY <1>2, <1>3, Zenon DEF Receive
  <1>6. ~AppFlush /\ ~AppReconnect /\ ~Break
    <2>1. client' = client => pc' = pc
      BY DEF client
    <2>2. QED  BY <1>1, <2>1, Zenon DEF AppFlush, AppReconnect, Break
  <1>7. UNCHANGED <<client, socket>>
    BY <1>4, <1>5, <1>6, Zenon
       DEF Next, ClientStep, ServerStep, ReadRegister, WriteRegister,
           Deliver, Accept, CloseClient, Serve, vars
  <1>8. QED  BY <1>5, <1>7 DEF client, socket

LEMMA AwaitStep == IInv /\ AwaitInv /\ [Next]_vars => AwaitInv'
  <1> SUFFICES ASSUME IInv, AwaitInv, [Next]_vars PROVE AwaitInv'
    OBVIOUS
  <1>1. sconn' <= conn'
    <2>1. conn' = conn \/ conn' = conn + 1
      <3>1. Connect => conn' = conn \/ conn' = conn + 1
        BY Zenon DEF Connect
      <3>2. QED
        BY <3>1, Zenon DEF Next, ClientStep, ServerStep, ReadRegister,
           WriteRegister, Call, Send, SendBroken, SendRefused, ReceiveTimeout,
           ReceiveReset, Receive, Flush, AppFlush, AppReconnect, Deliver, Break,
           Accept, CloseClient, Serve, vars, socket
    <2>2. sconn' = sconn \/ (sconn' = sconn + 1 /\ sconn < conn)
      BY Zenon DEF Next, ClientStep, ServerStep, ReadRegister,
         WriteRegister, Call, Send, SendBroken, SendRefused, ReceiveTimeout,
         ReceiveReset, Receive, Flush, AppFlush, AppReconnect, Deliver, Break,
         Accept, CloseClient, Serve, vars, server
    <2>3. sconn \in Nat /\ conn \in Nat /\ sconn <= conn
      BY DEF IInv, TypeOK, AwaitInv
    <2>4. QED  BY <2>1, <2>2, <2>3
  <1>2. ASSUME recovery = {} PROVE pc' # "flush"
    <2>1. /\ ~Link /\ ~Protocol /\ pc # "flush"
          /\ "idle" # "flush" /\ "send" # "flush" /\ "wait" # "flush"
      BY <1>2 DEF Link, Protocol, AwaitInv
    <2>2. Fail \/ FlushOrFail(Link) \/ FlushOrFail(Protocol) \/ (\E v : Succeed(v))
            => pc' = "idle"
      BY <2>1, Zenon DEF Fail, FlushOrFail, Succeed
    <2>3. client' = client => pc' = pc
      BY DEF client
    <2>4. vars' = vars => client' = client
      BY DEF vars
    <2>5. Receive => pc' = "idle"
      BY <2>2, Zenon DEF Receive
    <2>6. SendBroken \/ SendRefused => pc' = "idle"
      BY <2>1, <2>2, Zenon DEF SendBroken, SendRefused
    <2>7. QED
      BY <2>1, <2>2, <2>3, <2>4, <2>5, <2>6, Zenon
         DEF Next, ClientStep, ServerStep, ReadRegister, WriteRegister, Call,
             Send, ReceiveTimeout, ReceiveReset, Flush, AppFlush, AppReconnect,
             Deliver, Break, Accept, CloseClient, Serve
  <1>3. ASSUME recovery = {}, pc' = "wait", connected', linkUp'
        PROVE  OnTheWay(req.no)'
    <2>1. CASE Send
      <3>1. c2s \in Seq(Indications) /\ Indication \in Indications
        BY DEF IInv, TypeOK, Indication, Indications, Requests
      <3>2. /\ req' = req /\ conn' = conn /\ c2s' = Append(c2s, Indication)
            /\ Indication.no = req.no /\ Indication.conn = conn
        BY <1>3, <2>1 DEF Send, socket, Indication
      <3>3. Len(c2s) + 1 \in 1..Len(c2s') /\ c2s'[Len(c2s) + 1] = Indication
        BY <3>1, <3>2, AppendKeeps
      <3>4. QED  BY <3>2, <3>3, Zenon DEF OnTheWay
    <2>2. CASE ~Send
      <3>1. /\ pc = "wait" /\ req' = req /\ conn' = conn
            /\ linkUp /\ connected /\ ~Receive
        BY <1>3, <2>2, WaitsOn
      <3>2. PICK n : n = req.no
        OBVIOUS
      <3>3. OnTheWay(n)
        BY <1>3, <3>1, <3>2 DEF AwaitInv
      <3>4. OnTheWay(n)'
        BY <1>3, <3>1, <3>3, StaysOnTheWay
      <3>5. QED  BY <3>1, <3>2, <3>4
    <2>3. QED  BY <2>1, <2>2
  <1>4. QED  BY <1>1, <1>2, <1>3, RecoveryKept DEF AwaitInv

(* A client out of step reads a confirmation that is not its own and fails.   *)
LEMMA ReceiveOutOfStep ==
    ASSUME IInv, AwaitInv, Tcp, recovery = {}, connected, linkUp,
           NEW n \in Nat, n < req.no, OnTheWay(n), Receive
    PROVE  /\ pc' = "idle" /\ req' = req /\ ~ok'
           /\ Head(rbuf).no # req.no /\ OnTheWay(req.no)
  <1>1. pc = "wait" /\ rbuf # <<>>
    BY Zenon DEF Receive
  <1>2. /\ rbuf \in Seq(Confirmations) /\ req.no \in Nat
    BY DEF IInv, TypeOK, Requests
  <1>3. Head(rbuf).no # req.no
    <2> SUFFICES ASSUME Head(rbuf).no = req.no PROVE FALSE
      OBVIOUS
    <2>1. c2s = <<>> /\ s2c = <<>> /\ Tail(rbuf) = <<>>
      BY <1>1, CurrentIsLast
    <2>2. /\ 1..Len(c2s) = {} /\ 1..Len(s2c) = {}
          /\ Len(rbuf) = 1 /\ Head(rbuf) = rbuf[1]
      <3>1. 1..Len(c2s) = {} /\ 1..Len(s2c) = {}
        BY <2>1
      <3>2. Len(Tail(rbuf)) = Len(rbuf) - 1 /\ Head(rbuf) = rbuf[1]
        BY <1>1, <1>2
      <3> DEFINE t == Tail(rbuf)
      <3>3. t = <<>>
        BY <2>1
      <3> HIDE DEF t
      <3>4. Len(t) = 0
        BY <3>3
      <3>5. Len(rbuf) = 1
        BY <1>2, <3>2, <3>4 DEF t
      <3>6. QED  BY <3>1, <3>2, <3>5
    <2>3. PICK i \in 1..Len(rbuf) : rbuf[i].no = n
      BY <2>2 DEF OnTheWay
    <2>4. i = 1
      BY <2>2, <2>3
    <2>5. QED  BY <1>2, <2>2, <2>3, <2>4
  <1>4. ~TidAccepted(Head(rbuf))
    BY <1>1, <1>3, AcceptedIsCurrent
  <1>5. FlushOrFail(Protocol) /\ ~Protocol
    BY <1>4, Zenon DEF Receive, Protocol
  <1>6. OnTheWay(req.no)
    BY <1>1 DEF AwaitInv
  <1>7. QED  BY <1>3, <1>5, <1>6 DEF FlushOrFail, Fail

LEMMA OutOfStepStays ==
    ASSUME Tcp, IInv, AwaitInv, [Next]_vars, recovery = {}, OutOfStep,
           conn' = conn, linkUp', connected'
    PROVE  OutOfStep' /\ ~(ok' /\ ~ok)
  <1>1. connected /\ linkUp /\ req.no \in Nat
    BY DEF OutOfStep, IInv, TypeOK, Requests
  <1>2. PICK n \in 0..req.no : OnTheWay(n) /\ (n < req.no \/ pc = "idle")
    BY DEF OutOfStep
  <1>3. CASE Receive
    <2>1. n \in Nat /\ n < req.no
      <3>1. pc = "wait"
        BY <1>3, Zenon DEF Receive
      <3>2. QED  BY <1>1, <1>2, <3>1
    <2>2. /\ pc' = "idle" /\ req' = req /\ ~ok'
          /\ Head(rbuf).no # req.no /\ OnTheWay(req.no)
      BY <1>1, <1>2, <1>3, <2>1, ReceiveOutOfStep
    <2>3. PICK k : k = req.no
      OBVIOUS
    <2>4. OnTheWay(k) /\ ~(Receive /\ Head(rbuf).no = k)
      BY <2>2, <2>3
    <2>5. OnTheWay(k)'
      BY <1>1, <2>4, StaysOnTheWay
    <2>6. k \in 0..req'.no
      BY <1>1, <2>2, <2>3
    <2>7. QED  BY <2>2, <2>5, <2>6 DEF OutOfStep
  <1>4. CASE ~Receive
    <2>1. OnTheWay(n)'
      BY <1>1, <1>2, <1>4, StaysOnTheWay
    <2>2. ASSUME NEW fn, NEW a, NEW v, Call(fn, a, v)
          PROVE  OutOfStep' /\ ~(ok' /\ ~ok)
      <3>1. req'.no = req.no + 1 /\ ok' = FALSE
        BY <2>2 DEF Call
      <3>2. n \in 0..req'.no /\ n < req'.no
        BY <1>1, <1>2, <3>1
      <3>3. QED  BY <2>1, <3>1, <3>2 DEF OutOfStep
    <2>3. CASE \A fn, a, v : ~Call(fn, a, v)
      <3>1. /\ ~Link /\ ~Protocol /\ ~AppFlushes
            /\ "idle" # "send" /\ "idle" # "wait" /\ "idle" # "flush"
        BY DEF Link, Protocol, AppFlushes
      <3>2. client' = client => req' = req /\ pc' = pc /\ ok' = ok
        BY DEF client
      <3>3. vars' = vars => client' = client
        BY DEF vars
      <3>4. Fail \/ FlushOrFail(Link) => req' = req /\ pc' = "idle" /\ ok' = FALSE
        BY <3>1, Zenon DEF Fail, FlushOrFail
      <3>5. SendBroken \/ SendRefused => req' = req /\ pc' = "idle" /\ ok' = FALSE
        BY <3>1, <3>4, Zenon DEF SendBroken, SendRefused
      <3>6. Send => req' = req /\ pc # "idle" /\ ok' = ok
        BY <3>1, Zenon DEF Send
      <3>7. /\ req' = req
            /\ pc = "idle" => pc' = "idle"
            /\ ok' = ok \/ ok' = FALSE
        BY <1>4, <2>3, <3>2, <3>3, <3>4, <3>5, <3>6, Zenon
           DEF Next, ClientStep, ServerStep, ReadRegister, WriteRegister,
               ReceiveTimeout, ReceiveReset, Flush, AppFlush, AppReconnect,
               Deliver, Break, Accept, CloseClient, Serve
      <3>8. QED  BY <1>2, <2>1, <3>7 DEF OutOfStep
    <2>4. QED  BY <2>2, <2>3
  <1>5. QED  BY <1>3, <1>4

(* Without error recovery and without modbus_flush, a TCP connection that     *)
(* holds a late confirmation fails every call made on it, one after another,  *)
(* as long as it lasts: no number of retries brings client and server back    *)
(* into step (pre_check_confirmation, check_confirmation).                    *)
THEOREM StaysOutOfStep == ASSUME Tcp PROVE Spec => OutOfStepForGood
  <1> DEFINE Stays == recovery = {} /\ OutOfStep /\ conn' = conn /\ linkUp'
                        /\ connected' => OutOfStep' /\ ~(ok' /\ ~ok)
  <1>1. IInv /\ AwaitInv /\ [Next]_vars => [Stays]_vars
    BY OutOfStepStays
  <1>2. QED
    BY <1>1, Invariant, AwaitInit, AwaitStep, PTL DEF Spec, OutOfStepForGood

-----------------------------------------------------------------------------
(* The refinement of RemoteRegisters.                                         *)

RemoteStep == Remote!Next \/ UNCHANGED Remote!vars

LEMMA BareType ==
    ASSUME NEW m \in Requests
    PROVE  Bare(m) \in Remote!Calls
  BY DEF Bare, Requests, Functions, Remote!Calls

\* a request that is executed or lost is no longer pending
LEMMA PendingShrinks ==
    ASSUME c2s \in Seq(Indications), c2s' \in Seq(Indications), Segment(c2s', c2s),
           req' = req, pc' = "send" => pc = "send"
    PROVE  pendingCalls' \subseteq pendingCalls
  <1>1. \A i \in 1..Len(c2s') : \E j \in 1..Len(c2s) : c2s'[i] = c2s[j]
    BY SegmentElement DEF Within
  <1>2. Bare(req)' = Bare(req)
    BY DEF Bare
  <1>3. \A i \in 1..Len(c2s') : \E j \in 1..Len(c2s) : Bare(c2s'[i]) = Bare(c2s[j])
    BY <1>1, Zenon
  <1>4. QED
    <2>1. pendingCalls' = {Bare(c2s'[i]) : i \in 1..Len(c2s')}
                             \cup (IF pc' = "send" THEN {Bare(req)'} ELSE {})
      BY DEF pendingCalls, Bare
    <2>2. pendingCalls = {Bare(c2s[i]) : i \in 1..Len(c2s)}
                             \cup (IF pc = "send" THEN {Bare(req)} ELSE {})
      BY DEF pendingCalls
    <2>3. QED  BY <1>2, <1>3, <2>1, <2>2, Zenon

\* the steps in which the service sees nothing but calls that are lost
LEMMA LoseStep ==
    ASSUME pendingCalls' \subseteq pendingCalls, callState' = callState,
           UNCHANGED <<req, ok, got, regs, executed>>
    PROVE  RemoteStep
  <1>1. Bare(req)' = Bare(req)
    BY DEF Bare
  <1>2. Remote!Lose
    BY <1>1 DEF Remote!Lose
  <1>3. QED  BY <1>2 DEF RemoteStep, Remote!Next

LEMMA FailStep ==
    ASSUME pendingCalls' \subseteq pendingCalls, pc # "idle", pc' = "idle", ~ok',
           ok' \in BOOLEAN, UNCHANGED <<req, got, regs, executed>>
    PROVE  RemoteStep
  <1>1. Bare(req)' = Bare(req)
    BY DEF Bare
  <1>2. callState = "called" /\ callState' = "idle"
    BY DEF callState
  <1>3. Remote!Fail
    BY <1>1, <1>2 DEF Remote!Fail
  <1>4. QED  BY <1>3 DEF RemoteStep, Remote!Next

LEMMA RefineCall ==
    ASSUME IInv, TypeOK', NEW fn, NEW a, NEW v, Call(fn, a, v)
    PROVE  RemoteStep
  <1>1. /\ pc = "idle" /\ pc' = "send" /\ ok' = FALSE /\ c2s' = c2s
        /\ req'.no = req.no + 1 /\ UNCHANGED <<got, regs, executed>>
    BY DEF Call, channel, server
  <1>2. callState = "idle" /\ callState' = "called"
    BY <1>1 DEF callState
  <1>3. Bare(req)' \in Remote!Calls /\ (Bare(req)').no = Bare(req).no + 1
    <2>1. req' \in Requests
      BY DEF TypeOK
    <2>2. Bare(req') \in Remote!Calls /\ Bare(req').no = Bare(req).no + 1
      BY <1>1, <2>1, BareType DEF Bare
    <2>3. QED  BY <2>2 DEF Bare
  <1>4. pendingCalls' = pendingCalls \cup {Bare(req)'}
    BY <1>1 DEF pendingCalls, Bare
  <1>5. Remote!Call
    BY <1>1, <1>2, <1>3, <1>4 DEF Remote!Call
  <1>6. QED  BY <1>5 DEF RemoteStep, Remote!Next

LEMMA RefineSend ==
    ASSUME IInv, Send
    PROVE  RemoteStep
  <1>1. /\ pc = "send" /\ pc' = "wait"
        /\ c2s' = Append(c2s, Indication) \/ c2s' = c2s
        /\ UNCHANGED <<req, ok, got, regs, executed>>
    BY DEF Send, server
  <1>2. callState' = callState
    BY <1>1 DEF callState
  <1>3. c2s \in Seq(Indications) /\ Bare(Indication) = Bare(req)
    BY DEF IInv, TypeOK, Bare, Indication
  <1>4. ASSUME NEW i \in 1..Len(c2s')
        PROVE  Bare(c2s'[i]) \in pendingCalls
    <2>1. \/ i \in 1..Len(c2s) /\ c2s'[i] = c2s[i]
          \/ c2s'[i] = Indication
      BY <1>1, <1>3
    <2>2. QED  BY <1>1, <1>3, <2>1 DEF pendingCalls
  <1>5. pendingCalls' = {Bare(c2s'[i]) : i \in 1..Len(c2s')}
    BY <1>1 DEF pendingCalls, Bare
  <1>6. pendingCalls' \subseteq pendingCalls
    BY <1>4, <1>5
  <1>7. QED  BY <1>1, <1>2, <1>6, LoseStep

LEMMA RefineServe ==
    ASSUME IInv, TypeOK', Serve
    PROVE  RemoteStep
  <1> DEFINE m == Head(c2s)
  <1>1. /\ UNCHANGED <<pc, req, ok, got>> /\ c2s # <<>> /\ executed' = m.no
        /\ regs' = IF m.fn = "write" /\ m.addr \in Served
                   THEN [regs EXCEPT ![m.addr] = m.val] ELSE regs
        /\ c2s' = Tail(c2s) \/ c2s' \in AfterClosing(sconn, Tail(c2s))
    BY Zenon DEF Serve, client
  <1>2. /\ c2s \in Seq(Indications) /\ Tail(c2s) \in Seq(Indications)
        /\ 1 \in 1..Len(c2s) /\ m = c2s[1]
        /\ \A i \in 1..Len(Tail(c2s)) :
             i + 1 \in 1..Len(c2s) /\ 1 < i + 1 /\ Tail(c2s)[i] = c2s[i + 1]
    BY <1>1 DEF IInv, TypeOK
  <1>3. c2s' \in Seq(Indications) /\ Within(c2s', Tail(c2s))
    BY <1>1, <1>2, SegmentSelf, SegmentAfterClosing, SegmentElement
  <1>4. ASSUME NEW i \in 1..Len(c2s')
        PROVE  \E j \in 1..Len(c2s) : c2s'[i] = c2s[j] /\ m.no < c2s[j].no
    <2>1. PICK k \in 1..Len(Tail(c2s)) : c2s'[i] = Tail(c2s)[k]
      BY <1>3 DEF Within
    <2>2. m.no < c2s[k + 1].no
      BY <1>2 DEF IInv, Queues, Ordered
    <2>3. QED  BY <1>2, <2>1, <2>2
  <1>5. pc = "send" => m.no < req.no
    BY <1>2 DEF IInv, Requested
  <1> DEFINE c == Bare(m)
  <1>6. /\ c \in pendingCalls /\ c.no = m.no /\ c.fn = m.fn
        /\ c.addr = m.addr /\ c.val = m.val
    BY <1>2 DEF pendingCalls, Bare
  <1>7. ASSUME NEW d \in pendingCalls'
        PROVE  d \in pendingCalls /\ d.no > c.no
    <2>1. pendingCalls' = {Bare(c2s'[i]) : i \in 1..Len(c2s')}
                             \cup (IF pc = "send" THEN {Bare(req)} ELSE {})
      BY <1>1 DEF pendingCalls, Bare
    <2>2. c.no = m.no
      BY <1>6
    <2> HIDE DEF c, m
    <2>3. CASE pc = "send" /\ d = Bare(req)
      <3>1. d.no = req.no /\ d \in pendingCalls
        BY <2>3 DEF pendingCalls, Bare
      <3>2. req.no > m.no
        BY <1>5, <2>3, <1>2, Numbers DEF IInv, TypeOK, Requests, m
      <3>3. QED  BY <2>2, <3>1, <3>2
    <2>4. CASE \E i \in 1..Len(c2s') : d = Bare(c2s'[i])
      <3>1. PICK i \in 1..Len(c2s') : d = Bare(c2s'[i])
        BY <2>4
      <3>2. PICK j \in 1..Len(c2s) : c2s'[i] = c2s[j] /\ m.no < c2s[j].no
        BY <1>4
      <3>3. d = Bare(c2s[j]) /\ d.no = c2s[j].no
        BY <3>1, <3>2 DEF Bare
      <3>4. d \in pendingCalls
        BY <3>3 DEF pendingCalls
      <3>5. QED  BY <2>2, <3>2, <3>3, <3>4
    <2>5. QED  BY <2>1, <2>3, <2>4
  <1>8. regs' = Remote!Effect(c)
    BY <1>1, <1>6 DEF Remote!Effect
  <1>9. UNCHANGED <<callState, Bare(req), ok, got>>
    BY <1>1 DEF callState, Bare
  <1>10. executed' = c.no
    BY <1>1, <1>6
  <1>11. pendingCalls' \subseteq {d \in pendingCalls : d.no > c.no}
    BY <1>7
  <1>12. Remote!Execute
    <2> HIDE DEF c
    <2>1. QED  BY <1>6, <1>8, <1>9, <1>10, <1>11 DEF Remote!Execute
  <1>13. QED  BY <1>12 DEF RemoteStep, Remote!Next

\* a success is the return of the current call
LEMMA RefineReceive ==
    ASSUME IInv, TypeOK', Tcp, Receive
    PROVE  RemoteStep
  <1> DEFINE rsp == Head(rbuf)
  <1>1. /\ UNCHANGED <<req, c2s, regs, executed>> /\ rbuf # <<>> /\ pc = "wait"
    BY Zenon DEF Receive, server, FlushOrFail, Fail, Succeed
  <1>2. \/ pc' = "flush" /\ ok' = ok /\ got' = got
        \/ pc' = "idle" /\ ok' = FALSE /\ got' = got
        \/ /\ pc' = "idle" /\ ok' = TRUE /\ got' = rsp.val
           /\ TidAccepted(rsp) /\ ~rsp.exc
    BY Zenon DEF Receive, FlushOrFail, Fail, Succeed
  <1>3. pendingCalls' \subseteq pendingCalls
    <2>1. c2s \in Seq(Indications) /\ Segment(c2s', c2s)
      BY <1>1, SegmentSelf DEF IInv, TypeOK
    <2>2. QED  BY <1>1, <1>2, <2>1, PendingShrinks
  <1>4. CASE pc' = "flush" /\ ok' = ok /\ got' = got
    <2>1. callState' = callState
      BY <1>1, <1>4 DEF callState
    <2>2. QED  BY <1>1, <1>3, <1>4, <2>1, LoseStep
  <1>5. CASE pc' = "idle" /\ ok' = FALSE /\ got' = got
    BY <1>1, <1>3, <1>5, FailStep
  <1>6. CASE /\ pc' = "idle" /\ ok' = TRUE /\ got' = rsp.val
             /\ TidAccepted(rsp) /\ ~rsp.exc
    <2>1. rsp.no = req.no
      BY <1>1, <1>6, AcceptedIsCurrent
    <2>2. executed = req.no /\ c2s = <<>>
      BY <1>1, <2>1, CurrentIsLast
    <2>3. 1 \in 1..Len(rbuf) /\ rsp = rbuf[1]
      BY <1>1 DEF IInv, TypeOK
    <2>4. req.addr \in Served /\ regs[req.addr] = got'
      BY <1>6, <2>1, <2>3 DEF IInv, Answered, Answers
    <2>5. pendingCalls = {} /\ pendingCalls' = {}
      BY <1>1, <1>6, <2>2 DEF pendingCalls
    <2>6. /\ callState = "called" /\ callState' = "idle" /\ Bare(req)' = Bare(req)
          /\ Bare(req).no = req.no /\ Bare(req).addr = req.addr
      BY <1>1, <1>6 DEF callState, Bare
    <2>7. Remote!Return
      BY <1>1, <1>6, <2>2, <2>4, <2>5, <2>6 DEF Remote!Return
    <2>8. QED  BY <2>7 DEF RemoteStep, Remote!Next
  <1>7. QED  BY <1>2, <1>4, <1>5, <1>6

LEMMA RefineShrinking ==
    ASSUME IInv, TypeOK',
           \/ SendBroken \/ SendRefused \/ ReceiveTimeout \/ ReceiveReset
           \/ Flush \/ AppFlush \/ AppReconnect \/ Break
           \/ Accept \/ CloseClient \/ Deliver \/ UNCHANGED vars
    PROVE  RemoteStep
  <1>1. UNCHANGED <<req, regs, executed>>
    BY Zenon DEF SendBroken, SendRefused, ReceiveTimeout, ReceiveReset, Flush,
       AppFlush, AppReconnect, Break, Accept, CloseClient, Deliver, Fail,
       FlushOrFail, client, server, vars
  <1>2. \/ pc' = pc /\ ok' = ok /\ got' = got
        \/ pc = "wait" /\ pc' = "flush" /\ ok' = ok /\ got' = got
        \/ pc \in {"send", "wait", "flush"} /\ pc' = "idle" /\ ok' = FALSE /\ got' = got
    BY Zenon DEF SendBroken, SendRefused, ReceiveTimeout, ReceiveReset, Flush,
       AppFlush, AppReconnect, Break, Accept, CloseClient, Deliver, Fail,
       FlushOrFail, client, server, vars
  <1>3. /\ c2s \in Seq(Indications) /\ c2s' \in Seq(Indications)
        /\ Segment(c2s', c2s)
    <2>1. c2s \in Seq(Indications) /\ c2s' \in Seq(Indications) /\ Segment(c2s, c2s)
      BY SegmentSelf DEF IInv, TypeOK
    <2>2. CASE Deliver
      BY <2>1, <2>2 DEF Deliver
    <2>3. CASE ~Deliver
      BY <2>1, <2>3, ShrinkingSteps DEF IInv
    <2>4. QED  BY <2>2, <2>3
  <1>4. pendingCalls' \subseteq pendingCalls
    BY <1>1, <1>2, <1>3, PendingShrinks
  <1>5. CASE \/ pc' = pc /\ ok' = ok /\ got' = got
             \/ pc = "wait" /\ pc' = "flush" /\ ok' = ok /\ got' = got
    <2>1. callState' = callState
      BY <1>5 DEF callState
    <2>2. QED  BY <1>1, <1>4, <1>5, <2>1, LoseStep
  <1>6. CASE pc \in {"send", "wait", "flush"} /\ pc' = "idle" /\ ok' = FALSE /\ got' = got
    BY <1>1, <1>4, <1>6, FailStep
  <1>7. QED  BY <1>2, <1>5, <1>6

LEMMA RefineStep ==
    ASSUME Tcp, IInv, [Next]_vars
    PROVE  RemoteStep
  <1>1. TypeOK'
    BY TypeStep DEF IInv
  <1>2. ASSUME NEW fn, NEW a, NEW v, Call(fn, a, v) PROVE RemoteStep
    BY <1>1, <1>2, RefineCall
  <1>3. CASE Send
    BY <1>3, RefineSend
  <1>4. CASE Receive
    BY <1>1, <1>4, RefineReceive
  <1>5. CASE Serve
    BY <1>1, <1>5, RefineServe
  <1>6. CASE \/ SendBroken \/ SendRefused \/ ReceiveTimeout \/ ReceiveReset
             \/ Flush \/ AppFlush \/ AppReconnect \/ Break
             \/ Accept \/ CloseClient \/ Deliver \/ UNCHANGED vars
    BY <1>1, <1>6, RefineShrinking
  <1>7. QED
    BY <1>2, <1>3, <1>4, <1>5, <1>6, Zenon
       DEF Next, ClientStep, ServerStep, ReadRegister, WriteRegister

LEMMA RefineInit == Init => Remote!Init
  <1> SUFFICES ASSUME Init PROVE Remote!Init
    OBVIOUS
  <1>1. req \in Requests
    BY TypeInit DEF TypeOK
  <1>2. Bare(req) \in Remote!Calls /\ Bare(req).no = 0
    BY <1>1, BareType DEF Bare, Init
  <1>3. pendingCalls = {} /\ callState = "idle"
    BY DEF Init, pendingCalls, callState
  <1>4. QED  BY <1>2, <1>3 DEF Init, Remote!Init

(* Over TCP, calls through requests and confirmations that are lost, late or  *)
(* left over, over connections that break and come back, are calls that take  *)
(* effect at one moment: at most once, in the order they were made, and, when *)
(* they return success, before they do (RemoteRegisters).  As long as no      *)
(* message is TidMod calls old.                                               *)
THEOREM RefinesRemote == ASSUME Tcp PROVE Spec => ImplementsRemote
  <1>1. IInv /\ [Next]_vars => [Remote!Next]_(Remote!vars)
    BY RefineStep DEF RemoteStep
  <1>2. QED  BY <1>1, RefineInit, Invariant, PTL DEF Spec, ImplementsRemote, Remote!Spec

=============================================================================
