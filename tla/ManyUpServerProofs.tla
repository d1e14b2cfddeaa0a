-------------------------- MODULE ManyUpServerProofs --------------------------
(* Theorems about ManyUpServer for any number of clients and descriptors.     *)
EXTENDS ManyUpServer, SequenceTheorems, TLAPS

\* a client has at most one connection, in the backlog or accepted
OneConnection ==
    /\ \A f \in Fds : owner[f] # None => state[owner[f]] \in {"connected", "left"}
    /\ \A f, g \in Fds : owner[f] # None /\ owner[f] = owner[g] => f = g
    /\ \A i \in 1..Len(backlog) : state[backlog[i]] \in {"backlog", "left"}
    /\ \A i, j \in 1..Len(backlog) : backlog[i] = backlog[j] => i = j
    /\ \A i \in 1..Len(backlog), f \in Fds : owner[f] # backlog[i]

\* what select() reported and the for loop has not reached is still true
StillReady == at = "scan" =>
    /\ master_socket = Srv /\ Srv \in rdset => backlog # <<>>
    /\ \A f \in rdset \ {Srv} : f >= master_socket => Readable(f)

IInv == TypeOK /\ FdmaxCovers /\ OneConnection /\ StillReady

-----------------------------------------------------------------------------

LEMMA Numbers ==
    ASSUME TypeOK
    PROVE  /\ Srv \in Nat /\ MaxFd \in Nat /\ Srv < MaxFd /\ Srv \in Srv..MaxFd
           /\ Srv \notin Fds /\ Fds \subseteq Srv..MaxFd /\ Fds \subseteq Nat
           /\ fdmax \in Nat /\ master_socket \in Nat /\ Srv <= master_socket
           /\ None \notin Clients
  BY ServerAssumption, NoneAssumption DEF TypeOK, Fds

LEMMA NextSocketType ==
    ASSUME TypeOK, at = "scan", NEW m \in Srv..MaxFd, NextSocket(m)
    PROVE  /\ at' \in {"select", "scan"} /\ master_socket' \in Srv..MaxFd
           /\ at' = "scan" => master_socket' = master_socket + 1
  <1>1. CASE master_socket < m
    BY <1>1, Numbers DEF NextSocket, TypeOK
  <1>2. CASE ~(master_socket < m)
    BY <1>2, Numbers DEF NextSocket
  <1>3. QED  BY <1>1, <1>2

\* the for loop goes on and takes nothing from the sockets it has not reached
LEMMA ScanOn ==
    ASSUME IInv, at = "scan", rdset' = rdset,
           at' = "scan" => master_socket' = master_socket + 1,
           \A f \in Fds : f # master_socket /\ Readable(f) => Readable(f)'
    PROVE  StillReady'
  <1> SUFFICES ASSUME at' = "scan"
               PROVE  /\ master_socket' # Srv
                      /\ \A f \in rdset \ {Srv} : f >= master_socket' => Readable(f)'
    BY DEF StillReady
  <1>1. /\ master_socket' = master_socket + 1 /\ master_socket \in Nat
        /\ Srv \in Nat /\ Srv <= master_socket /\ Fds \subseteq Nat
        /\ rdset \subseteq Fds \cup {Srv}
    BY Numbers DEF IInv, TypeOK
  <1>2. master_socket' # Srv
    BY <1>1
  <1>3. ASSUME NEW f \in rdset \ {Srv}, f >= master_socket' PROVE Readable(f)'
    <2>1. f \in Fds /\ f >= master_socket /\ f # master_socket
      BY <1>1, <1>3
    <2>2. Readable(f)
      BY <1>3, <2>1 DEF IInv, StillReady
    <2>3. QED  BY <2>1, <2>2
  <1>4. QED  BY <1>2, <1>3

LEMMA InvariantInit == Init => IInv
  <1> SUFFICES ASSUME Init PROVE IInv
    OBVIOUS
  <1> USE DEF Init
  <1>1. /\ inbox \in [Clients -> 0..MaxInbox] /\ backlog \in Seq(Clients)
        /\ fdmax \in Srv..MaxFd /\ master_socket \in Srv..MaxFd
    BY ServerAssumption
  <1>2. /\ state \in [Clients -> {"away", "backlog", "connected", "left"}]
        /\ owner \in [Fds -> Clients \cup {None}] /\ at \in {"select", "scan"}
        /\ refset \subseteq Fds \cup {Srv} /\ rdset \subseteq Fds \cup {Srv}
    OBVIOUS
  <1>3. cut \in [Clients -> BOOLEAN]
    BY Zenon
  <1>4. TypeOK
    BY <1>1, <1>2, <1>3, Zenon DEF TypeOK
  <1>5. FdmaxCovers
    BY ServerAssumption DEF FdmaxCovers
  <1>6. OneConnection
    BY DEF OneConnection
  <1>7. StillReady
    BY DEF StillReady
  <1>8. QED  BY <1>4, <1>5, <1>6, <1>7 DEF IInv

LEMMA StepConnect ==
    ASSUME IInv, NEW c \in Clients, Connect(c)
    PROVE  IInv'
  <1>1. /\ state[c] = "away" /\ state' = [state EXCEPT ![c] = "backlog"]
        /\ backlog' = Append(backlog, c) /\ backlog \in Seq(Clients)
        /\ state \in [Clients -> {"away", "backlog", "connected", "left"}]
        /\ UNCHANGED <<inbox, cut, owner, refset, fdmax, loop>>
    BY Zenon DEF Connect, IInv, TypeOK
  <1>2. /\ state' \in [Clients -> {"away", "backlog", "connected", "left"}]
        /\ backlog' \in Seq(Clients) /\ Len(backlog') = Len(backlog) + 1
        /\ Len(backlog) \in Nat /\ backlog' # <<>>
        /\ backlog'[Len(backlog) + 1] = c
        /\ \A i \in 1..Len(backlog) : backlog'[i] = backlog[i]
    BY <1>1
  <1>3. TypeOK'
    BY <1>1, <1>2, Zenon DEF IInv, TypeOK, loop
  <1>4. FdmaxCovers'
    BY <1>1, Zenon DEF IInv, FdmaxCovers
  <1>5. /\ \A f \in Fds : owner[f] # c
        /\ \A i \in 1..Len(backlog) : backlog[i] # c
    BY <1>1, Numbers DEF IInv, OneConnection, TypeOK
  <1>6. \A i \in 1..Len(backlog') :
            i \in 1..Len(backlog) \/ (i = Len(backlog) + 1 /\ backlog'[i] = c)
    BY <1>2
  <1>7. OneConnection'
    <2>1. \A f \in Fds : owner'[f] # None => state'[owner'[f]] \in {"connected", "left"}
      BY <1>1, <1>5 DEF IInv, OneConnection, TypeOK
    <2>2. \A f, g \in Fds : owner'[f] # None /\ owner'[f] = owner'[g] => f = g
      BY <1>1 DEF IInv, OneConnection
    <2>3. \A i \in 1..Len(backlog') : state'[backlog'[i]] \in {"backlog", "left"}
      <3>1. \A i \in 1..Len(backlog) : backlog[i] \in Clients /\ backlog[i] # c
                                       /\ state[backlog[i]] \in {"backlog", "left"}
        BY <1>1, <1>5 DEF IInv, OneConnection
      <3>2. QED  BY <1>1, <1>2, <1>6, <3>1
    <2>4. \A i, j \in 1..Len(backlog') : backlog'[i] = backlog'[j] => i = j
      BY <1>2, <1>5, <1>6 DEF IInv, OneConnection
    <2>5. \A i \in 1..Len(backlog'), f \in Fds : owner'[f] # backlog'[i]
      BY <1>1, <1>2, <1>5, <1>6 DEF IInv, OneConnection
    <2>6. QED  BY <2>1, <2>2, <2>3, <2>4, <2>5 DEF OneConnection
  <1>8. \A f \in Fds : Readable(f) => Readable(f)'
    BY <1>1, <1>5 DEF Readable, IInv, TypeOK
  <1>9. StillReady'
    BY <1>1, <1>2, <1>8 DEF IInv, StillReady, TypeOK, loop
  <1>10. QED  BY <1>3, <1>4, <1>7, <1>9 DEF IInv

LEMMA StepSendLeave ==
    ASSUME IInv, NEW c \in Clients, Send(c) \/ Leave(c)
    PROVE  IInv'
  <1>1. UNCHANGED <<backlog, owner, refset, fdmax, loop>>
    BY Zenon DEF Send, Leave
  <1>2. /\ state' \in [Clients -> {"away", "backlog", "connected", "left"}]
        /\ \A d \in Clients : state'[d] = state[d]
              \/ (state[d] \in {"backlog", "connected"} /\ state'[d] = "left")
    BY DEF Send, Leave, IInv, TypeOK
  <1>3. /\ inbox' \in [Clients -> 0..MaxInbox]
        /\ \A d \in Clients : inbox'[d] >= inbox[d]
    <2>1. inbox \in [Clients -> 0..MaxInbox] /\ MaxInbox \in Nat
      BY ServerAssumption DEF IInv, TypeOK
    <2>2. \/ inbox' = inbox
          \/ inbox[c] < MaxInbox /\ inbox' = [inbox EXCEPT ![c] = inbox[c] + 1]
      BY Zenon DEF Send, Leave
    <2>3. CASE inbox' = inbox
      BY <2>1, <2>3
    <2>4. CASE inbox[c] < MaxInbox /\ inbox' = [inbox EXCEPT ![c] = inbox[c] + 1]
      BY <2>1, <2>4
    <2>5. QED  BY <2>2, <2>3, <2>4
  <1>4. cut' \in [Clients -> BOOLEAN] /\ \A d \in Clients : cut[d] => cut'[d]
    <2>1. CASE Send(c)
      BY <2>1, Zenon DEF Send, IInv, TypeOK
    <2>2. CASE Leave(c)
      BY <2>2, Zenon DEF Leave, IInv, TypeOK
    <2>3. QED  BY <2>1, <2>2
  <1>5. TypeOK'
    BY <1>1, <1>2, <1>3, <1>4, Zenon DEF IInv, TypeOK, loop
  <1>6. FdmaxCovers'
    BY <1>1, Zenon DEF IInv, FdmaxCovers
  <1>7. owner \in [Fds -> Clients \cup {None}] /\ backlog \in Seq(Clients)
    BY DEF IInv, TypeOK
  <1>8. OneConnection'
    <2>1. \A f \in Fds : owner'[f] # None => state'[owner'[f]] \in {"connected", "left"}
      BY <1>1, <1>2, <1>7 DEF IInv, OneConnection
    <2>2. \A i \in 1..Len(backlog') : state'[backlog'[i]] \in {"backlog", "left"}
      <3>1. \A i \in 1..Len(backlog) : backlog[i] \in Clients
        BY <1>7
      <3>2. QED  BY <1>1, <1>2, <3>1 DEF IInv, OneConnection
    <2>3. QED  BY <1>1, <2>1, <2>2, Zenon DEF IInv, OneConnection
  <1>9. ASSUME NEW f \in Fds, Readable(f) PROVE Readable(f)'
    <2>1. owner[f] \in Clients /\ owner'[f] = owner[f]
      BY <1>1, <1>7, <1>9 DEF Readable
    <2>2. inbox[owner[f]] > 0 => inbox'[owner[f]] > 0
      BY <1>3, <2>1 DEF IInv, TypeOK
    <2>3. state[owner[f]] = "left" => state'[owner[f]] = "left"
      BY <1>2, <2>1
    <2>4. cut[owner[f]] => cut'[owner[f]]
      BY <1>4, <2>1
    <2>5. QED  BY <1>9, <2>1, <2>2, <2>3, <2>4, Zenon DEF Readable
  <1>10. StillReady'
    BY <1>1, <1>9, Numbers, Zenon DEF IInv, StillReady, TypeOK, loop
  <1>11. QED  BY <1>5, <1>6, <1>8, <1>10 DEF IInv

LEMMA StepSelect ==
    ASSUME IInv, Select
    PROVE  IInv'
  <1>1. /\ rdset' = Ready \cap refset \cap (0..fdmax)
        /\ at' = "scan" /\ master_socket' = Srv
        /\ UNCHANGED <<peers, backlog, owner, refset, fdmax>>
    BY Zenon DEF Select
  <1>2. Srv \in Srv..MaxFd /\ Srv \notin Fds
    BY Numbers DEF IInv
  <1>3. rdset' \subseteq refset
    BY <1>1
  <1>4. TypeOK'
    BY <1>1, <1>2, <1>3, Zenon DEF IInv, TypeOK, peers
  <1>5. FdmaxCovers' /\ OneConnection'
    BY <1>1, Zenon DEF IInv, FdmaxCovers, OneConnection, peers
  <1>6. \A f \in Fds : Readable(f)' <=> Readable(f)
    BY <1>1, Zenon DEF Readable, peers
  <1>7. Srv \in Ready => backlog # <<>>
    BY <1>2, Zenon DEF Ready
  <1>8. \A f \in Ready \ {Srv} : f \in Fds /\ Readable(f)
    BY Zenon DEF Ready
  <1>9. StillReady'
    BY <1>1, <1>6, <1>7, <1>8, Zenon DEF StillReady
  <1>10. QED  BY <1>4, <1>5, <1>9 DEF IInv

LEMMA StepSkip ==
    ASSUME IInv, Skip \/ AcceptFails
    PROVE  IInv'
  <1>1. at = "scan" /\ NextSocket(fdmax)
        /\ UNCHANGED <<peers, backlog, owner, refset, rdset, fdmax>>
    BY Zenon DEF Skip, AcceptFails
  <1>2. /\ at' \in {"select", "scan"} /\ master_socket' \in Srv..MaxFd
        /\ at' = "scan" => master_socket' = master_socket + 1
    BY <1>1, NextSocketType DEF IInv, TypeOK
  <1>3. TypeOK'
    BY <1>1, <1>2, Zenon DEF IInv, TypeOK, peers
  <1>4. FdmaxCovers' /\ OneConnection'
    BY <1>1, Zenon DEF IInv, FdmaxCovers, OneConnection, peers
  <1>5. \A f \in Fds : Readable(f) => Readable(f)'
    BY <1>1, Zenon DEF Readable, peers
  <1>6. StillReady'
    BY <1>1, <1>2, <1>5, ScanOn
  <1>7. QED  BY <1>3, <1>4, <1>6 DEF IInv

LEMMA StepServe ==
    ASSUME IInv, Serve
    PROVE  IInv'
  <1>1. /\ at = "scan" /\ master_socket \in rdset \ {Srv} /\ NextSocket(fdmax)
        /\ inbox[Peer] > 0 /\ inbox' = [inbox EXCEPT ![Peer] = inbox[Peer] - 1]
        /\ UNCHANGED <<state, cut, backlog, owner, refset, rdset, fdmax>>
    BY Zenon DEF Serve
  <1>2. /\ at' \in {"select", "scan"} /\ master_socket' \in Srv..MaxFd
        /\ at' = "scan" => master_socket' = master_socket + 1
    BY <1>1, NextSocketType DEF IInv, TypeOK
  <1>3. master_socket \in Fds /\ Readable(master_socket)
    BY <1>1, Numbers DEF IInv, TypeOK, StillReady
  <1>4. Peer \in Clients /\ Peer # None
    BY <1>3 DEF Peer, Readable, IInv, TypeOK
  <1>5. inbox' \in [Clients -> 0..MaxInbox]
        /\ \A d \in Clients : d # Peer => inbox'[d] = inbox[d]
    BY <1>1, <1>4, ServerAssumption DEF IInv, TypeOK
  <1>6. TypeOK'
    BY <1>1, <1>2, <1>5, Zenon DEF IInv, TypeOK
  <1>7. FdmaxCovers' /\ OneConnection'
    BY <1>1, Zenon DEF IInv, FdmaxCovers, OneConnection
  <1>8. ASSUME NEW f \in Fds, f # master_socket, Readable(f) PROVE Readable(f)'
    <2>1. owner[f] \in Clients /\ owner[f] # Peer
      BY <1>3, <1>8 DEF Peer, Readable, IInv, TypeOK, OneConnection
    <2>2. inbox'[owner[f]] = inbox[owner[f]]
      BY <1>5, <2>1
    <2>3. QED  BY <1>1, <1>8, <2>2, Zenon DEF Readable
  <1>9. StillReady'
    BY <1>1, <1>2, <1>8, ScanOn
  <1>10. QED  BY <1>6, <1>7, <1>9 DEF IInv

LEMMA StepClose ==
    ASSUME IInv, Close
    PROVE  IInv'
  <1>1. /\ at = "scan" /\ master_socket \in rdset \ {Srv} /\ NextSocket(fdmax')
        /\ owner' = [owner EXCEPT ![master_socket] = None]
        /\ state' = [state EXCEPT ![Peer] = "away"]
        /\ cut' = [cut EXCEPT ![Peer] = FALSE]
        /\ refset' = refset \ {master_socket}
        /\ fdmax' = IF master_socket = fdmax THEN fdmax - 1 ELSE fdmax
        /\ UNCHANGED <<inbox, backlog, rdset>>
    BY Zenon DEF Close
  <1>2. master_socket \in Fds /\ Readable(master_socket)
    BY <1>1, Numbers DEF IInv, TypeOK, StillReady
  <1>3. Peer \in Clients /\ Peer # None
    BY <1>2 DEF Peer, Readable, IInv, TypeOK
  <1>4. fdmax' \in Srv..MaxFd
    BY <1>1, <1>2, ServerAssumption DEF IInv, TypeOK, Fds
  <1>5. /\ at' \in {"select", "scan"} /\ master_socket' \in Srv..MaxFd
        /\ at' = "scan" => master_socket' = master_socket + 1
    BY <1>1, <1>4, NextSocketType DEF IInv, TypeOK
  <1>6. /\ state' \in [Clients -> {"away", "backlog", "connected", "left"}]
        /\ owner' \in [Fds -> Clients \cup {None}]
        /\ refset' \subseteq Fds \cup {Srv}
    BY <1>1, <1>2, <1>3 DEF IInv, TypeOK
  <1>7. cut' \in [Clients -> BOOLEAN]
    BY <1>1, <1>3, Zenon DEF IInv, TypeOK
  <1>8. TypeOK'
    BY <1>1, <1>4, <1>5, <1>6, <1>7, Zenon DEF IInv, TypeOK
  <1>9. FdmaxCovers'
    <2>1. refset' = {Srv} \cup {f \in Fds : owner'[f] # None}
      BY <1>1, <1>2 DEF IInv, FdmaxCovers, TypeOK
    <2>2. ASSUME NEW f \in refset' PROVE f <= fdmax'
      <3>1. f \in Nat /\ f <= fdmax /\ f # master_socket /\ fdmax \in Nat
        BY <1>1, Numbers DEF IInv, FdmaxCovers, TypeOK
      <3>2. QED  BY <1>1, <3>1
    <2>3. QED  BY <2>1, <2>2 DEF FdmaxCovers
  <1>10. /\ \A f \in Fds : f # master_socket => owner[f] # Peer /\ owner'[f] = owner[f]
         /\ owner'[master_socket] = None
         /\ \A i \in 1..Len(backlog) : backlog[i] # Peer
         /\ \A d \in Clients : d # Peer => state'[d] = state[d] /\ (cut'[d] <=> cut[d])
    <2>1. /\ \A f \in Fds : f # master_socket => owner[f] # Peer
          /\ \A i \in 1..Len(backlog) : backlog[i] # Peer
      BY <1>2, <1>3 DEF Peer, IInv, OneConnection
    <2>2. /\ \A f \in Fds : f # master_socket => owner'[f] = owner[f]
          /\ owner'[master_socket] = None
          /\ \A d \in Clients : d # Peer => state'[d] = state[d]
      BY <1>1, <1>2, <1>3 DEF IInv, TypeOK
    <2>3. \A d \in Clients : d # Peer => (cut'[d] <=> cut[d])
      BY <1>1, <1>3, Zenon DEF IInv, TypeOK
    <2>4. QED  BY <2>1, <2>2, <2>3, Zenon
  <1>11. OneConnection'
    <2>1. owner \in [Fds -> Clients \cup {None}] /\ backlog \in Seq(Clients)
      BY DEF IInv, TypeOK
    <2>2. \A i \in 1..Len(backlog) : backlog[i] \in Clients
      BY <2>1
    <2>3. \A f \in Fds : owner'[f] # None => state'[owner'[f]] \in {"connected", "left"}
      BY <1>10, <2>1 DEF IInv, OneConnection
    <2>4. \A f, g \in Fds : owner'[f] # None /\ owner'[f] = owner'[g] => f = g
      <3> SUFFICES ASSUME NEW f \in Fds, NEW g \in Fds,
                          owner'[f] # None, owner'[f] = owner'[g]
                   PROVE  f = g
        OBVIOUS
      <3>1. owner'[f] = owner[f] /\ owner'[g] = owner[g]
        BY <1>10
      <3>2. QED  BY <3>1 DEF IInv, OneConnection
    <2>5. /\ \A i \in 1..Len(backlog') : state'[backlog'[i]] \in {"backlog", "left"}
          /\ \A i, j \in 1..Len(backlog') : backlog'[i] = backlog'[j] => i = j
      BY <1>1, <1>10, <2>2 DEF IInv, OneConnection
    <2>6. \A i \in 1..Len(backlog'), f \in Fds : owner'[f] # backlog'[i]
      <3>1. None \notin Clients
        BY NoneAssumption
      <3>2. QED  BY <1>1, <1>10, <2>2, <3>1 DEF IInv, OneConnection
    <2>7. QED  BY <2>3, <2>4, <2>5, <2>6 DEF OneConnection
  <1>12. ASSUME NEW f \in Fds, f # master_socket, Readable(f) PROVE Readable(f)'
    <2>1. owner[f] \in Clients /\ owner[f] # Peer /\ owner'[f] = owner[f]
      BY <1>10, <1>12 DEF Readable, IInv, TypeOK
    <2>2. state'[owner[f]] = state[owner[f]] /\ (cut'[owner[f]] <=> cut[owner[f]])
      BY <1>10, <2>1, Zenon
    <2>3. QED  BY <1>1, <1>12, <2>1, <2>2, Zenon DEF Readable
  <1>13. StillReady'
    BY <1>1, <1>5, <1>12, ScanOn
  <1>14. QED  BY <1>8, <1>9, <1>11, <1>13 DEF IInv

LEMMA StepAccept ==
    ASSUME IInv, Accept
    PROVE  IInv'
  <1> DEFINE c == Head(backlog)
  <1>1. PICK newfd \in Smallest(Free) :
          /\ owner' = [owner EXCEPT ![newfd] = c] /\ refset' = refset \cup {newfd}
          /\ fdmax' = IF newfd > fdmax THEN newfd ELSE fdmax
    BY Zenon DEF Accept
  <1>2. /\ at = "scan" /\ master_socket = Srv /\ Srv \in rdset
        /\ state' = [state EXCEPT ![c] = IF state[c] = "left" THEN state[c]
                                                             ELSE "connected"]
        /\ backlog' = Tail(backlog) /\ NextSocket(fdmax')
        /\ UNCHANGED <<inbox, cut, rdset>>
    BY Zenon DEF Accept
  <1>3. newfd \in Fds /\ owner[newfd] = None /\ newfd \in Srv..MaxFd
    BY ServerAssumption DEF Smallest, Free, Fds
  <1>4. /\ backlog \in Seq(Clients) /\ backlog # <<>>
        /\ owner \in [Fds -> Clients \cup {None}]
        /\ state \in [Clients -> {"away", "backlog", "connected", "left"}]
        /\ fdmax \in Srv..MaxFd
    BY <1>1, <1>2 DEF IInv, TypeOK, StillReady
  <1>5. /\ Len(backlog) \in Nat \ {0} /\ 1 \in 1..Len(backlog) /\ c = backlog[1]
        /\ c \in Clients /\ backlog' \in Seq(Clients)
        /\ Len(backlog') = Len(backlog) - 1
        /\ \A i \in 1..Len(backlog') : i + 1 \in 1..Len(backlog)
                                       /\ backlog'[i] = backlog[i + 1]
                                       /\ i + 1 # 1 /\ backlog[i + 1] \in Clients
    BY <1>1, <1>2, <1>4
  <1>6. fdmax' \in Srv..MaxFd /\ fdmax' >= fdmax /\ fdmax' >= newfd
    BY <1>1, <1>2, <1>3, <1>4, ServerAssumption
  <1>7. /\ at' \in {"select", "scan"} /\ master_socket' \in Srv..MaxFd
        /\ at' = "scan" => master_socket' = master_socket + 1
    BY <1>1, <1>2, <1>6, NextSocketType DEF IInv
  <1>8. /\ state' \in [Clients -> {"away", "backlog", "connected", "left"}]
        /\ owner' \in [Fds -> Clients \cup {None}]
        /\ refset' \subseteq Fds \cup {Srv}
        /\ owner'[newfd] = c /\ \A f \in Fds : f # newfd => owner'[f] = owner[f]
        /\ state'[c] \in {"connected", "left"}
        /\ \A d \in Clients : d # c => state'[d] = state[d]
    BY <1>1, <1>2, <1>3, <1>4, <1>5 DEF IInv, TypeOK
  <1>9. TypeOK'
    BY <1>1, <1>2, <1>5, <1>6, <1>7, <1>8, Zenon DEF IInv, TypeOK
  <1>10. None \notin Clients
    BY NoneAssumption
  <1>11. FdmaxCovers'
    <2>1. refset' = {Srv} \cup {f \in Fds : owner'[f] # None}
      BY <1>1, <1>2, <1>3, <1>5, <1>8, <1>10 DEF IInv, FdmaxCovers
    <2>2. ASSUME NEW f \in refset' PROVE f <= fdmax'
      <3>1. f = newfd \/ (f \in refset /\ f <= fdmax /\ f \in Srv..MaxFd)
        BY <1>1, <1>2, Numbers DEF IInv, FdmaxCovers, TypeOK
      <3>2. QED  BY <1>3, <1>4, <1>6, <3>1, ServerAssumption
    <2>3. QED  BY <2>1, <2>2 DEF FdmaxCovers
  <1>12. \A f \in Fds : owner[f] # c
    BY <1>5 DEF IInv, OneConnection
  <1>13. \A i \in 1..Len(backlog') : backlog'[i] # c
    BY <1>5 DEF IInv, OneConnection
  <1>14. OneConnection'
    <2>1. ASSUME NEW f \in Fds, owner'[f] # None
          PROVE  state'[owner'[f]] \in {"connected", "left"}
      <3>1. CASE f = newfd
        BY <1>8, <3>1
      <3>2. CASE f # newfd
        BY <1>4, <1>8, <1>12, <2>1, <3>2 DEF IInv, OneConnection
      <3>3. QED  BY <3>1, <3>2
    <2>2. ASSUME NEW f \in Fds, NEW g \in Fds, owner'[f] # None, owner'[f] = owner'[g]
          PROVE  f = g
      <3>1. CASE f = newfd
        BY <1>8, <1>12, <2>2, <3>1
      <3>2. CASE f # newfd
        <4>1. owner'[f] = owner[f] /\ g # newfd
          BY <1>8, <1>12, <2>2, <3>2
        <4>2. owner'[g] = owner[g]
          BY <1>8, <4>1
        <4>3. QED  BY <2>2, <4>1, <4>2 DEF IInv, OneConnection
      <3>3. QED  BY <3>1, <3>2
    <2>3. \A i \in 1..Len(backlog') : state'[backlog'[i]] \in {"backlog", "left"}
      BY <1>5, <1>8, <1>13 DEF IInv, OneConnection
    <2>4. ASSUME NEW i \in 1..Len(backlog'), NEW j \in 1..Len(backlog'),
                 backlog'[i] = backlog'[j]
          PROVE  i = j
      <3>1. backlog[i + 1] = backlog[j + 1] /\ i + 1 \in 1..Len(backlog)
            /\ j + 1 \in 1..Len(backlog)
        BY <1>5, <2>4
      <3>2. i + 1 = j + 1
        BY <3>1 DEF IInv, OneConnection
      <3>3. QED  BY <3>2
    <2>5. ASSUME NEW i \in 1..Len(backlog'), NEW f \in Fds PROVE owner'[f] # backlog'[i]
      <3>1. backlog'[i] # c /\ backlog'[i] = backlog[i + 1] /\ i + 1 \in 1..Len(backlog)
        BY <1>5, <1>13
      <3>2. owner[f] # backlog'[i]
        BY <3>1 DEF IInv, OneConnection
      <3>3. QED  BY <1>8, <3>1, <3>2
    <2>6. QED  BY <2>1, <2>2, <2>3, <2>4, <2>5 DEF OneConnection
  <1>15. ASSUME NEW f \in Fds, f # master_socket, Readable(f) PROVE Readable(f)'
    <2>1. f # newfd /\ owner'[f] = owner[f] /\ owner[f] \in Clients /\ owner[f] # c
      BY <1>3, <1>4, <1>8, <1>12, <1>15 DEF Readable
    <2>2. state'[owner[f]] = state[owner[f]]
      BY <1>8, <2>1
    <2>3. QED  BY <1>1, <1>2, <1>15, <2>1, <2>2, Zenon DEF Readable
  <1>16. StillReady'
    BY <1>1, <1>2, <1>7, <1>15, ScanOn
  <1>17. QED  BY <1>9, <1>11, <1>14, <1>16 DEF IInv

LEMMA InvariantStep == IInv /\ [Next]_vars => IInv'
  <1> SUFFICES ASSUME IInv, [Next]_vars PROVE IInv'
    OBVIOUS
  <1>1. CASE UNCHANGED vars
    <2>1. UNCHANGED <<peers, backlog, owner, refset, fdmax, loop>>
      BY <1>1 DEF vars
    <2>2. QED
      BY <2>1, Zenon DEF IInv, TypeOK, FdmaxCovers, OneConnection, StillReady,
         Readable, peers, loop
  <1>2. QED
    BY <1>1, StepConnect, StepSendLeave, StepSelect, StepSkip, StepServe, StepClose,
       StepAccept, Zenon DEF Next, Server

LEMMA Invariant == Spec => []IInv
  BY InvariantInit, InvariantStep, PTL DEF Spec

(* The variables keep their types (TypeOK).                                   *)
THEOREM TypeCorrect == Spec => []TypeOK
  <1>1. IInv => TypeOK
    BY DEF IInv
  <1>2. QED  BY <1>1, Invariant, PTL

(* For any number of clients, in any order of accepts, closes and descriptors *)
(* given out again, select() is asked about exactly the open sockets.         *)
THEOREM SelectSeesAll == Spec => []FdmaxCovers
  <1>1. IInv => FdmaxCovers
    BY DEF IInv
  <1>2. QED  BY <1>1, Invariant, PTL

(* The only thread of the server never waits in accept or modbus_receive for  *)
(* a client that does nothing: the others are never kept from their turn.     *)
THEOREM NeverWaits == Spec => []NeverWaitsForOne
  <1>1. IInv => NeverWaitsForOne
    BY Numbers DEF IInv, StillReady, NeverWaitsForOne, TypeOK, Ready
  <1>2. QED  BY <1>1, Invariant, PTL
=============================================================================
