----------------------------- MODULE ManyUpServer -----------------------------
(* tests/bandwidth-server-many-up.c: one thread, one modbus_t and select()    *)
(* serve many connections.  The descriptors below the listening socket are    *)
(* the standard streams and never in a set.                                   *)
EXTENDS Integers, Sequences, FiniteSets

CONSTANTS
    Clients,
    Srv,       \* the listening socket
    MaxFd,     \* the largest descriptor the process may have
    MaxInbox   \* bound on the requests that wait in a connection

ASSUME ServerAssumption ==
    Srv \in Nat /\ MaxFd \in Nat /\ Srv < MaxFd /\ MaxInbox \in Nat \ {0}

Fds == (Srv + 1)..MaxFd
None == "none"

ASSUME NoneAssumption == None \notin Clients

VARIABLES
    state,   \* of a client: "away", "backlog", "connected", "left"
    inbox,   \* whole requests it has sent that were not received
    cut,     \* and behind them something that never becomes a request
    backlog, \* connections to accept, oldest first
    owner,   \* descriptor -> client, or None when it is closed
    refset, rdset, fdmax,
    at,      \* "select", or "scan": the for loop is
    master_socket

peers  == <<state, inbox, cut>>
loop   == <<rdset, at, master_socket>>
vars   == <<peers, backlog, owner, refset, fdmax, loop>>

Init ==
    /\ state = [c \in Clients |-> "away"]
    /\ inbox = [c \in Clients |-> 0] /\ cut = [c \in Clients |-> FALSE]
    /\ backlog = <<>> /\ owner = [f \in Fds |-> None]
    /\ refset = {Srv} /\ rdset = {} /\ fdmax = Srv
    /\ at = "select" /\ master_socket = Srv

-----------------------------------------------------------------------------
(* The clients.                                                               *)

Connect(c) ==
    /\ state[c] = "away"
    /\ state' = [state EXCEPT ![c] = "backlog"] /\ backlog' = Append(backlog, c)
    /\ UNCHANGED <<inbox, cut, owner, refset, fdmax, loop>>

Send(c) ==
    /\ state[c] \in {"backlog", "connected"} /\ inbox[c] < MaxInbox /\ ~cut[c]
    /\ \/ inbox' = [inbox EXCEPT ![c] = @ + 1] /\ UNCHANGED cut
       \/ cut' = [cut EXCEPT ![c] = TRUE] /\ UNCHANGED inbox
    /\ UNCHANGED <<state, backlog, owner, refset, fdmax, loop>>

Leave(c) ==
    /\ state[c] \in {"backlog", "connected"}
    /\ state' = [state EXCEPT ![c] = "left"]
    /\ UNCHANGED <<inbox, cut, backlog, owner, refset, fdmax, loop>>

-----------------------------------------------------------------------------
(* The server.                                                                *)

Readable(f) == owner[f] # None
                 /\ (inbox[owner[f]] > 0 \/ cut[owner[f]] \/ state[owner[f]] = "left")

Ready == {f \in Fds : Readable(f)} \cup (IF backlog # <<>> THEN {Srv} ELSE {})

\* mutant: the set of an earlier round is not replaced
SelectKeeps ==
    /\ at = "select" /\ Ready \cap refset \cap (0..fdmax) # {}
    /\ rdset' = rdset \cup (Ready \cap refset \cap (0..fdmax))
    /\ at' = "scan" /\ master_socket' = Srv
    /\ UNCHANGED <<peers, backlog, owner, refset, fdmax>>

\* mutant: the for loop begins behind the listening socket
SelectBehind ==
    /\ at = "select" /\ Ready \cap refset \cap (0..fdmax) # {}
    /\ rdset' = Ready \cap refset \cap (0..fdmax)
    /\ at' = "scan" /\ master_socket' = Srv + 1
    /\ UNCHANGED <<peers, backlog, owner, refset, fdmax>>

\* select(fdmax + 1, &rdset, ...)
Select ==
    /\ at = "select" /\ Ready \cap refset \cap (0..fdmax) # {}
    /\ rdset' = Ready \cap refset \cap (0..fdmax)
    /\ at' = "scan" /\ master_socket' = Srv
    /\ UNCHANGED <<peers, backlog, owner, refset, fdmax>>

\* mutant: the for loop ends after one descriptor
OneARound(m) == at' = "select" /\ master_socket' = Srv

\* mutant: the for loop ends one descriptor late
OneMore(m) ==
    IF master_socket <= m
    THEN at' = at /\ master_socket' = master_socket + 1
    ELSE at' = "select" /\ master_socket' = Srv

\* master_socket++, and the test of the for loop against the fdmax of now
NextSocket(m) ==
    IF master_socket < m
    THEN at' = at /\ master_socket' = master_socket + 1
    ELSE at' = "select" /\ master_socket' = Srv

Skip ==
    /\ at = "scan" /\ master_socket \notin rdset
    /\ NextSocket(fdmax)
    /\ UNCHANGED <<peers, backlog, owner, refset, rdset, fdmax>>

Free == {f \in Fds : owner[f] = None}

Smallest(S) == {f \in S : \A g \in S : f <= g}

\* mutant: the maximum is not kept
AcceptLow ==
    /\ at = "scan" /\ master_socket = Srv /\ Srv \in rdset
    /\ \E newfd \in Smallest(Free) :
         /\ owner' = [owner EXCEPT ![newfd] = Head(backlog)]
         /\ refset' = refset \cup {newfd}
    /\ state' = [state EXCEPT ![Head(backlog)] = IF @ = "left" THEN @ ELSE "connected"]
    /\ backlog' = Tail(backlog) /\ fdmax' = fdmax
    /\ NextSocket(fdmax')
    /\ UNCHANGED <<inbox, cut, rdset>>

\* accept(): the smallest free descriptor
Accept ==
    /\ at = "scan" /\ master_socket = Srv /\ Srv \in rdset
    /\ \E newfd \in Smallest(Free) :
         /\ owner' = [owner EXCEPT ![newfd] = Head(backlog)]
         /\ refset' = refset \cup {newfd}
         /\ fdmax' = IF newfd > fdmax THEN newfd ELSE fdmax
    /\ state' = [state EXCEPT ![Head(backlog)] = IF @ = "left" THEN @ ELSE "connected"]
    /\ backlog' = Tail(backlog)
    /\ NextSocket(fdmax')
    /\ UNCHANGED <<inbox, cut, rdset>>

AcceptFails ==  \* no descriptor is left
    /\ at = "scan" /\ master_socket = Srv /\ Srv \in rdset /\ Free = {}
    /\ NextSocket(fdmax)
    /\ UNCHANGED <<peers, backlog, owner, refset, rdset, fdmax>>

Peer == owner[master_socket]  \* modbus_set_socket

\* modbus_receive and modbus_reply; the result of the latter is not used
Serve ==
    /\ at = "scan" /\ master_socket \in rdset \ {Srv}
    /\ inbox[Peer] > 0 /\ inbox' = [inbox EXCEPT ![Peer] = @ - 1]
    /\ NextSocket(fdmax)
    /\ UNCHANGED <<state, cut, backlog, owner, refset, rdset, fdmax>>

\* modbus_receive fails: the peer has gone, or the byte timeout expires
Close ==
    /\ at = "scan" /\ master_socket \in rdset \ {Srv}
    /\ inbox[Peer] = 0 /\ (state[Peer] = "left" \/ cut[Peer])
    /\ owner' = [owner EXCEPT ![master_socket] = None]
    /\ state' = [state EXCEPT ![Peer] = "away"] /\ cut' = [cut EXCEPT ![Peer] = FALSE]
    /\ refset' = refset \ {master_socket}
    /\ fdmax' = IF master_socket = fdmax THEN fdmax - 1 ELSE fdmax
    /\ NextSocket(fdmax')
    /\ UNCHANGED <<inbox, backlog, rdset>>

Server == Select \/ Skip \/ Accept \/ AcceptFails \/ Serve \/ Close

Next == Server \/ \E c \in Clients : Connect(c) \/ Send(c) \/ Leave(c)

Spec == Init /\ [][Next]_vars

\* the server is a running thread; nothing is asked of the clients
FairSpec == Spec /\ WF_vars(Server)

-----------------------------------------------------------------------------
(* Properties.                                                                *)

TypeOK ==
    /\ state \in [Clients -> {"away", "backlog", "connected", "left"}]
    /\ inbox \in [Clients -> 0..MaxInbox] /\ cut \in [Clients -> BOOLEAN]
    /\ backlog \in Seq(Clients) /\ owner \in [Fds -> Clients \cup {None}]
    /\ refset \subseteq Fds \cup {Srv} /\ rdset \subseteq Fds \cup {Srv}
    /\ fdmax \in Srv..MaxFd /\ at \in {"select", "scan"}
    /\ master_socket \in Srv..MaxFd

(* The set given to select() holds exactly the open sockets, and fdmax is     *)
(* never below one of them, although it is only decremented by one when the   *)
(* largest descriptor is closed and descriptors are used again (main).        *)
FdmaxCovers ==
    /\ refset = {Srv} \cup {f \in Fds : owner[f] # None}
    /\ \A f \in refset : f <= fdmax

(* The thread never waits in accept or in modbus_receive for one client,      *)
(* which would stop the service of all the others: a socket it handles has    *)
(* something to take, also when sockets were closed and descriptors were      *)
(* given out again since select() returned (main; modbus_receive has no       *)
(* indication timeout).                                                       *)
NeverWaitsForOne ==
    at = "scan" /\ master_socket \in rdset => master_socket \in Ready

(* A connection with something to read gets its turn: the loop comes to it    *)
(* and finds it in the set of select(), however much the others send, and     *)
(* while no descriptor is left and a connection that cannot be accepted keeps *)
(* select() awake (the for loop of main).                                     *)
Turn == \A f \in Fds :
    Readable(f) ~> at = "scan" /\ master_socket = f /\ f \in rdset

(* A connection that waits to be accepted does not stay behind when a         *)
(* descriptor is free, also when accept() has failed for want of one before   *)
(* (the branch of server_socket in main).                                     *)
PendingAccepted == \A c \in Clients :
    backlog # <<>> /\ Head(backlog) = c /\ Free # {} ~> \E f \in Fds : owner[f] = c
=============================================================================
