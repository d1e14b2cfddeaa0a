-------------------------- MODULE ModbusTransaction --------------------------
(* One libmodbus client (src/modbus.c) and one server that serves a single   *)
(* connection at a time (tests/sim_controller.c), at the granularity of      *)
(* messages.  A call numbers nothing: `no' is a history number, the wire      *)
(* carries only the 16-bit transaction identifier `tid' of the TCP backend    *)
(* (src/modbus-tcp.c), or nothing at all on a serial line (Tcp = FALSE).      *)
(* A call that failed leaves its request, or the answer to it, in the         *)
(* channels; what the later calls make of it is the subject of this module.   *)
EXTENDS Integers, Sequences

CONSTANTS
    Addrs,      \* register addresses a client may name
    Served,     \* the ones inside the server's mapping
    Vals,       \* register values
    InitVal,    \* value of a register of a new mapping (calloc: 0)
    Tcp,        \* TRUE: TCP backend; FALSE: RTU backend (no transaction id)
    Recovery,   \* ways to recover from errors an application may choose, each
                \* a set of: "link" and "protocol", the modes of
                \* modbus_set_error_recovery, and "application", which calls
                \* modbus_flush between calls
    TidMod,     \* number of transaction identifiers, UINT16_MAX + 1
    MaxLag,     \* bound: no message is older than this many calls
    MaxCalls,   \* bound on the calls of a behaviour
    MaxConns    \* bound on the connections of a behaviour

ASSUME ConstantsAssumption ==
    /\ Served \subseteq Addrs /\ Addrs # {}
    /\ InitVal \in Vals
    /\ Tcp \in BOOLEAN
    /\ Recovery \subseteq SUBSET {"link", "protocol", "application"}
    /\ TidMod \in Nat /\ MaxLag \in Nat /\ 0 < MaxLag /\ MaxLag < TidMod
    /\ MaxCalls \in Nat /\ MaxConns \in Nat \ {0}

Functions == {"read", "write"}  \* 0x03 with nb = 1, 0x06

Requests ==
    [no : Nat, tid : 0..(TidMod - 1), fn : Functions, addr : Addrs, val : Vals]

Indications ==
    [no : Nat, tid : 0..(TidMod - 1), fn : Functions, addr : Addrs, val : Vals,
     conn : Nat]

Confirmations ==
    [no : Nat, tid : 0..(TidMod - 1), fn : Functions, addr : Addrs, val : Vals,
     exc : BOOLEAN]

VARIABLES
    recovery,  \* the one of Recovery the application has chosen
    pc,        \* where the client is: "idle", "send", "wait" or "flush"
    req,       \* the request of the current (or last) call
    ok,        \* the last call returned success
    got,       \* the value it read or wrote
    connected, \* ctx->s >= 0
    conn,      \* number of the client's current (or last) connection
    linkUp,    \* both ends of connection conn still hold it
    c2s,       \* requests on their way to the server, oldest first
    s2c,       \* confirmations on their way to the client, on conn
    rbuf,      \* confirmations in the receive buffer of the client's socket
    sconn,     \* number of the connection the server accepted last
    serving,   \* the server is in its receive loop, on sconn
    regs,      \* tab_registers of the server
    executed   \* history: number of the last request the server executed

client  == <<pc, req, ok, got>>
socket  == <<connected, conn, linkUp>>
channel == <<c2s, s2c, rbuf>>
server  == <<sconn, serving, regs, executed>>
vars    == <<recovery, client, socket, channel, server>>

Link       == "link" \in recovery         \* MODBUS_ERROR_RECOVERY_LINK
Protocol   == "protocol" \in recovery     \* MODBUS_ERROR_RECOVERY_PROTOCOL
AppFlushes == "application" \in recovery

-----------------------------------------------------------------------------
(* The transaction identifier.                                               *)

NextTidNoWrap(t) == t + 1  \* mutant: the wrap at UINT16_MAX is forgotten

NextTidConstant(t) == t    \* mutant: t_id is not incremented

NextTid(t) == IF t < TidMod - 1 THEN t + 1 ELSE 0

Init ==
    /\ recovery \in Recovery
    /\ pc = "idle" /\ ok = FALSE /\ got = InitVal
    /\ req = [no |-> 0, tid |-> 0, fn |-> "read",
              addr |-> CHOOSE a \in Addrs : TRUE, val |-> InitVal]
    /\ connected = TRUE /\ conn = 1 /\ linkUp = TRUE
    /\ c2s = <<>> /\ s2c = <<>> /\ rbuf = <<>>
    /\ sconn = 0 /\ serving = FALSE
    /\ regs = [a \in Served |-> InitVal] /\ executed = 0

-----------------------------------------------------------------------------
(* Connections.  Closing one end loses the confirmations on it; a suffix of   *)
(* the requests on it may be lost, the server still reads the rest.           *)

RequestsSurvivingClose ==
    {SubSeq(c2s, 1, n) : n \in {k \in 0..Len(c2s) :
        \A i \in (k + 1)..Len(c2s) : c2s[i].conn = conn}}

Close ==  \* modbus_close, with the connection's fate
    /\ IF linkUp THEN c2s' \in RequestsSurvivingClose ELSE c2s' = c2s
    /\ s2c' = <<>> /\ rbuf' = <<>>

Connect ==  \* modbus_connect, after a close
    \/ /\ conn < MaxConns
       /\ connected' = TRUE /\ conn' = conn + 1 /\ linkUp' = TRUE
    \/ connected' = FALSE /\ conn' = conn /\ linkUp' = FALSE

-----------------------------------------------------------------------------
(* The client.                                                                *)

Fail == pc' = "idle" /\ ok' = FALSE /\ UNCHANGED <<req, got>>

Succeed(v) == pc' = "idle" /\ ok' = TRUE /\ got' = v /\ UNCHANGED req

\* mutant: the test of error_recovery is forgotten
FlushAlways(flush) == pc' = "flush" /\ UNCHANGED <<req, ok, got>>

\* sleep for the response timeout, then modbus_flush, then fail
FlushOrFail(flush) ==
    IF flush THEN pc' = "flush" /\ UNCHANGED <<req, ok, got>> ELSE Fail

Recent(q) == \A i \in 1..Len(q) : req.no + 1 - q[i].no <= MaxLag

Call(fn, a, v) ==
    /\ pc = "idle" /\ req.no < MaxCalls
    /\ Recent(c2s) /\ Recent(s2c) /\ Recent(rbuf)
    /\ req' = [no |-> req.no + 1, tid |-> NextTid(req.tid),
               fn |-> fn, addr |-> a, val |-> v]
    /\ pc' = "send" /\ ok' = FALSE
    /\ UNCHANGED <<recovery, got, socket, channel, server>>

Indication == [no |-> req.no, tid |-> req.tid, fn |-> req.fn,
               addr |-> req.addr, val |-> req.val, conn |-> conn]

\* modbus_read_registers with nb = 1, modbus_write_register
ReadRegister(a) == Call("read", a, InitVal)

WriteRegister(a, v) == Call("write", a, v)

\* mutant: the loop of send_msg goes round again after a success
SendAgain ==
    /\ pc = "send" /\ connected
    /\ c2s' = IF linkUp THEN Append(c2s, Indication) ELSE c2s
    /\ pc' \in {"wait", "send"}
    /\ UNCHANGED <<recovery, req, ok, got, s2c, rbuf, socket, server>>

\* send() accepted the request: it is on its way, or nobody will ever read it
Send ==
    /\ pc = "send" /\ connected
    /\ c2s' = IF linkUp THEN Append(c2s, Indication) ELSE c2s
    /\ pc' = "wait"
    /\ UNCHANGED <<recovery, req, ok, got, s2c, rbuf, socket, server>>

\* send() failed with EBADF, ECONNRESET or EPIPE
SendBroken ==
    /\ pc = "send" /\ ~(connected /\ linkUp)
    /\ IF Link
       THEN Close /\ Connect /\ UNCHANGED client
       ELSE Fail /\ UNCHANGED <<socket, channel>>
    /\ UNCHANGED <<recovery, server>>

\* send() failed otherwise (a full socket buffer)
SendRefused ==
    /\ pc = "send" /\ connected /\ linkUp
    /\ IF Link THEN rbuf' = <<>> /\ UNCHANGED client
               ELSE Fail /\ UNCHANGED rbuf
    /\ UNCHANGED <<recovery, c2s, s2c, socket, server>>

\* mutant: the confirmation is waited for without a timeout
ReceiveForEver == pc = "wait" /\ rbuf = <<>> /\ UNCHANGED vars

\* select() timed out
ReceiveTimeout ==
    /\ pc = "wait" /\ rbuf = <<>>
    /\ FlushOrFail(Link)
    /\ UNCHANGED <<recovery, socket, channel, server>>

\* recv() returned 0 or ECONNRESET: one reconnection, the call still fails
ReceiveReset ==
    /\ pc = "wait" /\ rbuf = <<>> /\ ~linkUp
    /\ IF Link THEN Close /\ Connect ELSE UNCHANGED <<socket, channel>>
    /\ Fail
    /\ UNCHANGED <<recovery, server>>

\* mutant: the transaction identifier is not compared
TidIgnored(rsp) == Tcp => rsp.tid \in 0..(TidMod - 1)

\* pre_check_confirmation
TidAccepted(rsp) == Tcp => rsp.tid = req.tid

\* check_confirmation: a write echoes address and data, a read only a count
EchoAccepted(rsp) ==
    req.fn = "write" => rsp.addr = req.addr /\ rsp.val = req.val

Receive ==
    /\ pc = "wait" /\ rbuf # <<>>
    /\ rbuf' = Tail(rbuf)
    /\ LET rsp == Head(rbuf) IN
       \/ ~TidAccepted(rsp) /\ FlushOrFail(Protocol)
       \/ TidAccepted(rsp) /\ rsp.exc /\ Fail
       \/ /\ TidAccepted(rsp) /\ ~rsp.exc
          /\ IF rsp.fn = req.fn /\ EchoAccepted(rsp)
             THEN Succeed(rsp.val)
             ELSE FlushOrFail(Protocol)
    /\ UNCHANGED <<recovery, c2s, s2c, socket, server>>

\* mutant: modbus_flush goes on until recv() returns 0
FlushForEver ==
    /\ pc = "flush" /\ rbuf' = <<>>
    /\ UNCHANGED <<recovery, client, c2s, s2c, socket, server>>

Flush ==
    /\ pc = "flush" /\ rbuf' = <<>>
    /\ Fail
    /\ UNCHANGED <<recovery, c2s, s2c, socket, server>>

\* the application between two calls: modbus_flush; modbus_close, modbus_connect
AppFlush ==
    /\ AppFlushes /\ pc = "idle" /\ rbuf # <<>>
    /\ rbuf' = <<>>
    /\ UNCHANGED <<recovery, client, c2s, s2c, socket, server>>

AppReconnect ==
    /\ Tcp /\ pc = "idle" /\ conn < MaxConns
    /\ Close /\ Connect
    /\ UNCHANGED <<recovery, client, server>>

-----------------------------------------------------------------------------
(* The network.                                                               *)

Deliver ==
    /\ s2c # <<>>
    /\ rbuf' = Append(rbuf, Head(s2c)) /\ s2c' = Tail(s2c)
    /\ UNCHANGED <<recovery, c2s, client, socket, server>>

\* The connection breaks and both ends will see it.
Break ==
    /\ Tcp /\ linkUp /\ conn < MaxConns
    /\ linkUp' = FALSE
    /\ c2s' \in RequestsSurvivingClose
    /\ s2c' = <<>> /\ rbuf' \in {rbuf, <<>>}
    /\ UNCHANGED <<recovery, client, connected, conn, server>>

-----------------------------------------------------------------------------
(* The server.                                                                *)

\* requests left once the server has closed every connection up to s
AfterClosing(s, q) ==
    {SubSeq(q, n + 1, Len(q)) : n \in {k \in 0..Len(q) :
        /\ \A i \in 1..k : q[i].conn <= s
        /\ \A i \in (k + 1)..Len(q) : q[i].conn > s}}

\* modbus_tcp_accept: the oldest connection in the backlog, which may have
\* been aborted meanwhile
Accept ==
    /\ ~serving /\ sconn < conn
    /\ sconn' = sconn + 1
    /\ \/ serving' = TRUE /\ UNCHANGED c2s
       \/ /\ sconn + 1 < conn \/ ~linkUp
          /\ serving' = FALSE /\ c2s' \in AfterClosing(sconn + 1, c2s)
    /\ UNCHANGED <<recovery, s2c, rbuf, client, socket, regs, executed>>

\* mutant: the server goes on receiving from a connection that has ended
KeepClient ==
    /\ serving
    /\ c2s # <<>> => Head(c2s).conn # sconn
    /\ sconn < conn \/ ~linkUp
    /\ UNCHANGED vars

\* modbus_receive fails: the peer has gone and everything it sent was read
CloseClient ==
    /\ serving
    /\ c2s # <<>> => Head(c2s).conn # sconn
    /\ sconn < conn \/ ~linkUp
    /\ serving' = FALSE
    /\ UNCHANGED <<recovery, sconn, regs, executed, client, socket, channel>>

\* modbus_reply builds the confirmation
Confirmation(m) ==
    [no |-> m.no, tid |-> m.tid, fn |-> m.fn, addr |-> m.addr,
     val |-> IF m.fn = "read" /\ m.addr \in Served THEN regs[m.addr] ELSE m.val,
     exc |-> m.addr \notin Served]

Serve ==
    /\ serving /\ c2s # <<>> /\ Head(c2s).conn = sconn
    /\ LET m == Head(c2s) IN
       /\ regs' = IF m.fn = "write" /\ m.addr \in Served
                  THEN [regs EXCEPT ![m.addr] = m.val] ELSE regs
       /\ executed' = m.no
       /\ IF sconn = conn /\ linkUp
          THEN /\ s2c' = Append(s2c, Confirmation(m))
               /\ c2s' = Tail(c2s) /\ UNCHANGED serving
          ELSE /\ UNCHANGED s2c
               /\ \/ c2s' = Tail(c2s) /\ UNCHANGED serving
                  \/ c2s' \in AfterClosing(sconn, Tail(c2s)) /\ serving' = FALSE
    /\ UNCHANGED <<recovery, rbuf, sconn, client, socket>>

-----------------------------------------------------------------------------

ClientStep ==
    \/ Send \/ SendBroken \/ SendRefused
    \/ ReceiveTimeout \/ ReceiveReset \/ Receive \/ Flush

ServerStep == Accept \/ CloseClient \/ Serve

Next ==
    \/ \E a \in Addrs : ReadRegister(a)
    \/ \E a \in Addrs, v \in Vals : WriteRegister(a, v)
    \/ ClientStep
    \/ AppFlush \/ AppReconnect
    \/ Deliver \/ Break
    \/ ServerStep

Spec == Init /\ [][Next]_vars

\* The client is a running thread whose timeouts expire.  Nothing is asked of
\* the server and the network.
FairSpec == Spec /\ WF_vars(ClientStep)

\* With LINK, send_msg retries for ever: it needs a network that carries a
\* request or lets a connection through again and again.
FairLinkSpec ==
    /\ FairSpec
    /\ SF_vars(Send) /\ SF_vars(SendBroken /\ connected')

\* Besides, the server process keeps calling accept and receive.
FairServerSpec == FairLinkSpec /\ WF_vars(ServerStep)

-----------------------------------------------------------------------------
(* Properties.                                                                *)

TypeOK ==
    /\ recovery \in Recovery
    /\ pc \in {"idle", "send", "wait", "flush"}
    /\ req \in Requests /\ ok \in BOOLEAN /\ got \in Vals
    /\ connected \in BOOLEAN /\ conn \in Nat \ {0} /\ linkUp \in BOOLEAN
    /\ c2s \in Seq(Indications)
    /\ s2c \in Seq(Confirmations) /\ rbuf \in Seq(Confirmations)
    /\ sconn \in Nat /\ serving \in BOOLEAN
    /\ regs \in [Served -> Vals] /\ executed \in Nat

(* When a call has returned success, the register it names holds, at the      *)
(* server, the value it read or wrote: no confirmation of an earlier call is  *)
(* taken for its own, and no request of an earlier call that had failed is    *)
(* executed after it (check_confirmation, pre_check_confirmation and the      *)
(* one-connection-at-a-time loop of sim_controller.c).                        *)
AckedMatchesServer ==
    pc = "idle" /\ ok => req.addr \in Served /\ regs[req.addr] = got

(* After a successful call nothing of any earlier call is left on the way, so *)
(* no failed write can still take effect (the retries of send_msg, the        *)
(* leftovers of calls that timed out).                                        *)
SuccessDrains ==
    pc = "idle" /\ ok => c2s = <<>> /\ s2c = <<>> /\ rbuf = <<>>

(* The server executes the requests of a client in the order of the calls and *)
(* each at most once, whatever send_msg resends and whichever connections     *)
(* break (send_msg, main of sim_controller.c).                                *)
ExecutedInOrder ==
    [][Serve \/ regs' # regs => executed' > executed]_vars

\* the request of call n, or its confirmation, is on the client's connection
OnTheWay(n) ==
    \/ \E i \in 1..Len(c2s) : c2s[i].no = n /\ c2s[i].conn = conn
    \/ \E i \in 1..Len(s2c) : s2c[i].no = n
    \/ \E i \in 1..Len(rbuf) : rbuf[i].no = n

\* that of a call which has returned is
OutOfStep ==
    /\ connected /\ linkUp
    /\ \E n \in 0..req.no : OnTheWay(n) /\ (n < req.no \/ pc = "idle")

(* Without error recovery and without modbus_flush, a late confirmation is    *)
(* never got rid of: each later call on that connection consumes the          *)
(* confirmation of an earlier one and fails (docs/modbus_set_error_recovery:  *)
(* the application is responsible; check_confirmation does not flush).        *)
OutOfStepForGood ==
    [][recovery = {} /\ OutOfStep /\ conn' = conn /\ linkUp' /\ connected'
         => OutOfStep' /\ ~(ok' /\ ~ok)]_vars

(* A call that returns success returns the confirmation of the register it    *)
(* names: docs/modbus_read_registers, "shall read the content of the nb       *)
(* holding registers to the address addr of the remote device".               *)
ReadsItsRegister ==
    [][pc = "wait" /\ pc' = "idle" /\ ok' => Head(rbuf).addr = req.addr]_vars

(* Every call returns: send_msg's loop, the receive timeout and the flush all *)
(* end (_modbus_receive_msg, send_msg).                                       *)
CallReturns == pc # "idle" ~> pc = "idle"

(* The requests on their way are executed or lost with their connection: the  *)
(* server never waits for ever on a dead connection while another one holds a *)
(* request (accept loop of sim_controller.c).  The calls being bounded, none  *)
(* is left in the end.                                                        *)
RequestsLeave == c2s # <<>> ~> c2s = <<>>

\* what RemoteRegisters knows of a message, of the client, and of the calls
\* whose requests are neither executed nor lost
Bare(m) == [no |-> m.no, fn |-> m.fn, addr |-> m.addr, val |-> m.val]

callState == IF pc = "idle" THEN "idle" ELSE "called"

pendingCalls ==
    {Bare(c2s[i]) : i \in 1..Len(c2s)}
        \cup (IF pc = "send" THEN {Bare(req)} ELSE {})

Remote == INSTANCE RemoteRegisters
            WITH state <- callState, call <- Bare(req), pending <- pendingCalls

(* Calls over TCP are what RemoteRegisters promises: a success means that the *)
(* call took effect while it was made and that nothing older still can, and   *)
(* the effects are those of calls, at most one each and in order, whatever is *)
(* sent again, late, lost or left behind by failures (send_msg,               *)
(* _modbus_receive_msg, check_confirmation, modbus_reply).                    *)
ImplementsRemote == Remote!Spec
=============================================================================
