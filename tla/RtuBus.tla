------------------------------- MODULE RtuBus -------------------------------
(* A serial line with one master and several slaves (src/modbus-rtu.c).        *)
(* Every slave hears the requests for all slaves and the confirmations of      *)
(* the others, and has nothing but the order of the messages to tell a         *)
(* request from a confirmation: after a request for another slave it takes     *)
(* the next message for the confirmation (confirmation_to_ignore).  The slaves *)
(* run the loop of tests/random-test-server.c, without error recovery.         *)
(* Messages carry no identifier; `no', the number of the call, is history.     *)
EXTENDS Integers, Sequences

CONSTANTS
    Slaves,       \* numbers of the slaves that may be on the line
    Vals,         \* register values; each slave serves one register
    InitVal,      \* its first value
    MaxCalls,     \* bound on the calls of a behaviour
    MaxBacklog,   \* bound: no call while a slave has more unread messages
    MaxNoise      \* bound on the corrupted messages of a behaviour

Broadcast == 0    \* MODBUS_BROADCAST_ADDRESS

Numbers == Slaves \cup {Broadcast}

ASSUME ConstantsAssumption ==
    /\ Slaves \subseteq Nat \ {0} /\ Slaves # {}
    /\ InitVal \in Vals
    /\ MaxCalls \in Nat /\ MaxBacklog \in Nat /\ MaxNoise \in Nat

\* a message has at most 10 bytes, and a listener reads at least 4
Pieces == 2

Functions == {"read", "write", "mask"}  \* 0x03 with nb = 1, 0x06, 0x16

\* "junk" are the bytes of a message whose length a listener cannot tell: one
\* that was disturbed in its function code or byte count, or what is left of a
\* message that was cut at a wrong length; `no' then bounds the pieces it can
\* still be cut into.
Frames == [kind : {"ind", "con", "junk"}, no : Nat, slave : Numbers,
           fn : Functions, val : Vals, crc : BOOLEAN]

(* What is known about the timeouts, chosen once:                              *)
(*   prompt: all are long compared to a slave's answer, and a slave's wait for *)
(*           a confirmation ends before the master sends its next request;     *)
(*   slow:   an answer may miss the response timeout, but it arrives while the *)
(*           master sleeps for another one before a flush;                     *)
(*   late:   nothing.                                                          *)
Timings == {"prompt", "slow", "late"}

VARIABLES
    timing,    \* one of Timings
    recovery,  \* the master has set both modes of error recovery
    pc,        \* the master: "idle", "wait" or "flush"
    req,       \* the request of the current (or last) call
    ok, got,   \* it returned success, and the value it read or wrote
    mbuf,      \* what the master has not read yet
    up,        \* slaves that are on the line and in their loop
    rx,        \* what each slave has not read yet
    ignore,    \* confirmation_to_ignore of each slave
    regs,      \* register of each slave
    executed,  \* history: number of the last request each slave executed
    noise,     \* number of messages corrupted so far
    torn       \* history: a confirmation reached the master as junk, and the
               \* line has not been silent at the end of a call since

master == <<pc, req, ok, got>>
slaves == <<up, regs, executed>>
config == <<timing, recovery>>
vars   == <<config, master, mbuf, slaves, rx, ignore, noise, torn>>

Init ==
    /\ timing \in Timings /\ recovery \in BOOLEAN
    /\ pc = "idle" /\ ok = FALSE /\ got = InitVal
    /\ req = [kind |-> "ind", no |-> 0, slave |-> Broadcast, fn |-> "read",
              val |-> InitVal, crc |-> TRUE]
    /\ mbuf = <<>>
    /\ up \in SUBSET Slaves \ {{}}
    /\ rx = [s \in Slaves |-> <<>>]
    /\ ignore = [s \in Slaves |-> FALSE]
    /\ regs = [s \in Slaves |-> InitVal]
    /\ executed = [s \in Slaves |-> 0]
    /\ noise = 0 /\ torn = FALSE

-----------------------------------------------------------------------------
(* The line.                                                                   *)

Junk(n) == [kind |-> "junk", no |-> n, slave |-> Broadcast, fn |-> "read",
            val |-> InitVal, crc |-> FALSE]

\* What a listener makes of a message that was disturbed.  The checksum does not
\* fit, and the number of the slave may be another; _modbus_receive_msg works
\* out the length before the checksum is looked at, so that a disturbed
\* function code or byte count makes the message longer or shorter.
Disturbed(m) ==
    {[m EXCEPT !.crc = FALSE, !.slave = n] : n \in Slaves} \cup {Junk(Pieces)}

\* What can be left of q when a message of unknown length is read from junk at
\* its head: a smaller piece of it, or it is eaten, with any number of the
\* messages behind it, of which the last may be cut.
RestsOfJunk(q) ==
    {SubSeq(q, n, Len(q)) : n \in 2..(Len(q) + 1)}
        \cup {<<Junk(Pieces)>> \o SubSeq(q, n, Len(q)) : n \in 3..(Len(q) + 1)}
        \cup (IF q[1].no = 0 THEN {} ELSE {<<Junk(q[1].no - 1)>> \o Tail(q)})

\* the queues when the slaves of D hear m, but t hears d
Spread(D, m, t, d) ==
    [s \in Slaves |-> IF s \notin D THEN rx[s]
                      ELSE Append(rx[s], IF s = t THEN d ELSE m)]

Disturb == noise < MaxNoise /\ noise' = noise + 1

\* every slave hears the master, at most one of them something else
Hears(m) ==
    \/ rx' = Spread(up, m, Broadcast, m) /\ UNCHANGED noise
    \/ Disturb /\ \E t \in up, d \in Disturbed(m) : rx' = Spread(up, m, t, d)

Quiet == \A s \in Slaves : rx[s] = <<>>

-----------------------------------------------------------------------------
(* The master.                                                                 *)

Fail == pc' = "idle" /\ ok' = FALSE /\ UNCHANGED <<req, got>>

FlushOrFail(flush) ==
    IF flush THEN pc' = "flush" /\ UNCHANGED <<req, ok, got>> ELSE Fail

\* modbus_set_slave, then modbus_read_registers, modbus_write_register or
\* modbus_mask_write_register (with an and_mask of 0)
Call(s, fn, v) ==
    /\ pc = "idle" /\ req.no < MaxCalls
    /\ \A t \in Slaves : Len(rx[t]) <= MaxBacklog
    /\ timing = "prompt" =>
         \A t \in up : ignore[t] => rx[t] # <<>>
    /\ pc' = "wait" /\ ok' = FALSE
    /\ req' = [kind |-> "ind", no |-> req.no + 1, slave |-> s, fn |-> fn,
               val |-> v, crc |-> TRUE]
    /\ Hears(req')
    /\ got' = InitVal
    /\ UNCHANGED <<config, mbuf, slaves, ignore, torn>>

\* select() timed out
ReceiveTimeout ==
    /\ pc = "wait" /\ mbuf = <<>>
    /\ timing = "prompt" => Quiet
    /\ FlushOrFail(recovery)
    /\ torn' = (torn /\ ~Quiet)
    /\ UNCHANGED <<config, mbuf, slaves, rx, ignore, noise>>

\* the slave filter of check_integrity, then pre_check_confirmation
FromMySlave(m) == m.slave = req.slave

\* check_confirmation: a write echoes its value; the masks are not compared
Corresponds(m) ==
    m.fn = req.fn /\ (m.fn = "write" => m.val = req.val)

\* Junk is read with another length: too many data, another slave, a bad
\* checksum, or the byte timeout.  A bad checksum is flushed at once, when the
\* rest of the message may still be on its way.
Misread ==
    /\ mbuf' \in RestsOfJunk(mbuf)
    /\ Fail \/ FlushOrFail(recovery)

\* a bad checksum: the error recovery flushes at once
BadChecksum(m) ==
    /\ FromMySlave(m) /\ ~m.crc
    /\ mbuf' = IF recovery THEN <<>> ELSE Tail(mbuf)
    /\ Fail

WrongAnswer(m) ==
    /\ IF FromMySlave(m) THEN m.crc /\ ~Corresponds(m) ELSE TRUE
    /\ mbuf' = Tail(mbuf)
    /\ FlushOrFail(recovery)

RightAnswer(m) ==
    /\ FromMySlave(m) /\ m.crc /\ Corresponds(m)
    /\ mbuf' = Tail(mbuf)
    /\ pc' = "idle" /\ ok' = TRUE /\ UNCHANGED req
    /\ got' = IF m.fn = "read" THEN m.val ELSE req.val

Receive ==
    /\ pc = "wait" /\ mbuf # <<>>
    /\ IF Head(mbuf).kind = "junk" THEN Misread
       ELSE \/ BadChecksum(Head(mbuf))
            \/ WrongAnswer(Head(mbuf))
            \/ RightAnswer(Head(mbuf))
    /\ UNCHANGED <<config, slaves, rx, ignore, noise, torn>>

\* mutant: modbus_flush before the sleep instead of after it
FlushAtOnce ==
    /\ pc = "flush" /\ mbuf' = <<>>
    /\ Fail
    /\ torn' = (torn /\ ~Quiet)
    /\ UNCHANGED <<config, slaves, rx, ignore, noise>>

\* _sleep_response_timeout, modbus_flush
Flush ==
    /\ pc = "flush" /\ mbuf' = <<>>
    /\ timing # "late" => Quiet
    /\ Fail
    /\ torn' = (torn /\ ~Quiet)
    /\ UNCHANGED <<config, slaves, rx, ignore, noise>>

-----------------------------------------------------------------------------
(* A slave: one call of modbus_receive, and modbus_reply.                      *)

Read(s, rest) == rx' = [rx EXCEPT ![s] = rest]

\* the message s reads next, and those behind it
First(s) == Head(rx[s])
Rest(s) == Tail(rx[s])

\* _modbus_rtu_receive waits for a confirmation of another slave: whatever
\* comes is dropped.  A request that the length tables take for a shorter
\* confirmation is cut.
IgnoreMessage(s) ==
    /\ s \in up /\ ignore[s] /\ rx[s] # <<>>
    /\ IF First(s).kind = "junk"
       THEN \E q \in RestsOfJunk(rx[s]) : Read(s, q)
       ELSE IF First(s).kind = "ind" /\ First(s).fn = "read"
            THEN Read(s, <<Junk(Pieces)>> \o Rest(s))
            ELSE Read(s, Rest(s))
    /\ ignore' = [ignore EXCEPT ![s] = FALSE]
    /\ UNCHANGED <<config, master, mbuf, slaves, noise, torn>>

\* mutant: the flag is reset only by a message
IgnoreForEver(s) ==
    /\ s \in up /\ ignore[s] /\ rx[s] = <<>>
    /\ timing = "prompt" => Quiet
    /\ UNCHANGED vars

\* or nothing comes within the slave's response timeout
IgnoreTimeout(s) ==
    /\ s \in up /\ ignore[s] /\ rx[s] = <<>>
    /\ timing = "prompt" => Quiet
    /\ ignore' = [ignore EXCEPT ![s] = FALSE]
    /\ UNCHANGED <<config, master, mbuf, rx, slaves, noise, torn>>

\* the value of the register after request m
Updated(s, m) ==
    [regs EXCEPT ![s] = IF m.fn = "read" THEN @ ELSE m.val]

\* mutant: the master finds the byte count where it looks for the value
AnswerShifted(s, m) ==
    [m EXCEPT !.kind = "con", !.slave = s, !.crc = TRUE,
              !.val = IF m.fn = "read" THEN 2 ELSE m.val]

\* the confirmation that slave s builds for request m
Answer(s, m) ==
    [m EXCEPT !.kind = "con", !.slave = s, !.crc = TRUE,
              !.val = IF m.fn = "read" THEN regs[s] ELSE m.val]

\* the master hears d
ToMaster(d) == mbuf' = Append(mbuf, d) /\ torn' = (torn \/ d.kind = "junk")

\* everybody else hears the confirmation c of slave s, at most one of them
\* disturbed; s has read the request
Transmit(s, c) ==
    \/ /\ ToMaster(c)
       /\ rx' = [Spread(up, c, Broadcast, c) EXCEPT ![s] = Rest(s)]
       /\ UNCHANGED noise
    \/ /\ Disturb
       /\ \E d \in Disturbed(c) :
            \/ /\ ToMaster(d)
               /\ rx' = [Spread(up, c, Broadcast, c) EXCEPT ![s] = Rest(s)]
            \/ /\ ToMaster(c)
               /\ \E t \in up \ {s} :
                    rx' = [Spread(up, c, t, d) EXCEPT ![s] = Rest(s)]

\* mutant: the filter takes any request
ForAnyone(s, m) == m.kind # "junk"

\* the filter of check_integrity lets the message pass
ForMe(s, m) == m.kind # "junk" /\ m.slave \in {s, Broadcast}

Serve(s) ==
    /\ s \in up /\ ~ignore[s] /\ rx[s] # <<>>
    /\ ForMe(s, First(s)) /\ First(s).crc
    /\ regs' = Updated(s, First(s))
    /\ executed' = [executed EXCEPT ![s] = First(s).no]
    /\ IF First(s).slave = Broadcast
       THEN Read(s, Rest(s)) /\ UNCHANGED <<mbuf, noise, torn>>
       ELSE Transmit(s, Answer(s, First(s)))
    /\ UNCHANGED <<config, master, up, ignore>>

\* mutant: nothing is ignored after a message for another slave
FilterOnly(s) ==
    /\ s \in up /\ ~ignore[s] /\ rx[s] # <<>>
    /\ First(s).kind # "junk" /\ ~ForMe(s, First(s))
    /\ IF First(s).kind = "con" /\ First(s).fn = "read"
       THEN Rest(s) # <<>> /\ Read(s, <<Junk(Pieces)>> \o Tail(Rest(s)))
       ELSE Read(s, Rest(s))
    /\ UNCHANGED <<config, master, mbuf, slaves, ignore, noise, torn>>

\* A message for (or, when the slave is out of phase, from) another slave:
\* the next one is to be ignored.  The confirmation of a read is shorter than
\* the request the slave takes it for, and costs the next message a byte.
Filter(s) ==
    /\ s \in up /\ ~ignore[s] /\ rx[s] # <<>>
    /\ First(s).kind # "junk" /\ ~ForMe(s, First(s))
    /\ IF First(s).kind = "con" /\ First(s).fn = "read"
       THEN Rest(s) # <<>> /\ Read(s, <<Junk(Pieces)>> \o Tail(Rest(s)))
       ELSE Read(s, Rest(s))
    /\ ignore' = [ignore EXCEPT ![s] = TRUE]
    /\ UNCHANGED <<config, master, mbuf, slaves, noise, torn>>

\* Junk is no request that passes the CRC check: it is filtered, or an error.
FilterJunk(s) ==
    /\ s \in up /\ ~ignore[s] /\ rx[s] # <<>>
    /\ First(s).kind = "junk"
    /\ \E q \in RestsOfJunk(rx[s]) : Read(s, q)
    /\ ignore' = [ignore EXCEPT ![s] = TRUE]
    /\ UNCHANGED <<config, master, mbuf, slaves, noise, torn>>

\* A message with a bad checksum, the byte timeout in the middle of a message,
\* or junk that fails the CRC check or is too long: the loop of the slave ends.
Quit(s) ==
    /\ s \in up /\ ~ignore[s] /\ rx[s] # <<>>
    /\ \/ First(s).kind = "junk"
       \/ ForMe(s, First(s)) /\ ~First(s).crc
       \/ First(s).kind = "con" /\ First(s).fn = "read" /\ Len(rx[s]) = 1
    /\ up' = up \ {s} /\ Read(s, <<>>)
    /\ UNCHANGED <<config, master, mbuf, regs, executed, ignore, noise, torn>>

SlaveStep(s) ==
    \/ IgnoreMessage(s) \/ IgnoreTimeout(s)
    \/ Serve(s) \/ Filter(s) \/ FilterJunk(s) \/ Quit(s)

MasterStep == ReceiveTimeout \/ Receive \/ Flush

Next ==
    \/ \E s \in Numbers, v \in Vals :
         \/ s # Broadcast /\ v = InitVal /\ Call(s, "read", v)
         \/ Call(s, "write", v)
         \/ Call(s, "mask", v)
    \/ MasterStep
    \/ \E s \in Slaves : SlaveStep(s)

Spec == Init /\ [][Next]_vars

\* The master and the slaves are running programs whose timeouts expire.
FairSpec ==
    /\ Spec
    /\ WF_vars(MasterStep)
    /\ \A s \in Slaves : WF_vars(SlaveStep(s))

-----------------------------------------------------------------------------
(* Properties.                                                                 *)

TypeOK ==
    /\ timing \in Timings /\ recovery \in BOOLEAN
    /\ pc \in {"idle", "wait", "flush"}
    /\ req \in Frames /\ ok \in BOOLEAN /\ got \in Vals
    /\ mbuf \in Seq(Frames)
    /\ up \subseteq Slaves
    /\ rx \in [Slaves -> Seq(Frames)] /\ ignore \in [Slaves -> BOOLEAN]
    /\ regs \in [Slaves -> Vals] /\ executed \in [Slaves -> Nat]
    /\ noise \in 0..MaxNoise /\ torn \in BOOLEAN

Asked(s) == req.slave \in {s, Broadcast}

(* As long as the line is undisturbed and the timeouts are in order, every     *)
(* request is executed by every slave that it names, whoever was asked before  *)
(* and whether it answered or not: ignoring a confirmation that never comes    *)
(* costs no request (_modbus_rtu_receive).                                     *)
Heard ==
    timing = "prompt" /\ noise = 0 /\ pc = "idle" /\ req.no > 0 =>
        /\ \A s \in up : Asked(s) => executed[s] = req.no
        /\ req.slave \in up => ok

(* A call that returns success has read or written the register of the slave   *)
(* it names, with slaves that may be out of phase and on a line that may be    *)
(* disturbed, as long as the master can tell the length of the confirmations:  *)
(* when the timeouts are long enough, or when an answer that misses the        *)
(* response timeout still arrives before the flush of the error recovery, no   *)
(* answer is taken for that of a later call (check_confirmation,               *)
(* _modbus_rtu_pre_check_confirmation).  A confirmation of which the function  *)
(* code or the byte count was hit leaves bytes behind, in front of which the   *)
(* master may give up before the answer comes: then an old mask answer can be  *)
(* taken for a new one, until a call ends on a silent line.                    *)
AckedMatchesSlave ==
    /\ timing = "prompt" \/ (timing = "slow" /\ recovery)
    /\ ~torn /\ pc = "idle" /\ ok
    => regs[req.slave] = got

(* Whatever a slave takes for a request, it executes only what was sent to it  *)
(* or to all, in the order of the calls and each at most once                  *)
(* (_modbus_rtu_check_integrity).                                              *)
OwnInOrder ==
    [][\A s \in Slaves : Serve(s) =>
         /\ executed'[s] > executed[s]
         /\ \A t \in Slaves \ {s} : regs'[t] = regs[t] /\ executed'[t] = executed[t]
         /\ executed'[s] = req.no => Asked(s)]_vars

(* A slave that stays in its loop comes back, again and again, to where it     *)
(* waits for a request with nothing unread: neither the flag nor what was cut  *)
(* at a wrong length lasts (_modbus_rtu_receive resets the flag on errors as   *)
(* well).                                                                      *)
BackInPhase ==
    \A s \in Slaves : []<>(s \in up => ~ignore[s] /\ rx[s] = <<>>)
=============================================================================
