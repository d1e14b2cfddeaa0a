-------------------------- MODULE RemoteRegisters --------------------------
(* What a program may rely on that calls a server over TCP with libmodbus: *)
(* a call takes effect at most once, at one moment after it was made, and  *)
(* before it returns if it returns success.  One that failed may still     *)
(* take effect later, but not after a call that was made later.  There are *)
(* no messages, identifiers or connections here.                           *)
EXTENDS Integers

CONSTANTS
    Addrs,     \* register addresses a call may name
    Served,    \* the ones the server has
    Vals,      \* register values
    InitVal    \* the first value of each

VARIABLES
    regs,      \* the registers of the server
    executed,  \* number of the last call that took effect
    pending,   \* calls that may still take effect
    state,     \* "idle" or "called"
    call,      \* the current or last call
    ok, got    \* it returned success, and the value it read or wrote

vars == <<regs, executed, pending, state, call, ok, got>>

Calls == [no : Nat, fn : {"read", "write"}, addr : Addrs, val : Vals]

Init ==
    /\ regs = [a \in Served |-> InitVal] /\ executed = 0
    /\ pending = {}
    /\ state = "idle" /\ call \in Calls /\ call.no = 0 /\ ok = FALSE

Call ==
    /\ state = "idle" /\ state' = "called" /\ ok' = FALSE
    /\ call' \in Calls /\ call'.no = call.no + 1
    /\ pending' = pending \cup {call'}
    /\ UNCHANGED <<regs, executed, got>>

Effect(c) ==
    IF c.fn = "write" /\ c.addr \in Served
    THEN [regs EXCEPT ![c.addr] = c.val] ELSE regs

(* One of the calls takes effect, and those before it no longer can.         *)
Execute ==
    /\ \E c \in pending :
         /\ regs' = Effect(c) /\ executed' = c.no
         /\ pending' \subseteq {d \in pending : d.no > c.no}
    /\ UNCHANGED <<state, call, ok, got>>

Lose ==
    /\ pending' \subseteq pending
    /\ UNCHANGED <<regs, executed, state, call, ok, got>>

Return ==
    /\ state = "called" /\ state' = "idle"
    /\ executed = call.no /\ pending = {}
    /\ call.addr \in Served
    /\ ok' = TRUE /\ got' = regs[call.addr]
    /\ UNCHANGED <<regs, executed, pending, call>>

Fail ==
    /\ state = "called" /\ state' = "idle"
    /\ pending' \subseteq pending
    /\ ok' = FALSE
    /\ UNCHANGED <<regs, executed, call, got>>

Next == Call \/ Execute \/ Lose \/ Return \/ Fail

Spec == Init /\ [][Next]_vars
=============================================================================
