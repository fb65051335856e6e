----------------------------- MODULE MotorChannel -----------------------------
(***************************************************************************)
(* What the BLE controller of one gate promises its callers: the motor     *)
(* values they ask for reach the gate one at a time, in the order they     *)
(* were asked for, each at most once, and a caller is told of a success    *)
(* only after its value has reached the gate.  A failure tells nothing:    *)
(* the value may have reached the gate before.                             *)
(***************************************************************************)
EXTENDS SequencesExt

CONSTANT Caller     \* calls of async_send

VARIABLES
    pending,        \* the calls that are not over, oldest first
    state           \* what became of each call

vars == <<pending, state>>

Init == /\ pending = <<>>
        /\ state = [c \in Caller |-> "new"]

Ask(c) ==
    /\ state[c] = "new"
    /\ pending' = Append(pending, c)
    /\ state' = [state EXCEPT ![c] = "asked"]

\* Only the oldest call's value goes to the gate.
Deliver(c) ==
    /\ pending # <<>> /\ c = Head(pending)
    /\ state[c] = "asked"
    /\ state' = [state EXCEPT ![c] = "delivered"]
    /\ UNCHANGED pending

Leave(c, outcome) ==
    /\ \E i \in DOMAIN pending : pending[i] = c /\ pending' = RemoveAt(pending, i)
    /\ state' = [state EXCEPT ![c] = outcome]

Succeed(c) == state[c] = "delivered" /\ Leave(c, "succeeded")

\* A call may also be given up while older ones are pending.
Fail(c) == state[c] \in {"asked", "delivered"} /\ Leave(c, "failed")

Next == \E c \in Caller : Ask(c) \/ Deliver(c) \/ Succeed(c) \/ Fail(c)

Spec == Init /\ [][Next]_vars
==============================================================================
