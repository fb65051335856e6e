---------------------------- MODULE BleController ----------------------------
(***************************************************************************)
(* EzvizHg2BleController of one gate (ble.py): its calls of async_send,    *)
(* serialised by an asyncio.Lock, each one discovery, one connection, the  *)
(* session's start and authentication, one motor request and the           *)
(* disconnection.  A call's pc names the await it is suspended at.         *)
(*                                                                         *)
(* A link may drop at any moment and a call may be cancelled by its caller *)
(* at any await.  Frames are abstract: what the wait of a request can end  *)
(* with.                                                                   *)
(***************************************************************************)
EXTENDS Naturals, SequencesExt

CONSTANT Caller     \* calls of async_send with a supported action

VARIABLES
    waiting,        \* the asyncio.Lock: its holder, then its waiters, in order
    pc,             \* where each call is
    outcome,        \* what a call that is over, or disconnects, ends with
    links,          \* the calls whose client is connected
    written,        \* motor requests each call has written
    taken,          \* history: the calls whose motor value the gate took
    stuck           \* history: the calls whose disconnect() raised

vars == <<waiting, pc, outcome, links, written, taken, stuck>>

Phase == {"new", "lock", "connection", "start", "keyExchange", "authCheck", "settle",
          "motorReply", "disconnect", "over"}

TypeOK ==
    /\ waiting \in Seq(Caller)
    /\ pc \in [Caller -> Phase]
    /\ outcome \in [Caller -> {"none", "returned", "raised"}]
    /\ links \subseteq Caller /\ taken \subseteq Caller /\ stuck \subseteq Caller
    /\ written \in [Caller -> Nat]

Init ==
    /\ waiting = <<>>
    /\ pc = [c \in Caller |-> "new"]
    /\ outcome = [c \in Caller |-> "none"]
    /\ links = {} /\ taken = {} /\ stuck = {}
    /\ written = [c \in Caller |-> 0]

\* _async_send_value without its "async with self._lock" (a mutation).
NeedsNoLock(c) == TRUE

\* asyncio.Lock hands itself to its waiters in the order they came.
HasLock(c) == waiting # <<>> /\ Head(waiting) = c

Unlocks(c) == \E i \in DOMAIN waiting : waiting[i] = c /\ waiting' = RemoveAt(waiting, i)

Goto(c, phase) == pc' = [pc EXCEPT ![c] = phase]

EndsWith(c, out) == outcome' = [outcome EXCEPT ![c] = out]

\* The call leaves _async_send_value and the lock.
Exits(c, out) == Goto(c, "over") /\ EndsWith(c, out) /\ Unlocks(c)

\* The finally clause after the lock is released (a mutation).
FinallyUnlocked(c, out) ==
    IF c \in links THEN Goto(c, "disconnect") /\ EndsWith(c, out) /\ Unlocks(c)
    ELSE Exits(c, out)

\* The finally clause: a client that is still connected is disconnected first.
Finally(c, out) ==
    IF c \in links THEN Goto(c, "disconnect") /\ EndsWith(c, out) /\ UNCHANGED waiting
    ELSE Exits(c, out)

------------------------------------------------------------------------------
\* async_send, up to the lock.
AsyncSend(c) ==
    /\ pc[c] = "new"
    /\ Goto(c, "lock")
    /\ waiting' = Append(waiting, c)
    /\ UNCHANGED <<outcome, links, written, taken, stuck>>

\* _async_find_device whose error leaves the lock locked (a mutation).
FindsDeviceOrJams(c) ==
    /\ pc[c] = "lock" /\ HasLock(c)
    /\ \/ Goto(c, "connection") /\ UNCHANGED outcome
       \/ Goto(c, "over") /\ EndsWith(c, "raised")
    /\ UNCHANGED <<waiting, links, written, taken, stuck>>

\* _async_find_device, with the lock: it finds the device or raises, before the try.
FindsDevice(c) ==
    /\ pc[c] = "lock" /\ HasLock(c)
    /\ \/ Goto(c, "connection") /\ UNCHANGED <<waiting, outcome>>
       \/ Exits(c, "raised")
    /\ UNCHANGED <<links, written, taken, stuck>>

\* establish_connection, its two attempts included.
Connects(c) ==
    /\ pc[c] = "connection"
    /\ \/ links' = links \cup {c} /\ Goto(c, "start") /\ UNCHANGED <<waiting, outcome>>
       \/ Exits(c, "raised") /\ UNCHANGED links
    /\ UNCHANGED <<written, taken, stuck>>

\* The awaits before the motor request: _BleSession.async_start, the two requests of
\* async_authenticate.  Each of them succeeds or raises; the first two are followed by a
\* write, which needs a live link, and the last answer may be in the queue already.
NextPhase == [start |-> "keyExchange", keyExchange |-> "authCheck", authCheck |-> "settle"]

Advances(c) ==
    /\ pc[c] \in DOMAIN NextPhase
    /\ \/ /\ c \in links \/ pc[c] = "authCheck"
          /\ Goto(c, NextPhase[pc[c]]) /\ UNCHANGED <<waiting, outcome>>
       \/ Finally(c, "raised")
    /\ UNCHANGED <<links, written, taken, stuck>>

\* The motor request, written again when its write raises over a live link (a mutation).
WritesMotorOrRetries(c) ==
    /\ pc[c] = "settle"
    /\ written[c] < 2
    /\ written' = [written EXCEPT ![c] = @ + 1]
    /\ \/ /\ c \in links
          /\ taken' = taken \cup {c}
          /\ Goto(c, "motorReply") \/ UNCHANGED pc
          /\ UNCHANGED <<waiting, outcome>>
       \/ c \notin links /\ Finally(c, "raised") /\ UNCHANGED taken
    /\ UNCHANGED <<links, stuck>>

\* After the settle delay the motor request is written, once.  The gate takes it or rejects
\* it; the write may raise, and even then the gate may have taken it.
WritesMotor(c) ==
    /\ pc[c] = "settle"
    /\ written' = [written EXCEPT ![c] = @ + 1]
    /\ taken' \in {taken} \cup (IF c \in links THEN {taken \cup {c}} ELSE {})
    /\ \/ c \in links /\ Goto(c, "motorReply") /\ UNCHANGED <<waiting, outcome>>
       \/ Finally(c, "raised")
    /\ UNCHANGED <<links, stuck>>

\* The wait of the motor request ends: the answer that _validate_motor_response accepts
\* returns; a rejection, an unreadable or fragmented frame and the timeout raise.  Only a
\* gate that took the value sends a good answer, which may still be in the queue when the
\* link is gone.
MotorAnswered(c) ==
    /\ pc[c] = "motorReply"
    /\ \E answered \in BOOLEAN :
         /\ answered => c \in taken
         /\ Finally(c, IF answered THEN "returned" ELSE "raised")
    /\ UNCHANGED <<links, written, taken, stuck>>

\* client.disconnect() returns, or raises with the client perhaps still connected; the
\* controller carries on either way.
Disconnects(c) ==
    /\ pc[c] = "disconnect"
    /\ Exits(c, outcome[c])
    /\ \/ links' = links \ {c} /\ UNCHANGED stuck
       \/ stuck' = stuck \cup {c} /\ UNCHANGED links
    /\ UNCHANGED <<written, taken>>

\* The caller's task is cancelled: a call without a client leaves at once, one with a
\* client disconnects it, and one that is disconnecting gives that up.
Cancelled(c) ==
    /\ \/ pc[c] \in {"lock", "connection"} /\ Exits(c, "raised") /\ UNCHANGED stuck
       \/ /\ pc[c] \in {"start", "keyExchange", "authCheck", "settle", "motorReply"}
          /\ Finally(c, "raised") /\ UNCHANGED stuck
       \/ pc[c] = "disconnect" /\ Exits(c, "raised") /\ stuck' = stuck \cup {c}
    /\ UNCHANGED <<links, written, taken>>

LinkDrops ==
    /\ \E c \in links : links' = links \ {c}
    /\ UNCHANGED <<waiting, pc, outcome, written, taken, stuck>>

------------------------------------------------------------------------------
Continues(c) == \/ FindsDevice(c) \/ Connects(c) \/ Advances(c) \/ WritesMotor(c)
                \/ MotorAnswered(c) \/ Disconnects(c)

Next == LinkDrops \/ \E c \in Caller : AsyncSend(c) \/ Continues(c) \/ Cancelled(c)

Spec == Init /\ [][Next]_vars

\* Every await of a call has a timeout, so that a call that may go on does.
FairSpec == Spec /\ \A c \in Caller : WF_vars(Continues(c))

------------------------------------------------------------------------------
(* Properties                                                               *)

\* "Send one motor value exactly once" (_async_send_value): no call ever writes two motor
\* requests, and one that returns has written one and the gate has taken it.
ExactlyOnce ==
    \A c \in Caller : /\ written[c] <= 1
                      /\ outcome[c] = "returned" => written[c] = 1 /\ c \in taken

\* Two sessions of this controller never hold a connection to the gate at the same time:
\* a connected client belongs to the holder of the lock, unless its disconnect() failed.
OneSession == \A c \in links : HasLock(c) \/ c \in stuck

\* A call that has asked for the lock is over at some time, whatever the calls before it
\* run into: none of them keeps the lock (async with, finally).
EverySendEnds == \A c \in Caller : pc[c] = "lock" ~> pc[c] = "over"

\* What the controller looks like to its callers.
ChannelState ==
    [c \in Caller |-> CASE pc[c] = "new" -> "new"
                        [] pc[c] = "over" /\ outcome[c] = "returned" -> "succeeded"
                        [] pc[c] = "over" /\ outcome[c] # "returned" -> "failed"
                        [] OTHER -> IF c \in taken THEN "delivered" ELSE "asked"]

Channel == INSTANCE MotorChannel WITH pending <- waiting, state <- ChannelState

\* The controller keeps the promise of MotorChannel: motor values reach the gate one at a
\* time and in the order of the calls, and success means that the value got there.
ImplementsMotorChannel == Channel!Spec
==============================================================================
