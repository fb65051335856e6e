------------------------- MODULE BleController_proofs -------------------------
(***************************************************************************)
(* Theorems about BleController for every number of calls.                 *)
(***************************************************************************)
EXTENDS BleController, SequenceTheorems, TLAPS

\* The phases of a call that has not written its motor request.
Before == {"new", "lock", "connection", "start", "keyExchange", "authCheck", "settle"}

\* Where a call is tells how often it has written, and whether it may still return: what
\* makes ExactlyOnce inductive.
WrittenOnce ==
    \A c \in Caller :
        /\ pc[c] \in Before => written[c] = 0
        /\ pc[c] \in Before \cup {"motorReply"} => outcome[c] = "none"
        /\ written[c] \in {0, 1}
        /\ pc[c] = "motorReply" => written[c] = 1
        /\ outcome[c] = "returned" => written[c] = 1 /\ c \in taken

Shape == /\ pc \in [Caller -> Phase]
         /\ outcome \in [Caller -> {"none", "returned", "raised"}]
         /\ written \in [Caller -> Nat]

\* The functions of the state stay functions of the calls.
LEMMA ShapeStep == Shape /\ [Next]_vars => Shape'
<1> SUFFICES ASSUME Shape, [Next]_vars PROVE Shape'
  OBVIOUS
<1> USE DEF Shape, Goto, EndsWith, Exits, Finally
<1>1. ASSUME NEW c \in Caller, AsyncSend(c) \/ FindsDevice(c) \/ Connects(c) \/ Disconnects(c)
      PROVE  Shape'
  BY <1>1 DEF AsyncSend, FindsDevice, Connects, Disconnects, Phase
<1>2. ASSUME NEW c \in Caller, Advances(c) PROVE Shape'
  BY <1>2 DEF Advances, NextPhase, Phase
<1>3. ASSUME NEW c \in Caller, WritesMotor(c) \/ MotorAnswered(c) \/ Cancelled(c)
      PROVE  Shape'
  BY <1>3 DEF WritesMotor, MotorAnswered, Cancelled, Phase
<1>4. CASE LinkDrops \/ UNCHANGED vars
  BY <1>4 DEF LinkDrops, vars
<1>5. QED
  BY <1>1, <1>2, <1>3, <1>4 DEF Next, Continues

\* A call that leaves, or goes to its disconnection, with an error or with a good answer to
\* a request it has written, and every call but that one stay within WrittenOnce.
LEMMA LeavingStep ==
    ASSUME Shape, WrittenOnce, NEW c \in Caller, NEW out \in {"returned", "raised"},
           out = "returned" => written'[c] = 1 /\ c \in taken',
           Finally(c, out) \/ Exits(c, out), written'[c] \in {0, 1},
           \A d \in Caller \ {c} : written'[d] = written[d], taken \subseteq taken'
    PROVE  WrittenOnce'
<1>1. pc'[c] \in {"over", "disconnect"} /\ outcome'[c] = out
  BY DEF Finally, Exits, Goto, EndsWith, Shape
<1>2. \A d \in Caller \ {c} : pc'[d] = pc[d] /\ outcome'[d] = outcome[d]
  BY DEF Finally, Exits, Goto, EndsWith, Shape
<1>3. QED
  BY <1>1, <1>2 DEF WrittenOnce, Before

\* A call that moves on without writing or ending stays within WrittenOnce.
LEMMA MovingStep ==
    ASSUME Shape, WrittenOnce, NEW c \in Caller, NEW phase \in Before,
           pc[c] \in Before, Goto(c, phase), UNCHANGED <<outcome, written, taken>>
    PROVE  WrittenOnce'
<1>1. pc'[c] = phase /\ \A d \in Caller \ {c} : pc'[d] = pc[d]
  BY DEF Shape, Goto
<1>2. phase # "motorReply"
  BY DEF Before
<1>3. QED
  BY <1>1, <1>2 DEF WrittenOnce

\* Only the motor request writes, and only a write that was taken is returned from.
LEMMA WrittenOnceStep == Shape /\ WrittenOnce /\ [Next]_vars => WrittenOnce'
<1> SUFFICES ASSUME Shape, WrittenOnce, [Next]_vars PROVE WrittenOnce'
  OBVIOUS
<1>1. ASSUME NEW c \in Caller, AsyncSend(c) PROVE WrittenOnce'
  BY <1>1, MovingStep DEF AsyncSend, Before
<1>2. ASSUME NEW c \in Caller, FindsDevice(c) \/ Connects(c) PROVE WrittenOnce'
  <2>1. UNCHANGED <<written, taken>> /\ pc[c] \in Before
    BY <1>2 DEF FindsDevice, Connects, Before
  <2>2. CASE Exits(c, "raised")
    BY <2>1, <2>2, LeavingStep DEF WrittenOnce
  <2>3. CASE ~Exits(c, "raised")
    BY <1>2, <2>1, <2>3, MovingStep DEF FindsDevice, Connects, Before
  <2>4. QED
    BY <2>2, <2>3
<1>3. ASSUME NEW c \in Caller, Advances(c) PROVE WrittenOnce'
  <2>1. UNCHANGED <<written, taken>> /\ pc[c] \in Before /\ NextPhase[pc[c]] \in Before
    BY <1>3 DEF Advances, NextPhase, Before
  <2>2. CASE Finally(c, "raised")
    BY <2>1, <2>2, LeavingStep DEF WrittenOnce
  <2>3. CASE ~Finally(c, "raised")
    BY <1>3, <2>1, <2>3, MovingStep DEF Advances
  <2>4. QED
    BY <2>2, <2>3
<1>4. ASSUME NEW c \in Caller, WritesMotor(c) PROVE WrittenOnce'
  <2>0. pc[c] = "settle" /\ written' = [written EXCEPT ![c] = @ + 1]
    BY <1>4 DEF WritesMotor
  <2>1. written[c] = 0 /\ outcome[c] = "none" /\ taken \subseteq taken'
    BY <1>4, <2>0 DEF WritesMotor, WrittenOnce, Before
  <2>2. written'[c] = 1 /\ \A d \in Caller \ {c} : written'[d] = written[d]
    BY <2>0, <2>1 DEF Shape
  <2>3. CASE Finally(c, "raised")
    BY <2>1, <2>2, <2>3, LeavingStep
  <2>4. CASE Goto(c, "motorReply") /\ UNCHANGED outcome
    BY <2>1, <2>2, <2>4 DEF Goto, Shape, WrittenOnce, Before
  <2>5. QED
    BY <1>4, <2>3, <2>4 DEF WritesMotor
<1>5. ASSUME NEW c \in Caller, MotorAnswered(c) PROVE WrittenOnce'
  <2>1. PICK answered \in BOOLEAN :
          /\ answered => c \in taken
          /\ Finally(c, IF answered THEN "returned" ELSE "raised")
    BY <1>5 DEF MotorAnswered
  <2>2. UNCHANGED <<written, taken>> /\ written[c] = 1
    BY <1>5 DEF MotorAnswered, WrittenOnce
  <2>3. CASE answered
    BY <2>1, <2>2, <2>3, LeavingStep
  <2>4. CASE ~answered
    BY <2>1, <2>2, <2>4, LeavingStep
  <2>5. QED
    BY <2>3, <2>4
<1>6. ASSUME NEW c \in Caller, Disconnects(c) PROVE WrittenOnce'
  BY <1>6 DEF Disconnects, Exits, Goto, EndsWith, Shape, WrittenOnce, Before
<1>7. ASSUME NEW c \in Caller, Cancelled(c) PROVE WrittenOnce'
  <2>1. UNCHANGED <<written, taken>> /\ written[c] \in {0, 1}
    BY <1>7 DEF Cancelled, WrittenOnce
  <2>2. Exits(c, "raised") \/ Finally(c, "raised")
    BY <1>7 DEF Cancelled
  <2>3. QED
    BY <2>1, <2>2, LeavingStep
<1>8. CASE LinkDrops \/ UNCHANGED vars
  BY <1>8 DEF LinkDrops, vars, WrittenOnce
<1>9. QED
  BY <1>1, <1>2, <1>3, <1>4, <1>5, <1>6, <1>7, <1>8 DEF Next, Continues

\* No call ever writes two motor requests, and one that returns has written one that the
\* gate has taken.
THEOREM SendsOnce == Spec => []ExactlyOnce
<1>1. Init => Shape /\ WrittenOnce
  BY DEF Init, Shape, WrittenOnce, Phase, Before
<1>2. WrittenOnce => ExactlyOnce
  <2>1. ASSUME WrittenOnce, NEW c \in Caller
        PROVE  /\ written[c] <= 1
               /\ outcome[c] = "returned" => written[c] = 1 /\ c \in taken
    BY <2>1 DEF WrittenOnce
  <2>2. QED
    BY <2>1 DEF ExactlyOnce
<1>3. QED
  BY <1>1, <1>2, ShapeStep, WrittenOnceStep, PTL DEF Spec

------------------------------------------------------------------------------
(* The lock                                                                 *)

\* A sequence without its i-th element.
LEMMA RemoveAtProperties ==
    ASSUME NEW S, NEW s \in Seq(S), NEW i \in 1..Len(s)
    PROVE  /\ RemoveAt(s, i) \in Seq(S)
           /\ Len(RemoveAt(s, i)) = Len(s) - 1
           /\ \A j \in 1..Len(s) - 1 : RemoveAt(s, i)[j] = s[IF j < i THEN j ELSE j + 1]
<1> DEFINE front == SubSeq(s, 1, i - 1)
           back == SubSeq(s, i + 1, Len(s))
<1>0. Len(s) \in Nat /\ \A j \in 1..Len(s) : s[j] \in S
  OBVIOUS
<1>1. front \in Seq(S) /\ Len(front) = i - 1 /\ \A j \in 1..i - 1 : front[j] = s[j]
  BY <1>0, SubSeqProperties
<1>2. /\ back \in Seq(S) /\ Len(back) = Len(s) - i
      /\ \A j \in 1..Len(s) - i : back[j] = s[i + j]
  BY <1>0, SubSeqProperties
<1> HIDE DEF front, back
<1>3. front \o back \in Seq(S) /\ Len(front \o back) = Len(s) - 1
  <2>1. front \o back \in Seq(S) /\ Len(front \o back) = Len(front) + Len(back)
    BY <1>1, <1>2, ConcatProperties
  <2>2. QED
    BY <1>0, <1>1, <1>2, <2>1
<1>4. ASSUME NEW j \in 1..Len(s) - 1
      PROVE  (front \o back)[j] = s[IF j < i THEN j ELSE j + 1]
  <2>1. CASE j < i
    BY <1>0, <1>1, <1>2, <2>1
  <2>2. CASE ~(j < i)
    <3>1. (front \o back)[j] = back[j - (i - 1)]
      BY <1>0, <1>1, <1>2, <2>2
    <3>2. j - (i - 1) \in 1..Len(s) - i
      BY <1>0, <2>2
    <3>3. back[j - (i - 1)] = s[i + (j - (i - 1))]
      BY <1>2, <3>2
    <3>4. QED
      BY <1>0, <2>2, <3>1, <3>3
  <2>3. QED
    BY <2>1, <2>2
<1>5. QED
  BY <1>3, <1>4 DEF RemoveAt, front, back

Holding == {"connection", "start", "keyExchange", "authCheck", "settle", "motorReply",
            "disconnect"}

\* The lock's queue holds every call at most once and none that is new or over.
Queue == /\ waiting \in Seq(Caller)
         /\ \A i, j \in 1..Len(waiting) : waiting[i] = waiting[j] => i = j
         /\ \A i \in 1..Len(waiting) : pc[waiting[i]] \notin {"new", "over"}

\* A call that is past discovery has the lock, and a client belongs to such a call.
Locked == \A c \in Caller : pc[c] \in Holding => Len(waiting) > 0 /\ waiting[1] = c
Linked == \A c \in links : c \in Caller /\ (pc[c] \in Holding \ {"connection"} \/ c \in stuck)

LockInv == Queue /\ Locked /\ Linked

\* A call that holds the lock is the first in its queue.
LEMMA HasLockMeans ==
    ASSUME waiting \in Seq(Caller), NEW c
    PROVE  HasLock(c) <=> Len(waiting) > 0 /\ waiting[1] = c
<1>1. waiting # <<>> <=> Len(waiting) > 0
  BY EmptySeq
<1>2. QED
  BY <1>1 DEF HasLock

\* A call that goes on within the phases of the lock's holder keeps the invariant.
LEMMA HoldingStep ==
    ASSUME Shape, LockInv, NEW c \in Caller, NEW phase \in Holding, Goto(c, phase),
           pc[c] \in Holding \/ (pc[c] = "lock" /\ HasLock(c)), UNCHANGED waiting,
           links' \subseteq links \cup {c}, stuck \subseteq stuck',
           phase # "connection" \/ c \notin links' \/ c \in stuck'
    PROVE  LockInv'
<1>1. pc'[c] = phase /\ \A d \in Caller \ {c} : pc'[d] = pc[d]
  BY DEF Shape, Goto
<1>2. phase \notin {"new", "over"}
  BY DEF Holding
<1>3. Queue'
  <2>1. \A i \in 1..Len(waiting) : waiting[i] \in Caller
    BY DEF LockInv, Queue
  <2>2. QED
    BY <1>1, <1>2, <2>1 DEF LockInv, Queue
<1>4. Len(waiting) > 0 /\ waiting[1] = c
  BY HasLockMeans DEF LockInv, Queue, Locked
<1>5. Locked'
  BY <1>1, <1>4 DEF LockInv, Locked
<1>6. Linked'
  BY <1>1 DEF LockInv, Linked
<1>7. QED
  BY <1>3, <1>5, <1>6 DEF LockInv

\* A call that leaves, and leaves no client behind but one that it could not disconnect,
\* passes the lock on.
LEMMA ExitStep ==
    ASSUME Shape, LockInv, NEW c \in Caller, NEW out, Exits(c, out),
           links' \subseteq links, stuck \subseteq stuck', c \in links' => c \in stuck'
    PROVE  LockInv'
<1>1. pc'[c] = "over" /\ \A d \in Caller \ {c} : pc'[d] = pc[d]
  BY DEF Shape, Exits, Goto
<1>2. PICK i \in 1..Len(waiting) : waiting[i] = c /\ waiting' = RemoveAt(waiting, i)
  <2>1. DOMAIN waiting = 1..Len(waiting)
    BY DEF LockInv, Queue
  <2>2. QED
    BY <2>1 DEF Exits, Unlocks
<1>3. Len(waiting) \in Nat /\ \A j \in 1..Len(waiting) : waiting[j] \in Caller
  BY DEF LockInv, Queue
<1>4. /\ waiting' \in Seq(Caller) /\ Len(waiting') = Len(waiting) - 1
      /\ \A j \in 1..Len(waiting) - 1 : waiting'[j] = waiting[IF j < i THEN j ELSE j + 1]
  BY <1>2, RemoveAtProperties DEF LockInv, Queue
<1>5. Queue'
  <2>1. ASSUME NEW j \in 1..Len(waiting'), NEW k \in 1..Len(waiting'), waiting'[j] = waiting'[k]
        PROVE  j = k
    <3>1. (IF j < i THEN j ELSE j + 1) = (IF k < i THEN k ELSE k + 1)
      BY <1>3, <1>4, <2>1 DEF LockInv, Queue
    <3>2. QED
      BY <1>3, <1>4, <3>1
  <2>2. ASSUME NEW j \in 1..Len(waiting')
        PROVE  pc'[waiting'[j]] \notin {"new", "over"}
    <3> DEFINE k == IF j < i THEN j ELSE j + 1
    <3>1. k \in 1..Len(waiting) /\ k # i /\ waiting'[j] = waiting[k]
      BY <1>3, <1>4
    <3>2. waiting[k] # c
      BY <1>2, <3>1 DEF LockInv, Queue
    <3> HIDE DEF k
    <3>3. QED
      BY <1>1, <1>3, <3>1, <3>2 DEF LockInv, Queue
  <2>3. QED
    BY <1>4, <2>1, <2>2 DEF Queue
<1>6. Locked'
  <2>1. SUFFICES ASSUME NEW d \in Caller, pc'[d] \in Holding
                 PROVE  Len(waiting') > 0 /\ waiting'[1] = d
    BY DEF Locked
  <2>2. d # c /\ pc[d] \in Holding
    BY <1>1, <2>1 DEF Holding
  <2>3. Len(waiting) > 0 /\ waiting[1] = d
    BY <2>2 DEF LockInv, Locked
  <2>4. i > 1
    BY <1>2, <1>3, <2>2, <2>3
  <2>5. QED
    BY <1>3, <1>4, <2>3, <2>4
<1>7. Linked'
  BY <1>1 DEF LockInv, Linked
<1>8. QED
  BY <1>5, <1>6, <1>7 DEF LockInv

\* The finally clause either passes the lock on or goes to the disconnection with it.
LEMMA FinallyStep ==
    ASSUME Shape, LockInv, NEW c \in Caller, NEW out, Finally(c, out), pc[c] \in Holding,
           UNCHANGED <<links, stuck>>
    PROVE  LockInv'
<1>1. CASE c \in links
  BY <1>1, HoldingStep DEF Finally, Holding, LockInv, Linked
<1>2. CASE c \notin links
  BY <1>2, ExitStep DEF Finally
<1>3. QED
  BY <1>1, <1>2

\* Every step keeps LockInv.
LEMMA LockStep == Shape /\ LockInv /\ [Next]_vars => LockInv'
<1> SUFFICES ASSUME Shape, LockInv, [Next]_vars PROVE LockInv'
  OBVIOUS
<1>1. ASSUME NEW c \in Caller, AsyncSend(c) PROVE LockInv'
  <2>1. /\ pc[c] = "new" /\ pc'[c] = "lock" /\ \A d \in Caller \ {c} : pc'[d] = pc[d]
        /\ waiting' = Append(waiting, c) /\ UNCHANGED <<links, stuck>>
    BY <1>1 DEF AsyncSend, Goto, Shape
  <2>2. waiting \in Seq(Caller) /\ Len(waiting) \in Nat
        /\ \A i \in 1..Len(waiting) : waiting[i] \in Caller
    BY DEF LockInv, Queue
  <2>3. /\ waiting' \in Seq(Caller) /\ Len(waiting') = Len(waiting) + 1
        /\ \A i \in 1..Len(waiting) : waiting'[i] = waiting[i]
        /\ waiting'[Len(waiting) + 1] = c
    BY <2>1, <2>2
  <2>4. \A i \in 1..Len(waiting) : waiting[i] # c
    BY <2>1 DEF LockInv, Queue
  <2>5. \A i \in 1..Len(waiting') : i \in 1..Len(waiting) \/ i = Len(waiting) + 1
    BY <2>2, <2>3
  <2>6. \A i \in 1..Len(waiting') : pc'[waiting'[i]] \notin {"new", "over"}
    BY <2>1, <2>2, <2>3, <2>4, <2>5 DEF LockInv, Queue
  <2>7. Queue'
    BY <2>2, <2>3, <2>4, <2>5, <2>6 DEF LockInv, Queue
  <2>8. Locked'
    BY <2>1, <2>2, <2>3 DEF LockInv, Locked, Holding
  <2>9. Linked'
    BY <2>1 DEF LockInv, Linked, Holding
  <2>10. QED
    BY <2>7, <2>8, <2>9 DEF LockInv
<1>2. ASSUME NEW c \in Caller, FindsDevice(c) PROVE LockInv'
  <2>1. c \in links => c \in stuck
    BY <1>2 DEF FindsDevice, LockInv, Linked, Holding
  <2>2. CASE Exits(c, "raised")
    BY <1>2, <2>1, <2>2, ExitStep DEF FindsDevice
  <2>3. CASE Goto(c, "connection") /\ UNCHANGED waiting
    BY <1>2, <2>1, <2>3, HoldingStep DEF FindsDevice, Holding
  <2>4. QED
    BY <1>2, <2>2, <2>3 DEF FindsDevice
<1>3. ASSUME NEW c \in Caller, Connects(c) PROVE LockInv'
  <2>1. CASE Exits(c, "raised") /\ UNCHANGED links
    <3>1. pc[c] = "connection" /\ UNCHANGED stuck
      BY <1>3 DEF Connects
    <3>2. c \in links => c \in stuck
      BY <3>1 DEF LockInv, Linked
    <3>3. QED
      BY <2>1, <3>1, <3>2, ExitStep
  <2>2. CASE Goto(c, "start") /\ UNCHANGED waiting /\ links' = links \cup {c}
    BY <1>3, <2>2, HoldingStep DEF Connects, Holding
  <2>3. QED
    BY <1>3, <2>1, <2>2 DEF Connects
<1>4. ASSUME NEW c \in Caller, Advances(c) PROVE LockInv'
  <2>1. /\ UNCHANGED <<links, stuck>> /\ pc[c] \in Holding
        /\ NextPhase[pc[c]] \in Holding \ {"connection"}
    BY <1>4 DEF Advances, NextPhase, Holding
  <2>2. CASE Finally(c, "raised")
    BY <2>1, <2>2, FinallyStep
  <2>3. CASE Goto(c, NextPhase[pc[c]]) /\ UNCHANGED waiting
    BY <2>1, <2>3, HoldingStep
  <2>4. QED
    BY <1>4, <2>2, <2>3 DEF Advances
<1>5. ASSUME NEW c \in Caller, WritesMotor(c) PROVE LockInv'
  <2>1. UNCHANGED <<links, stuck>> /\ pc[c] \in Holding
    BY <1>5 DEF WritesMotor, Holding
  <2>2. CASE Finally(c, "raised")
    BY <2>1, <2>2, FinallyStep
  <2>3. CASE Goto(c, "motorReply") /\ UNCHANGED waiting
    BY <2>1, <2>3, HoldingStep DEF Holding
  <2>4. QED
    BY <1>5, <2>2, <2>3 DEF WritesMotor
<1>6. ASSUME NEW c \in Caller, MotorAnswered(c) PROVE LockInv'
  BY <1>6, FinallyStep DEF MotorAnswered, Holding
<1>7. ASSUME NEW c \in Caller, Disconnects(c) PROVE LockInv'
  BY <1>7, ExitStep DEF Disconnects
<1>8. ASSUME NEW c \in Caller, Cancelled(c) PROVE LockInv'
  <2>1. CASE pc[c] \in {"lock", "connection"} /\ Exits(c, "raised") /\ UNCHANGED <<links, stuck>>
    <3>1. c \in links => c \in stuck
      BY <2>1 DEF LockInv, Linked, Holding
    <3>2. QED
      BY <2>1, <3>1, ExitStep
  <2>2. CASE pc[c] \in Holding /\ Finally(c, "raised") /\ UNCHANGED <<links, stuck>>
    BY <2>2, FinallyStep
  <2>3. CASE Exits(c, "raised") /\ stuck' = stuck \cup {c} /\ UNCHANGED links
    BY <2>3, ExitStep
  <2>4. QED
    BY <1>8, <2>1, <2>2, <2>3 DEF Cancelled, Holding
<1>9. CASE LinkDrops \/ UNCHANGED vars
  BY <1>9 DEF LinkDrops, vars, LockInv, Queue, Locked, Linked
<1>10. QED
  BY <1>1, <1>2, <1>3, <1>4, <1>5, <1>6, <1>7, <1>8, <1>9 DEF Next, Continues

\* LockInv holds before the first call.
LEMMA LockInit == Init => LockInv
<1> SUFFICES ASSUME Init PROVE LockInv
  OBVIOUS
<1>1. waiting \in Seq(Caller) /\ Len(waiting) = 0
  BY EmptySeq DEF Init
<1>2. QED
  BY <1>1 DEF Init, LockInv, Queue, Locked, Linked, Holding

\* Only the lock's holder is connected to the gate, and calls whose disconnect() failed.
THEOREM OnlyOneSession == Spec => []OneSession
<1>1. Init => Shape
  BY DEF Init, Shape, Phase
<1>2. LockInv => OneSession
  <2>1. ASSUME LockInv, NEW c \in links PROVE HasLock(c) \/ c \in stuck
    BY <2>1, HasLockMeans DEF LockInv, Queue, Locked, Linked
  <2>2. QED
    BY <2>1 DEF OneSession
<1>3. QED
  BY <1>1, <1>2, LockInit, ShapeStep, LockStep, PTL DEF Spec

------------------------------------------------------------------------------
(* The channel                                                              *)

\* The gate has taken nothing from a call that has not written its motor request.
TakenLater == \A c \in taken : c \in Caller /\ pc[c] \notin Before

\* Nothing is taken from a call before its request.
LEMMA TakenStep == Shape /\ TakenLater /\ [Next]_vars => TakenLater'
<1> SUFFICES ASSUME Shape, TakenLater, [Next]_vars PROVE TakenLater'
  OBVIOUS
<1> USE DEF Shape, TakenLater, Goto, EndsWith, Exits, Finally
<1>1. ASSUME NEW c \in Caller, AsyncSend(c) \/ FindsDevice(c) \/ Connects(c) PROVE TakenLater'
  BY <1>1 DEF AsyncSend, FindsDevice, Connects, Before
<1>2. ASSUME NEW c \in Caller, Advances(c) PROVE TakenLater'
  BY <1>2 DEF Advances, NextPhase, Before
<1>3. ASSUME NEW c \in Caller, WritesMotor(c) PROVE TakenLater'
  BY <1>3 DEF WritesMotor, Before
<1>4. ASSUME NEW c \in Caller, MotorAnswered(c) \/ Disconnects(c) \/ Cancelled(c)
      PROVE  TakenLater'
  BY <1>4 DEF MotorAnswered, Disconnects, Cancelled, Before
<1>5. CASE LinkDrops \/ UNCHANGED vars
  BY <1>5 DEF LinkDrops, vars
<1>6. QED
  BY <1>1, <1>2, <1>3, <1>4, <1>5 DEF Next, Continues

IInv == Shape /\ WrittenOnce /\ LockInv /\ TakenLater

\* The calls but one look to the channel as before.
LEMMA OthersStay ==
    ASSUME NEW c \in Caller, NEW to, ChannelState'[c] = to,
           \A d \in Caller \ {c} : /\ pc'[d] = pc[d] /\ outcome'[d] = outcome[d]
                                   /\ d \in taken' <=> d \in taken
    PROVE  ChannelState' = [ChannelState EXCEPT ![c] = to]
<1>1. \A d \in Caller \ {c} : ChannelState'[d] = ChannelState[d]
  BY DEF ChannelState
<1>2. /\ ChannelState = [d \in Caller |-> ChannelState[d]]
      /\ ChannelState' = [d \in Caller |-> ChannelState'[d]]
  BY Zenon DEF ChannelState
<1>3. QED
  BY <1>1, <1>2

\* A call that the channel knows is asked or delivered, as the gate has taken its value.
LEMMA UnderWay ==
    ASSUME NEW c \in Caller, pc[c] \notin {"new", "over"}
    PROVE  ChannelState[c] = IF c \in taken THEN "delivered" ELSE "asked"
BY DEF ChannelState

\* A call that leaves succeeds or fails at the channel.
LEMMA ExitMaps ==
    ASSUME Shape, NEW c \in Caller, NEW out, Exits(c, out), UNCHANGED taken,
           pc[c] \notin {"new", "over"}, out = "returned" => c \in taken
    PROVE  Channel!Next
<1>1. /\ pc'[c] = "over" /\ outcome'[c] = out
      /\ \A d \in Caller \ {c} : pc'[d] = pc[d] /\ outcome'[d] = outcome[d]
  BY DEF Shape, Exits, Goto, EndsWith
<1>2. ChannelState'[c] = IF out = "returned" THEN "succeeded" ELSE "failed"
  BY <1>1 DEF ChannelState
<1>3. ChannelState[c] \in {"asked", "delivered"}
      /\ (out = "returned" => ChannelState[c] = "delivered")
  BY UnderWay
<1>4. Channel!Leave(c, IF out = "returned" THEN "succeeded" ELSE "failed")
  <2> DEFINE to == IF out = "returned" THEN "succeeded" ELSE "failed"
  <2>1. ChannelState' = [ChannelState EXCEPT ![c] = to]
    BY <1>1, <1>2, OthersStay
  <2>2. \E i \in DOMAIN waiting : waiting[i] = c /\ waiting' = RemoveAt(waiting, i)
    BY DEF Exits, Unlocks
  <2> HIDE DEF to
  <2>3. Channel!Leave(c, to)
    BY <2>1, <2>2 DEF Channel!Leave, Channel!RemoveAt, RemoveAt
  <2>4. QED
    BY <2>3 DEF to
<1>5. QED
  BY <1>3, <1>4 DEF Channel!Next, Channel!Succeed, Channel!Fail

\* A call that goes on under way without a delivery is no step of the channel.
LEMMA StutterMaps ==
    ASSUME Shape, NEW c \in Caller, NEW phase, phase \notin {"new", "over"}, Goto(c, phase),
           pc[c] \notin {"new", "over"}, UNCHANGED <<waiting, taken>>,
           \A d \in Caller \ {c} : outcome'[d] = outcome[d]
    PROVE  UNCHANGED Channel!vars
<1>1. pc'[c] = phase /\ \A d \in Caller \ {c} : pc'[d] = pc[d]
  BY DEF Shape, Goto
<1>2. ChannelState'[c] = ChannelState[c]
  BY <1>1 DEF ChannelState
<1>3. ChannelState' = [ChannelState EXCEPT ![c] = ChannelState[c]]
  BY <1>1, <1>2, OthersStay
<1>4. ChannelState' = ChannelState
  BY <1>3 DEF ChannelState
<1>5. QED
  BY <1>4 DEF Channel!vars

\* The finally clause is Succeed or Fail of the channel.
LEMMA FinallyMaps ==
    ASSUME Shape, NEW c \in Caller, NEW out, Finally(c, out), UNCHANGED taken,
           pc[c] \notin {"new", "over"}, out = "returned" => c \in taken
    PROVE  Channel!Next \/ UNCHANGED Channel!vars
<1>1. CASE c \in links
  <2>1. \A d \in Caller \ {c} : outcome'[d] = outcome[d]
    BY <1>1 DEF Finally, EndsWith, Shape
  <2>2. QED
    BY <1>1, <2>1, StutterMaps DEF Finally
<1>2. CASE c \notin links
  BY <1>2, ExitMaps DEF Finally
<1>3. QED
  BY <1>1, <1>2

\* Every step is a step of the channel or a stutter.
LEMMA StepMaps == IInv /\ [Next]_vars => [Channel!Next]_(Channel!vars)
<1> SUFFICES ASSUME IInv, [Next]_vars PROVE Channel!Next \/ UNCHANGED Channel!vars
  OBVIOUS
<1>0. Shape /\ WrittenOnce /\ LockInv /\ TakenLater
  BY DEF IInv
<1>1. ASSUME NEW c \in Caller, AsyncSend(c) PROVE Channel!Next
  <2>1. /\ pc[c] = "new" /\ pc'[c] = "lock" /\ c \notin taken
        /\ \A d \in Caller \ {c} : pc'[d] = pc[d]
        /\ UNCHANGED <<outcome, taken>> /\ waiting' = Append(waiting, c)
    BY <1>0, <1>1 DEF AsyncSend, Goto, Shape, TakenLater, Before
  <2>2. ChannelState[c] = "new" /\ ChannelState'[c] = "asked"
    BY <2>1 DEF ChannelState
  <2>3. ChannelState' = [ChannelState EXCEPT ![c] = "asked"]
    BY <2>1, <2>2, OthersStay
  <2>4. QED
    BY <2>1, <2>2, <2>3 DEF Channel!Next, Channel!Ask
<1>2. ASSUME NEW c \in Caller, FindsDevice(c) \/ Connects(c)
      PROVE  Channel!Next \/ UNCHANGED Channel!vars
  <2>1. pc[c] \in {"lock", "connection"} /\ UNCHANGED taken
    BY <1>2 DEF FindsDevice, Connects
  <2>2. CASE Exits(c, "raised")
    BY <1>0, <2>1, <2>2, ExitMaps
  <2>3. CASE \E phase \in {"connection", "start"} : Goto(c, phase) /\ UNCHANGED <<waiting, outcome>>
    BY <1>0, <2>1, <2>3, StutterMaps
  <2>4. QED
    BY <1>2, <2>2, <2>3 DEF FindsDevice, Connects
<1>3. ASSUME NEW c \in Caller, Advances(c) PROVE Channel!Next \/ UNCHANGED Channel!vars
  <2>1. /\ pc[c] \in {"start", "keyExchange", "authCheck"} /\ UNCHANGED taken
        /\ NextPhase[pc[c]] \notin {"new", "over"}
    BY <1>3 DEF Advances, NextPhase
  <2>2. CASE Finally(c, "raised")
    BY <1>0, <2>1, <2>2, FinallyMaps
  <2>3. CASE Goto(c, NextPhase[pc[c]]) /\ UNCHANGED <<waiting, outcome>>
    BY <1>0, <2>1, <2>3, StutterMaps
  <2>4. QED
    BY <1>3, <2>2, <2>3 DEF Advances
<1>4. ASSUME NEW c \in Caller, WritesMotor(c) PROVE Channel!Next \/ UNCHANGED Channel!vars
  <2>1. pc[c] = "settle" /\ c \notin taken
    BY <1>0, <1>4 DEF WritesMotor, TakenLater, Before
  <2>2. CASE taken' = taken
    <3>1. CASE Finally(c, "raised")
      BY <1>0, <2>1, <2>2, <3>1, FinallyMaps
    <3>2. CASE Goto(c, "motorReply") /\ UNCHANGED <<waiting, outcome>>
      BY <1>0, <2>1, <2>2, <3>2, StutterMaps
    <3>3. QED
      BY <1>4, <3>1, <3>2 DEF WritesMotor
  <2>3. CASE c \in links /\ taken' = taken \cup {c}
    <3>1. /\ pc'[c] \in {"motorReply", "disconnect"} /\ UNCHANGED waiting
          /\ \A d \in Caller \ {c} : pc'[d] = pc[d] /\ outcome'[d] = outcome[d]
      BY <1>0, <1>4, <2>3 DEF WritesMotor, Finally, Goto, EndsWith, Shape
    <3>2. ChannelState[c] = "asked" /\ ChannelState'[c] = "delivered"
      BY <2>1, <2>3, <3>1 DEF ChannelState
    <3>3. ChannelState' = [ChannelState EXCEPT ![c] = "delivered"]
      BY <2>3, <3>1, <3>2, OthersStay
    <3>4. HasLock(c)
      BY <1>0, <2>1, HasLockMeans DEF LockInv, Queue, Locked, Holding
    <3>5. QED
      BY <3>1, <3>2, <3>3, <3>4 DEF HasLock, Channel!Next, Channel!Deliver
  <2>4. QED
    BY <1>4, <2>2, <2>3 DEF WritesMotor
<1>5. ASSUME NEW c \in Caller, MotorAnswered(c) PROVE Channel!Next \/ UNCHANGED Channel!vars
  <2>1. PICK answered \in BOOLEAN :
          /\ answered => c \in taken
          /\ Finally(c, IF answered THEN "returned" ELSE "raised")
    BY <1>5 DEF MotorAnswered
  <2>2. pc[c] = "motorReply" /\ UNCHANGED taken
    BY <1>5 DEF MotorAnswered
  <2>3. QED
    BY <1>0, <2>1, <2>2, FinallyMaps
<1>6. ASSUME NEW c \in Caller, Disconnects(c) PROVE Channel!Next
  <2>1. outcome[c] = "returned" => c \in taken
    BY <1>0 DEF WrittenOnce
  <2>2. QED
    BY <1>0, <1>6, <2>1, ExitMaps DEF Disconnects
<1>7. ASSUME NEW c \in Caller, Cancelled(c) PROVE Channel!Next \/ UNCHANGED Channel!vars
  <2>1. pc[c] \notin {"new", "over"} /\ UNCHANGED taken
    BY <1>7 DEF Cancelled
  <2>2. Exits(c, "raised") \/ Finally(c, "raised")
    BY <1>7 DEF Cancelled
  <2>3. QED
    BY <1>0, <2>1, <2>2, ExitMaps, FinallyMaps
<1>8. CASE LinkDrops \/ UNCHANGED vars
  BY <1>8 DEF LinkDrops, vars, Channel!vars, ChannelState
<1>9. QED
  BY <1>1, <1>2, <1>3, <1>4, <1>5, <1>6, <1>7, <1>8 DEF Next, Continues

\* The controller keeps the promise of MotorChannel: motor values reach the gate one at a
\* time, in the order of the calls, and a call succeeds only after its value got there.
THEOREM ChannelKept == Spec => ImplementsMotorChannel
<1>1. Init => IInv
  BY LockInit DEF Init, IInv, Shape, Phase, WrittenOnce, Before, TakenLater
<1>2. IInv /\ [Next]_vars => IInv'
  BY ShapeStep, WrittenOnceStep, LockStep, TakenStep DEF IInv
<1>3. Init => Channel!Init
  BY DEF Init, Channel!Init, ChannelState
<1>4. QED
  BY <1>1, <1>2, <1>3, StepMaps, PTL DEF Spec, Channel!Spec, ImplementsMotorChannel
==============================================================================
