------------------------------ MODULE BleSession ------------------------------
(***************************************************************************)
(* One call of BleController in detail: the _BleSession that reads the     *)
(* gate's software version, exchanges keys, proves the verification code   *)
(* and sends the motor frame, request by request over real frames.         *)
(*                                                                         *)
(* The gate is external: it reads a request when it is written and answers *)
(* any way it likes, or not; frames it sends unasked may come before, after*)
(* and between its answers, and frames of the two characteristics overtake *)
(* each other.  Time is counted from the write of a request.               *)
(***************************************************************************)
EXTENDS BleFrames, FiniteSets

CONSTANTS
    SoftVersion,    \* "ezglp" of the gates
    CodeMatches,    \* has the user entered the gate's verification code?
    Timeout,        \* of a request, in ticks
    MaxInFlight     \* bound on the frames that have not been looked at

ASSUME SessionAssumption == CodeMatches \in BOOLEAN /\ {Timeout, MaxInFlight} \subseteq Nat \ {0}

VARIABLES
    pc,         \* where the call is, as in BleController
    outcome,    \* what a call that is over, or disconnects, ends with
    link,       \* client.is_connected
    soft,       \* _soft_version
    key,        \* session_key
    air,        \* frames that the gate has sent and nobody received
    queue,      \* _queue
    left,       \* time left of the request's deadline
    gate,       \* does the gate hold the session's key, and has it taken the motor value?
    written,    \* motor requests written
    stuck,      \* history: disconnect() raised
    disturbed   \* history: something has gone wrong that may make the call fail

vars == <<pc, outcome, link, soft, key, air, queue, left, gate, written, stuck, disturbed>>

Requested == [keyExchange |-> CMD_LOCAL_AUTH_PUBKEY, authCheck |-> CMD_LOCAL_AUTH_CHECK,
              motorReply |-> CMD_SEND_TRANSPORT]

\* The values of one key exchange, of a length of one byte: the ends' public keys, what the
\* gate makes up, and the keys that either end computes from them.
PublicKeyLength == 1
AppPublic == <<3>>
GatePublic == <<5>>
Random == <<9>>
MasterKey(gatePublic) == IF gatePublic = GatePublic THEN 40 ELSE 50
SessionKey(random, code) == IF random = Random /\ code THEN 80 ELSE 100

Init ==
    /\ pc = "new" /\ outcome = "none" /\ link = FALSE
    /\ soft = 2 /\ key = NoKey
    /\ air = {} /\ queue = <<>> /\ left = 0
    /\ gate = [key |-> NoKey, taken |-> FALSE]
    /\ written = 0 /\ stuck = FALSE /\ disturbed = FALSE

------------------------------------------------------------------------------
(* The gate                                                                 *)

Sends(command, payload, v, k) == BuildFrame(command, payload, 0, v, k)

\* The common reply to a command: its tag 2 names the command, its tag 3 is the result.
CommonReply(command, result, v) ==
    Sends(CMD_COMMON_REPLY, MakeTlv(2, Little(command, 2), v) \o MakeTlv(3, <<result>>, v), v, NoKey)

MotorResponse(result) == <<170, 16, 2, 0, 8, 0, 0, 0, 26, 39, 2, 0, 0, result, 0, 0>>

\* A reaction to a request: the gate's keys and motor afterwards, the frame it sends, and
\* whether that is what the app hopes for.
Reaction(g, frame, good) == [gate |-> g, frame |-> frame, good |-> good]

NoFrame == <<>>
Taken == [gate EXCEPT !.taken = TRUE]

\* What a gate of version v hopes to do with a request that it has read.
Complies(request, v) ==
    CASE request.command = CMD_LOCAL_AUTH_PUBKEY ->
           {Reaction(gate, Sends(CMD_LOCAL_AUTH_PUBKEY,
                                 MakeTlv(3, <<0>>, v) \o MakeTlv(1, GatePublic, v) \o MakeTlv(4, <<>>, v)
                                    \o MakeTlv(2, Encrypt(MasterKey(GatePublic), Random), v),
                                 v, NoKey), TRUE)}
      [] request.command = CMD_LOCAL_AUTH_CHECK ->
           LET own == SessionKey(Random, TRUE)
               right == request.payload = MakeTlv(1, Encrypt(MasterKey(GatePublic), <<own>>), v)
           IN  {Reaction(IF right THEN [gate EXCEPT !.key = own] ELSE gate,
                         Sends(CMD_LOCAL_AUTH_CHECK, MakeTlv(2, <<IF right THEN 0 ELSE 1>>, v), v, NoKey),
                         right)}
      [] request.command = CMD_SEND_TRANSPORT /\ request.payload = BuildMotorFrame("open") ->
           {Reaction(Taken, Sends(CMD_SEND_TRANSPORT, MotorResponse(0), v, gate.key), TRUE)}
      [] OTHER -> {}

\* What else it may do: reject the request in one way or another, or not answer.
Refuses(request, v) ==
    {Reaction(gate, frame, FALSE) :
        frame \in {NoFrame, CommonReply(request.command, 1, v),
                   Sends(request.command, MakeTlv(3, <<1>>, v), v, NoKey)}}
    \cup (IF request.command # CMD_SEND_TRANSPORT THEN {}
          ELSE {Reaction(Taken, NoFrame, FALSE),
                Reaction(gate, Sends(CMD_SEND_TRANSPORT, MotorResponse(1), v, gate.key), FALSE)})

\* A request that the gate cannot read is lost on it.
Reactions(raw, v) ==
    LET request == ParseFrame(raw, v, gate.key)
    IN  IF request = Unreadable THEN {Reaction(gate, NoFrame, TRUE)}
        ELSE Complies(request, v) \cup Refuses(request, v)

\* Frames that a gate sends unasked and a call ignores: an event, a reply to somebody else.
Harmless == {Sends(4097, <<>>, soft, NoKey), CommonReply(4097, 0, soft)}

\* Those that a call fails on: what it cannot read, an encrypted event before the session's
\* key is known, and a common reply that accepts the request without an answer in it.
Harmful == {<<0>>, Sends(4097, <<>>, soft, gate.key)}
              \cup (IF pc \in DOMAIN Requested THEN {CommonReply(Requested[pc], 0, soft)} ELSE {})

InFlight == Cardinality(air) + Len(queue)

------------------------------------------------------------------------------
(* The call around the session, as in BleController                         *)

\* The finally clause: a client that is still connected is disconnected first.
Stops(out) == pc' = (IF link THEN "disconnect" ELSE "over") /\ outcome' = out

Fails == Stops("raised") /\ disturbed' = TRUE

\* async_send, the lock of a call without rivals, discovery and connection.
Reaches(from, to) ==
    /\ pc = from /\ pc' = to
    /\ link' = (to = "start")
    /\ UNCHANGED <<outcome, soft, key, air, queue, left, gate, written, stuck, disturbed>>

Opens == Reaches("new", "lock") \/ Reaches("lock", "connection") \/ Reaches("connection", "start")

OpenFails ==
    /\ pc \in {"lock", "connection"}
    /\ Fails
    /\ UNCHANGED <<link, soft, key, air, queue, left, gate, written, stuck>>

Disconnects ==
    /\ pc = "disconnect" /\ pc' = "over"
    /\ \/ link' = FALSE /\ UNCHANGED stuck
       \/ stuck' = TRUE /\ UNCHANGED link
    /\ UNCHANGED <<outcome, soft, key, air, queue, left, gate, written, disturbed>>

Cancelled ==
    /\ pc \notin {"new", "over"}
    /\ IF pc = "disconnect"
       THEN pc' = "over" /\ outcome' = "raised" /\ stuck' = TRUE /\ disturbed' = TRUE
       ELSE Fails /\ UNCHANGED stuck
    /\ UNCHANGED <<link, soft, key, air, queue, left, gate, written>>

LinkDrops ==
    /\ link /\ link' = FALSE
    /\ disturbed' = TRUE
    /\ air' = {}
    /\ UNCHANGED <<pc, outcome, soft, key, queue, left, gate, written, stuck>>

------------------------------------------------------------------------------
(* The session                                                              *)

\* async_request up to its wait: the request is built and written, and the gate reads it.
Writes(phase, command, payload, sequence, k) ==
    /\ link
    /\ \E r \in Reactions(BuildFrame(command, payload, sequence, soft', k), soft') :
         /\ gate' = r.gate
         /\ air' = IF r.frame = NoFrame THEN air ELSE air \cup {r.frame}
         /\ disturbed' = (disturbed \/ ~r.good)
    /\ pc' = phase /\ left' = Timeout
    /\ UNCHANGED <<outcome, link, stuck>>

\* async_start reads the software version, and the app's key is sent.
Starts ==
    /\ pc = "start"
    /\ \E v \in SoftVersion :
         /\ soft' = v
         /\ Writes("keyExchange", CMD_LOCAL_AUTH_PUBKEY, MakeTlv(1, AppPublic, v), 0, NoKey)
    /\ UNCHANGED <<key, queue, written>>

\* No service, no characteristic, unreadable transport data, another authentication mode, or
\* a write that raises before the motor request.
SessionFails ==
    /\ pc \in {"start", "keyExchange", "authCheck"}
    /\ Fails
    /\ UNCHANGED <<link, soft, key, air, queue, left, gate, written, stuck>>

\* async_request that starts its timeout anew for every frame (a mutation).
IgnoresAndWaitsAnew ==
    left' = Timeout /\ UNCHANGED <<pc, outcome, link, key, air, gate, stuck, disturbed>>

Ignores == UNCHANGED <<pc, outcome, link, key, air, left, gate, stuck, disturbed>>

Raises == Stops("raised") /\ UNCHANGED <<link, key, air, left, gate, stuck, disturbed>>

\* What async_authenticate makes of the answer to its key: the key of the session and the
\* proof of it, if the answer is complete.
Exchanged(payload) ==
    LET fields == ParseTlvs(payload, soft)
        public == Field(fields, 1)
        random == Decrypt(MasterKey(public), Field(fields, 2))
        session == SessionKey(random, CodeMatches)
    IN  IF /\ fields # Truncated /\ LittleInt(Field(fields, 3), -1) = 0
           /\ Len(public) = PublicKeyLength /\ random # <<>>
           /\ LittleInt(Field(fields, 4), 0) = 0
        THEN [key |-> session, proof |-> Encrypt(MasterKey(public), <<session>>)]
        ELSE [key |-> NoKey, proof |-> <<>>]

\* The gate's key has arrived, and the proof is sent.
KeyArrives(payload) ==
    \E e \in {Exchanged(payload)} :
        IF e.key = NoKey \/ ~link THEN Raises
        ELSE /\ Writes("authCheck", CMD_LOCAL_AUTH_CHECK, MakeTlv(1, e.proof, soft), 1, NoKey)
             /\ key' = e.key

\* async_authenticate that does not read the result of its proof (a mutation).
ProofUnread(payload) ==
    pc' = "settle" /\ UNCHANGED <<outcome, link, key, air, left, gate, stuck, disturbed>>

\* The gate's judgement has arrived: an accepted proof is followed by the settle delay.
ProofJudged(payload) ==
    LET fields == ParseTlvs(payload, soft)
    IN  IF fields # Truncated /\ LittleInt(Field(fields, 2), -1) = 0
        THEN pc' = "settle" /\ UNCHANGED <<outcome, link, key, air, left, gate, stuck, disturbed>>
        ELSE Raises

\* A call that takes any answer to its motor request for an agreement (a mutation).
MotorAnswersAnyhow(payload) ==
    /\ Stops("returned")
    /\ UNCHANGED <<link, key, air, left, gate, stuck, disturbed>>

\* The motor's answer has arrived.
MotorAnswers(payload) ==
    /\ Stops(IF ValidMotorResponse(payload) THEN "returned" ELSE "raised")
    /\ UNCHANGED <<link, key, air, left, gate, stuck, disturbed>>

Answered(payload) == \/ pc = "keyExchange" /\ KeyArrives(payload)
                     \/ pc = "authCheck" /\ ProofJudged(payload)
                     \/ pc = "motorReply" /\ MotorAnswers(payload)

\* After the settle delay the motor request is written; the write may raise, and even then
\* the gate may have taken it.
WritesMotor ==
    /\ pc = "settle"
    /\ UNCHANGED soft
    /\ written' = written + 1
    /\ \/ Writes("motorReply", CMD_SEND_TRANSPORT, BuildMotorFrame("open"), 2, key)
       \/ /\ Fails
          /\ gate' \in {gate} \cup (IF link /\ gate.key = key THEN {Taken} ELSE {})
          /\ UNCHANGED <<link, air, left, stuck>>
    /\ UNCHANGED <<key, queue>>

\* What async_request makes of a frame: the answer, alone or in a common reply that accepts
\* the request, an error, or none of its business.
ReadAs(raw) ==
    LET frame == ParseFrame(raw, soft, IF pc = "motorReply" THEN key ELSE NoKey)
        common == ParseTlvs(frame.payload, soft)
        as(what) == [what |-> what, payload |-> frame.payload]
    IN  CASE frame = Unreadable -> as("error")
          [] frame.command = Requested[pc] -> as("answer")
          [] frame.command = CMD_COMMON_REPLY /\ common = Truncated -> as("error")
          [] /\ frame.command = CMD_COMMON_REPLY /\ common # Truncated
             /\ LittleInt(Field(common, 2), -1) = Requested[pc]
                -> as(IF LittleInt(Field(common, 3), -1) = 0 THEN "answer" ELSE "error")
          [] OTHER -> as("ignored")

\* async_request looks at a frame.
Receives ==
    /\ pc \in DOMAIN Requested /\ left > 0 /\ queue # <<>>
    /\ queue' = Tail(queue)
    /\ UNCHANGED <<soft, written>>
    /\ \E read \in {ReadAs(Head(queue))} : \/ read.what = "answer" /\ Answered(read.payload)
                                           \/ read.what = "error" /\ Raises
                                           \/ read.what = "ignored" /\ Ignores

\* Nothing has come before the deadline.
TimesOut ==
    /\ pc \in DOMAIN Requested /\ left = 0
    /\ Stops("raised")
    /\ UNCHANGED <<link, soft, key, air, queue, left, gate, written, stuck, disturbed>>

\* Time passes.  Frames that have not been looked at when the deadline comes are late.
Tick ==
    /\ pc \in DOMAIN Requested /\ left > 0
    /\ left' = left - 1
    /\ disturbed' = (disturbed \/ (left = 1 /\ InFlight > 0))
    /\ UNCHANGED <<pc, outcome, link, soft, key, air, queue, gate, written, stuck>>

\* _notification: a frame arrives.
Notification ==
    /\ link
    /\ \E f \in air : queue' = Append(queue, f) /\ air' = air \ {f}
    /\ UNCHANGED <<pc, outcome, link, soft, key, left, gate, written, stuck, disturbed>>

\* The gate sends a frame unasked.
Chats ==
    /\ link /\ pc \in {"settle"} \cup DOMAIN Requested /\ InFlight < MaxInFlight
    /\ \E f \in Harmless \cup Harmful :
         /\ air' = air \cup {f}
         /\ disturbed' = (disturbed \/ f \in Harmful)
    /\ UNCHANGED <<pc, outcome, link, soft, key, queue, left, gate, written, stuck>>

------------------------------------------------------------------------------
Next == \/ Opens \/ OpenFails \/ Starts \/ SessionFails \/ WritesMotor \/ Receives \/ TimesOut
        \/ Disconnects \/ Tick \/ Notification \/ Chats \/ Cancelled \/ LinkDrops

Spec == Init /\ [][Next]_vars

\* Time passes, and a wait whose time is up ends.  The gate need not say anything.
FairSpec == Spec /\ WF_vars(Tick) /\ WF_vars(TimesOut)

------------------------------------------------------------------------------
(* Properties                                                               *)

\* A call that nothing disturbs succeeds: with the right verification code, with every
\* software version's length fields and whatever frames of no concern come between, each
\* side reads what the other writes and both end up with the same keys.
UndisturbedSucceeds == pc = "over" /\ outcome = "raised" => disturbed \/ ~CodeMatches

\* The motor value is only ever written to a gate that has accepted the proof, under the key
\* that the gate holds.
OnlyAuthenticated == pc = "motorReply" \/ written > 0 => key # NoKey /\ key = gate.key

\* A frame with one byte changed is not read as anything: by its header, its length or its
\* checksum (_parse_frame).
ChangeIsNoticed ==
    \A f \in air : \A i \in DOMAIN f : \A byte \in {(f[i] + d) % 256 : d \in {1, 16, 128, 255}} :
        ParseFrame([f EXCEPT ![i] = byte], soft, gate.key) = Unreadable

\* A request is over by its deadline: a gate that goes on sending frames of no concern
\* cannot hold the call (async_request).
RequestEnds == \A phase \in DOMAIN Requested : pc = phase ~> pc # phase

\* The session does what BleController says of a call.
Call == INSTANCE BleController WITH
            Caller <- {"call"},
            waiting <- IF pc \in {"new", "over"} THEN <<>> ELSE <<"call">>,
            pc <- [c \in {"call"} |-> pc],
            outcome <- [c \in {"call"} |-> outcome],
            links <- IF link THEN {"call"} ELSE {},
            written <- [c \in {"call"} |-> written],
            taken <- IF gate.taken THEN {"call"} ELSE {},
            stuck <- IF stuck THEN {"call"} ELSE {}

\* What the requests, the gate's answers and the deadline make of a call is what
\* BleController takes for granted: above all, it returns only if the gate took the value.
ImplementsCall == Call!Spec
==============================================================================
