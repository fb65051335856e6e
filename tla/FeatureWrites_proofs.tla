------------------------- MODULE FeatureWrites_proofs -------------------------
(***************************************************************************)
(* Theorems about FeatureWrites for every number of settings, values and   *)
(* changes.                                                                *)
(***************************************************************************)
EXTENDS FeatureWrites, TLAPS

\* The types of the state.
LEMMA TypeStep == TypeOK /\ [Next]_vars => TypeOK'
<1> SUFFICES ASSUME TypeOK, [Next]_vars PROVE TypeOK'
  OBVIOUS
<1> USE MaxChangesAssumption DEF TypeOK, WriterRecord, RefreshRecord, Object
<1>0. \A object, s : object \in Object /\ s \in Setting => Written(object, s) \in Object
  <2>1. ASSUME NEW object \in Object, NEW s \in Setting PROVE Written(object, s) \in Object
    <3>1. writer[s].root \in Object
      OBVIOUS
    <3>2. QED
      BY <3>1 DEF Written
  <2>2. QED
    BY <2>1
<1>1. ASSUME NEW s \in Setting, NEW v \in Value, SetStarts(s, v) PROVE TypeOK'
  BY <1>1 DEF SetStarts
<1>2. ASSUME NEW s \in Setting, NEW v \in Value, AppChanges(s, v) PROVE TypeOK'
  <2>1. cloud' \in Object
    BY <1>2 DEF AppChanges
  <2>2. changes' \in 0..MaxChanges
    BY <1>2 DEF AppChanges
  <2>3. QED
    BY <1>2, <2>1, <2>2 DEF AppChanges
<1>3. ASSUME NEW s \in Setting, CloudTakes(s) PROVE TypeOK'
  <2>1. cloud' \in Object
    BY <1>0, <1>3 DEF CloudTakes
  <2>2. QED
    BY <1>3, <2>1 DEF CloudTakes
<1>4. ASSUME NEW s \in Setting, SetEnds(s) \/ SetFails(s) PROVE TypeOK'
  <2>1. writer[s] \in WriterRecord
    OBVIOUS
  <2>2. writer' \in [Setting -> WriterRecord]
    <3>1. writer' = [writer EXCEPT ![s] = [writer[s] EXCEPT !.pc = "idle"]]
      BY <1>4 DEF SetEnds, SetFails
    <3>2. [writer[s] EXCEPT !.pc = "idle"] \in WriterRecord
      BY <2>1
    <3>3. QED
      BY <3>1, <3>2
  <2>3. {cloud, all, data}' \subseteq Object
    BY <1>0, <1>4 DEF SetEnds, SetFails
  <2>4. QED
    BY <1>4, <2>2, <2>3 DEF SetEnds, SetFails
<1>5. CASE StartsFull \/ StartsCached \/ CloudLists \/ ListArrives \/ RefreshFails \/ RefreshEnds
  BY <1>5 DEF StartsFull, StartsCached, CloudLists, ListArrives, RefreshFails, RefreshEnds
<1>6. CASE UNCHANGED vars
  BY <1>6 DEF vars
<1>7. QED
  BY <1>1, <1>2, <1>3, <1>4, <1>5, <1>6 DEF Next

\* The state of the settings stays well-formed.
THEOREM TypeCorrect == Spec => []TypeOK
<1>1. Init => TypeOK
  BY MaxChangesAssumption DEF Init, TypeOK, WriterRecord, RefreshRecord
<1>2. QED
  BY <1>1, TypeStep, PTL DEF Spec

\* Settings that are written together have been the cloud's together at some time.
Known(object) ==
    \A s \in Setting : \E had \in held : \A t \in Part(s) : object[t] = had[t]

\* So are those of every copy that may still be put in place: of the refresh always, of a
\* writer once the cloud has taken it.
AllKnown ==
    /\ cloud \in held
    /\ Known(all) /\ Known(data) /\ Known(refresh.devices)
    /\ \A s \in Setting : writer[s].pc = "taken"
          => \E had \in held : \A t \in Part(s) : writer[s].root[t] = had[t]

\* Two settings are written together or have nothing in common.
LEMMA Parts ==
    ASSUME NEW s \in Setting, NEW u \in Setting, NEW t \in Part(s), t \in Part(u)
    PROVE  Part(s) = Part(u)
BY DEF Part

\* The part of a feature object is a set of settings.
LEMMA PartType == \A s \in Setting : Part(s) \subseteq Setting
BY DEF Part, Setting

\* What a writer puts in place of known settings is known.
LEMMA WrittenKnown ==
    ASSUME NEW object, Known(object), NEW s \in Setting,
           \E had \in held : \A t \in Part(s) : writer[s].root[t] = had[t]
    PROVE  Known(Written(object, s))
<1> SUFFICES ASSUME NEW u \in Setting
             PROVE  \E had \in held : \A t \in Part(u) : Written(object, s)[t] = had[t]
  BY DEF Known
<1>1. CASE Part(u) = Part(s)
  <2>1. \A t \in Part(u) : Written(object, s)[t] = writer[s].root[t]
    BY <1>1, PartType DEF Written
  <2>2. QED
    BY <1>1, <2>1
<1>2. CASE Part(u) # Part(s)
  <2>1. \A t \in Part(u) : t \notin Part(s)
    BY <1>2, Parts
  <2>2. \A t \in Part(u) : Written(object, s)[t] = object[t]
    BY <2>1, PartType DEF Written
  <2>3. QED
    BY <2>2 DEF Known
<1>3. QED
  BY <1>1, <1>2

\* Every step of a writer, of the app and of the refresh keeps it so.
LEMMA KnownStep == TypeOK /\ AllKnown /\ [Next]_vars => AllKnown'
<1> SUFFICES ASSUME TypeOK, AllKnown, [Next]_vars PROVE AllKnown'
  OBVIOUS
<1>0. writer \in [Setting -> WriterRecord] /\ refresh \in RefreshRecord
  BY DEF TypeOK
<1>1. ASSUME NEW s \in Setting, NEW v \in Value, SetStarts(s, v) PROVE AllKnown'
  BY <1>0, <1>1 DEF SetStarts, AllKnown, Known
<1>2. ASSUME NEW s \in Setting, NEW v \in Value, AppChanges(s, v) PROVE AllKnown'
  BY <1>2 DEF AppChanges, AllKnown, Known
<1>3. ASSUME NEW s \in Setting, CloudTakes(s) PROVE AllKnown'
  <2>1. \A u \in Setting : writer'[u].root = writer[u].root
    BY <1>0, <1>3 DEF CloudTakes, WriterRecord
  <2>0. \A u \in Setting : u # s => writer'[u] = writer[u]
    BY <1>0, <1>3 DEF CloudTakes, WriterRecord
  <2>2. held \subseteq held' /\ cloud' \in held' /\ UNCHANGED <<all, data, refresh>>
    BY <1>3 DEF CloudTakes
  <2>3. \A t \in Part(s) : writer[s].root[t] = cloud'[t]
    BY <1>3, PartType DEF CloudTakes, Written
  <2>4. Known(all)' /\ Known(data)' /\ Known(refresh.devices)'
    BY <2>2 DEF AllKnown, Known
  <2>5. \A u \in Setting : writer'[u].pc = "taken"
          => \E had \in held' : \A t \in Part(u) : writer'[u].root[t] = had[t]
    <3>1. ASSUME NEW u \in Setting, u # s, writer'[u].pc = "taken"
          PROVE  \E had \in held' : \A t \in Part(u) : writer'[u].root[t] = had[t]
      <4>1. writer'[u] = writer[u]
        BY <2>0, <3>1
      <4>2. PICK had \in held : \A t \in Part(u) : writer[u].root[t] = had[t]
        BY <3>1, <4>1 DEF AllKnown
      <4>3. QED
        BY <2>2, <4>1, <4>2
    <3>2. \A t \in Part(s) : writer'[s].root[t] = cloud'[t]
      <4>1. writer'[s].root = writer[s].root
        BY <2>1
      <4>2. QED
        BY <2>3, <4>1
    <3>3. QED
      BY <2>2, <3>1, <3>2
  <2>6. QED
    BY <2>2, <2>4, <2>5 DEF AllKnown
<1>4. ASSUME NEW s \in Setting, SetEnds(s) \/ SetFails(s) PROVE AllKnown'
  <2>1. \A u \in Setting : writer'[u].pc = "taken" => writer'[u] = writer[u]
    BY <1>0, <1>4 DEF SetEnds, SetFails, WriterRecord
  <2>2. UNCHANGED <<cloud, held, refresh>>
    BY <1>4 DEF SetEnds, SetFails
  <2>3. \/ all' = all /\ data' = data
        \/ /\ writer[s].pc = "taken"
           /\ all' = Written(all, s) /\ data' = Written(data, s)
    BY <1>4 DEF SetEnds, SetFails
  <2>4. writer[s].pc = "taken" => Known(Written(all, s)) /\ Known(Written(data, s))
    BY WrittenKnown DEF AllKnown
  <2>5. Known(all') /\ Known(data')
    BY <2>3, <2>4 DEF AllKnown
  <2>6. Known(all)' /\ Known(data)' /\ Known(refresh.devices)'
    BY <2>2, <2>5 DEF AllKnown, Known
  <2>7. QED
    BY <2>1, <2>2, <2>6 DEF AllKnown
<1>5. CASE StartsFull \/ StartsCached \/ CloudLists \/ ListArrives \/ RefreshFails \/ RefreshEnds
  <2>1. UNCHANGED <<cloud, writer, held>>
    BY <1>5 DEF StartsFull, StartsCached, CloudLists, ListArrives, RefreshFails, RefreshEnds
  <2>2. Known(cloud)
    BY DEF AllKnown, Known
  <2>3. /\ all' \in {all, refresh.devices} /\ data' \in {data, refresh.devices}
        /\ refresh'.devices \in {refresh.devices, all, cloud}
    BY <1>0, <1>5 DEF StartsFull, StartsCached, CloudLists, ListArrives, RefreshFails,
                      RefreshEnds, RefreshRecord
  <2>4. Known(all') /\ Known(data') /\ Known(refresh'.devices)
    BY <2>2, <2>3 DEF AllKnown
  <2>5. Known(all)' /\ Known(data)' /\ Known(refresh.devices)'
    BY <2>1, <2>4 DEF Known
  <2>6. QED
    BY <2>1, <2>5 DEF AllKnown
<1>6. CASE UNCHANGED vars
  BY <1>6 DEF vars, AllKnown, Known
<1>7. QED
  BY <1>1, <1>2, <1>3, <1>4, <1>5, <1>6 DEF Next

\* What the entities of an object show together is never a mixture the cloud never had.
THEOREM NoMixture == Spec => []NothingInvented
<1>1. Init => AllKnown
  BY DEF Init, AllKnown, Known
<1>2. AllKnown => NothingInvented
  BY DEF AllKnown, Known, NothingInvented
<1>3. QED
  BY <1>1, <1>2, TypeCorrect, KnownStep, PTL DEF Spec
==============================================================================
