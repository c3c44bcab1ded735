------------------------- MODULE ControlCenterProofs -------------------------
(***************************************************************************)
(* What a traced mutation guarantees for any number of operations, any     *)
(* maxRecords, any failing writes and any number of stops of the process.  *)
(* The system takes the steps of OperationStore, so its invariant Inv      *)
(* holds here; TracedInv adds that a record is only ever dropped from a    *)
(* full history, and the rest relates the handlers to what they wrote.     *)
(***************************************************************************)
EXTENDS ControlCenter, OperationStoreProofs

-----------------------------------------------------------------------------
(***************************************************************************)
(* The operation store drops no record while its history has room.         *)
(***************************************************************************)
Full(recs) == Cardinality(Recorded(recs)) >= MaxRecords - 1

Traced(recs) == \A id \in Ids :
                  handler[id] \notin {"none", "refused"} => id \in Recorded(recs) \/ Full(recs)

TracedInv == Traced(file) /\ (up => Traced(records))

\* A history has a size.
LEMMA RecordedSize ==
  ASSUME NEW recs
  PROVE  IsFiniteSet(Recorded(recs)) /\ Cardinality(Recorded(recs)) \in Nat
BY IdsAssumption, FS_Subset, FS_CardinalityType DEF Recorded

\* With more records a full history stays full.
LEMMA MoreIsFull ==
  ASSUME NEW few, NEW many, Recorded(few) \subseteq Recorded(many), Full(few)
  PROVE  Full(many)
<1>1. /\ Cardinality(Recorded(few)) <= Cardinality(Recorded(many))
      /\ Cardinality(Recorded(few)) \in Nat /\ Cardinality(Recorded(many)) \in Nat
  BY RecordedSize, FS_Subset
<1> QED
  BY <1>1, MaxRecordsAssumption DEF Full

\* pruneLocked leaves the history as it is, or with maxRecords in it.
LEMMA PrunedFull ==
  ASSUME NEW recs \in [Ids -> Record \cup {None}], NEW pruned \in Pruned(recs)
  PROVE  pruned = recs \/ Cardinality(Recorded(pruned)) = MaxRecords
<1>1. CASE Cardinality(Recorded(recs)) <= MaxRecords
  BY <1>1 DEF Pruned
<1>2. CASE ~(Cardinality(Recorded(recs)) <= MaxRecords)
  <2>1. PICK kept \in SUBSET Recorded(recs) :
          /\ Cardinality(kept) = MaxRecords
          /\ pruned = [id \in Ids |-> IF id \in kept THEN recs[id] ELSE None]
    BY <1>2 DEF Pruned
  <2>2. Recorded(pruned) = kept
    BY <2>1 DEF Recorded
  <2> QED
    BY <2>1, <2>2
<1> QED
  BY <1>1, <1>2

\* Start adds its record before anything is dropped.
LEMMA StartTraced ==
  ASSUME Inv, TracedInv, NEW id \in Ids, Start(id)
  PROVE  TracedInv'
<1> DEFINE started == [records EXCEPT ![id] = [status |-> "running", startedAt |-> clock]]
<1>1. /\ started \in [Ids -> Record \cup {None}]
      /\ started[id].status = "running"
      /\ \A other \in Ids \ {id} : started[other] = records[other]
  BY StartedRecord DEF Start
<1>2. /\ up /\ up' /\ file' = records' /\ records' \in Pruned(started)
      /\ handler' = [handler EXCEPT ![id] = "active"]
  BY DEF Start
<1> HIDE DEF started
<1>3. started[id] # None
  <2>1. [status |-> "running", startedAt |-> clock] \in Record
    BY DEF Inv, TypeOK, Record
  <2>2. started[id] = [status |-> "running", startedAt |-> clock]
    BY DEF Inv, TypeOK, started
  <2> QED
    BY <2>1, <2>2, RecordIsNotNone
<1>4. Recorded(records) \subseteq Recorded(started) /\ id \in Recorded(started)
  BY <1>1, <1>3 DEF Recorded
<1>5. ASSUME NEW other \in Ids, handler'[other] \notin {"none", "refused"}
      PROVE  other \in Recorded(records') \/ Full(records')
  <2>1. CASE records' = started
    <3>1. CASE other = id
      BY <1>4, <2>1, <3>1
    <3>2. CASE other # id
      <4>1. handler'[other] = handler[other]
        BY <1>2, <3>2 DEF Inv, TypeOK
      <4>2. other \in Recorded(records) \/ Full(records)
        BY <1>2, <1>5, <4>1 DEF TracedInv, Traced
      <4> QED
        BY <1>4, <2>1, <4>2, MoreIsFull
    <3> QED
      BY <3>1, <3>2
  <2>2. CASE Cardinality(Recorded(records')) = MaxRecords
    BY <2>2, MaxRecordsAssumption DEF Full
  <2> QED
    BY <1>1, <1>2, <2>1, <2>2, PrunedFull
<1> QED
  BY <1>2, <1>5 DEF TracedInv, Traced, Full, Recorded

\* A Start that fails takes its record out again, and what it has dropped was
\* dropped from a full history.
LEMMA StartFailsTraced ==
  ASSUME Inv, TracedInv, NEW id \in Ids, StartFails(id)
  PROVE  TracedInv'
<1> DEFINE started == [records EXCEPT ![id] = [status |-> "running", startedAt |-> clock]]
<1>1. /\ started \in [Ids -> Record \cup {None}]
      /\ \A other \in Ids \ {id} : started[other] = records[other]
      /\ records[id] = None
  BY StartedRecord DEF StartFails
<1>2. PICK pruned \in Pruned(started) : records' = [pruned EXCEPT ![id] = None]
  BY DEF StartFails
<1>3. /\ up /\ file' = file /\ handler' = [handler EXCEPT ![id] = "refused"]
  BY DEF StartFails
<1> HIDE DEF started
<1>4. pruned \in [Ids -> Record \cup {None}]
  BY <1>1, <1>2, PrunedRemoves
<1>5. ASSUME NEW other \in Ids, handler'[other] \notin {"none", "refused"}
      PROVE  handler[other] \notin {"none", "refused"}
  BY <1>3, <1>5 DEF Inv, TypeOK
<1>6. ASSUME NEW other \in Ids, handler'[other] \notin {"none", "refused"}
      PROVE  other \in Recorded(records') \/ Full(records')
  <2>1. CASE pruned = started
    <3>1. Recorded(records') = Recorded(records)
      BY <1>1, <1>2, <1>4, <2>1 DEF Recorded
    <3>2. other \in Recorded(records) \/ Full(records)
      BY <1>3, <1>5, <1>6 DEF TracedInv, Traced
    <3> QED
      BY <3>1, <3>2 DEF Full
  <2>2. CASE Cardinality(Recorded(pruned)) = MaxRecords
    <3>1. Recorded(records') = Recorded(pruned) \ {id}
      BY <1>2, <1>4 DEF Recorded
    <3>2. Cardinality(Recorded(pruned) \ {id}) >= MaxRecords - 1
      BY <2>2, RecordedSize, FS_RemoveElement, MaxRecordsAssumption
    <3> QED
      BY <3>1, <3>2 DEF Full
  <2> QED
    BY <1>1, <1>2, <2>1, <2>2, PrunedFull
<1> QED
  BY <1>3, <1>5, <1>6 DEF TracedInv, Traced, Full, Recorded

\* Finish, Open and the end of the process drop nothing.
LEMMA FinishTraced ==
  ASSUME Inv, TracedInv, NEW id \in Ids, NEW status \in {"succeeded", "failed"},
         Finish(id, status)
  PROVE  TracedInv'
<1>1. /\ up /\ handler[id] = "active"
      /\ handler' = [handler EXCEPT ![id] = status]
  BY DEF Finish
<1>2. Recorded(records') = Recorded(records) /\ file' \in {records', file}
  <2>1. CASE id \in Running(records)
    <3>1. records' = [records EXCEPT ![id].status = status] /\ file' \in {records', file}
      BY <2>1 DEF Finish
    <3>2. records[id] \in Record
      BY <2>1 DEF Inv, TypeOK, Running, Recorded
    <3>3. records'[id] \in Record
      BY <3>1, <3>2 DEF Inv, TypeOK, Record, Terminal
    <3>4. \A other \in Ids : records'[other] # None <=> records[other] # None
      BY <3>1, <3>2, <3>3, RecordIsNotNone DEF Inv, TypeOK
    <3> QED
      BY <3>1, <3>4 DEF Recorded
  <2>2. CASE id \notin Running(records)
    BY <2>2 DEF Finish
  <2> QED
    BY <2>1, <2>2
<1>3. \A other \in Ids : handler'[other] \notin {"none", "refused"} =>
                           handler[other] \notin {"none", "refused"}
  BY <1>1 DEF Inv, TypeOK
<1> QED
  BY <1>1, <1>2, <1>3 DEF TracedInv, Traced, Full, Recorded

LEMMA OpenTraced ==
  ASSUME Inv, TracedInv, Open
  PROVE  TracedInv'
<1>1. /\ Recorded(Interrupted(file)) = Recorded(file)
      /\ handler' = handler
  BY InterruptedRecords DEF Open, Inv, TypeOK
<1>2. CASE file' = Interrupted(file) /\ records' = Interrupted(file)
  BY <1>1, <1>2 DEF TracedInv, Traced, Full, Recorded
<1>3. CASE UNCHANGED <<up, records, file>>
  BY <1>1, <1>3 DEF TracedInv, Traced, Full, Recorded
<1> QED
  BY <1>2, <1>3 DEF Open

LEMMA StopTraced ==
  ASSUME Inv, TracedInv, Stop
  PROVE  TracedInv'
<1>1. \A id \in Ids : handler'[id] \notin {"none", "refused"} =>
                        handler[id] \notin {"none", "refused"}
  BY DEF Stop, Inv, TypeOK
<1>2. file' = file /\ up' = FALSE
  BY DEF Stop
<1> QED
  BY <1>1, <1>2 DEF TracedInv, Traced, Full, Recorded

LEMMA TracedNext ==
  ASSUME Inv, TracedInv, [Next]_vars
  PROVE  TracedInv'
<1>1. CASE Tick \/ StepBack \/ UNCHANGED vars
  BY <1>1 DEF Tick, StepBack, vars, TracedInv, Traced, Full, Recorded
<1> QED
  BY <1>1, StartTraced, StartFailsTraced, FinishTraced, OpenTraced, StopTraced DEF Next

-----------------------------------------------------------------------------
(***************************************************************************)
(* The system's invariant.                                                 *)
(***************************************************************************)
\* Where a handler stands, in its own words and in the operation store's.
StepInv ==
  \A id \in Ids :
    /\ step[id] = "begin" => handler[id] = "none"
    /\ step[id] \in {"mutate", "finish"} => handler[id] = "active"
    /\ step[id] = "finish" => outcome[id] \in {"succeeded", "failed"}
    /\ step[id] = "audit" => handler[id] \in {"succeeded", "failed"}

\* A success is on disk, what is on disk is in memory, and nothing is changed
\* before its operation has started.
StateInv ==
  /\ up => disk \subseteq memory
  /\ \A id \in Ids :
       /\ outcome[id] = "succeeded" => id \in disk
       /\ handler[id] = "succeeded" => outcome[id] = "succeeded"
       /\ id \in memory \cup disk => handler[id] \notin {"none", "refused"}

\* An event was written by a handler that has called Finish.
Told(event) == /\ event.result = "success" => outcome[event.id] = "succeeded"
               /\ handler[event.id] \in {"succeeded", "failed"}

TrailInv == \A i \in DOMAIN trail : Told(trail[i])

BundleInv ==
  \A event \in bundle.audit :
    /\ Told(event)
    /\ bundle.stage \in {"operations", "complete"} /\ event.result = "success"
         => event.id \in bundle.users
    /\ bundle.stage = "complete" => event.id \notin Running(bundle.operations)

SystemInv == /\ Inv
             /\ TracedInv
             /\ SystemTypeOK
             /\ StepInv
             /\ StateInv
             /\ TrailInv
             /\ BundleInv

\* What the trail holds are events.
LEMMA TrailEvents ==
  ASSUME SystemTypeOK, NEW i \in DOMAIN trail
  PROVE  trail[i] \in Event
<1>1. trail \in Seq(Event)
  BY DEF SystemTypeOK
<1>2. i \in 1..Len(trail)
  BY <1>1
<1> QED
  BY <1>1, <1>2

\* An append adds its event to what can be read, or nothing.
LEMMA AppendType ==
  ASSUME trail \in Seq(Event), acknowledged \subseteq Event,
         durable \in 0..Len(trail), fragment \in BOOLEAN,
         NEW event \in Event, Audit!Record(event) \/ Audit!Fail(event)
  PROVE  /\ trail' \in Seq(Event) /\ acknowledged' \subseteq Event
         /\ durable' \in 0..Len(trail') /\ fragment' \in BOOLEAN
         /\ \A i \in DOMAIN trail' :
              trail'[i] = event \/ \E j \in DOMAIN trail : trail'[i] = trail[j]
<1>1. /\ Append(trail, event) \in Seq(Event)
      /\ Len(Append(trail, event)) = Len(trail) + 1
      /\ \A i \in 1..Len(trail) + 1 :
           Append(trail, event)[i] = IF i <= Len(trail) THEN trail[i] ELSE event
  OBVIOUS
<1>2. trail' = trail \/ trail' = Append(trail, event)
  BY DEF Audit!Record, Audit!Fail, Audit!Written
<1>3. /\ Len(trail) \in Nat /\ DOMAIN trail = 1..Len(trail)
      /\ DOMAIN Append(trail, event) = 1..Len(trail) + 1
  BY <1>1
<1>4. \A i \in DOMAIN trail' :
        trail'[i] = event \/ \E j \in DOMAIN trail : trail'[i] = trail[j]
  BY <1>1, <1>2, <1>3
<1>5. trail' \in Seq(Event) /\ Len(trail') >= Len(trail) /\ Len(trail') \in Nat
  BY <1>1, <1>2, <1>3
<1>6. durable' \in {durable, Len(trail')}
  BY DEF Audit!Record, Audit!Fail
<1>7. durable' \in 0..Len(trail')
  BY <1>3, <1>5, <1>6
<1>8. acknowledged' \subseteq Event /\ fragment' \in BOOLEAN
  BY DEF Audit!Record, Audit!Fail
<1> QED
  BY <1>4, <1>5, <1>7, <1>8

\* A power loss adds nothing.
LEMMA LossType ==
  ASSUME trail \in Seq(Event), acknowledged \subseteq Event,
         durable \in 0..Len(trail), fragment \in BOOLEAN, Audit!PowerLoss
  PROVE  /\ trail' \in Seq(Event) /\ acknowledged' \subseteq Event
         /\ durable' \in 0..Len(trail') /\ fragment' \in BOOLEAN
         /\ \A i \in DOMAIN trail' : \E j \in DOMAIN trail : trail'[i] = trail[j]
<1>1. PICK n \in durable..Len(trail) : trail' = SubSeq(trail, 1, n) /\ durable' = n
  BY DEF Audit!PowerLoss
<1>2. n \in Nat /\ n <= Len(trail) /\ Len(trail) \in Nat /\ DOMAIN trail = 1..Len(trail)
  BY <1>1
<1>3. /\ SubSeq(trail, 1, n) \in Seq(Event)
      /\ Len(SubSeq(trail, 1, n)) = n
      /\ \A i \in 1..n : SubSeq(trail, 1, n)[i] = trail[i]
  BY <1>2
<1>4. DOMAIN trail' = 1..n
  BY <1>1, <1>2, <1>3
<1>5. \A i \in DOMAIN trail' : \E j \in DOMAIN trail : trail'[i] = trail[j]
  BY <1>1, <1>2, <1>3, <1>4
<1>6. acknowledged' \subseteq Event /\ fragment' \in BOOLEAN
  BY DEF Audit!PowerLoss
<1> QED
  BY <1>1, <1>2, <1>3, <1>5, <1>6

\* The handler of an operation says which event it appends.
LEMMA EventTold ==
  ASSUME SystemTypeOK, StepInv, NEW id \in Ids, step[id] = "audit"
  PROVE  [id |-> id, result |-> Result(id)] \in Event /\ Told([id |-> id, result |-> Result(id)])
BY DEF Event, Result, Told, StepInv, SystemTypeOK

\* An event that has been told stays told.
LEMMA StaysTold ==
  ASSUME SystemTypeOK, NEW event \in Event, Told(event),
         \A id \in Ids : handler[id] \in {"succeeded", "failed"} =>
                           handler'[id] = handler[id] /\ outcome'[id] = outcome[id]
  PROVE  Told(event)'
BY DEF Told, Event

LEMMA TrailStays ==
  ASSUME SystemTypeOK, TrailInv, UNCHANGED trail,
         \A id \in Ids : handler[id] \in {"succeeded", "failed"} =>
                           handler'[id] = handler[id] /\ outcome'[id] = outcome[id]
  PROVE  TrailInv'
<1> SUFFICES ASSUME NEW i \in DOMAIN trail PROVE Told(trail[i])'
  BY DEF TrailInv, Told
<1>1. trail[i] \in Event
  BY TrailEvents
<1> QED
  BY <1>1, StaysTold DEF TrailInv, Told

LEMMA BundleStays ==
  ASSUME SystemTypeOK, BundleInv, UNCHANGED bundle,
         \A id \in Ids : handler[id] \in {"succeeded", "failed"} =>
                           handler'[id] = handler[id] /\ outcome'[id] = outcome[id]
  PROVE  BundleInv'
<1> SUFFICES ASSUME NEW event \in bundle.audit PROVE Told(event)'
  BY DEF BundleInv, Running, Recorded
<1>1. event \in Event
  BY DEF SystemTypeOK
<1> QED
  BY <1>1, StaysTold DEF BundleInv

-----------------------------------------------------------------------------
(***************************************************************************)
(* The steps.                                                              *)
(***************************************************************************)
LEMMA SystemInitInv ==
  ASSUME SystemInit
  PROVE  SystemInv
<1>1. Inv
  BY InitInv DEF SystemInit
<1>2. TracedInv
  BY DEF SystemInit, Init, TracedInv, Traced
<1>3. Init /\ Audit!Init
  BY DEF SystemInit
<1>4. NoBundle \in [stage : {"audit", "users", "operations", "complete"},
                    audit : SUBSET Event, users : SUBSET Ids,
                    operations : [Ids -> Record \cup {None}]]
  BY DEF NoBundle, NoRecords
<1>5. trail = <<>> /\ trail \in Seq(Event) /\ acknowledged = {} /\ durable = 0 /\ fragment = FALSE
  BY <1>3 DEF Audit!Init
<1>6. TypeOK
  BY <1>1 DEF Inv
<1>7. SystemTypeOK
  <2>1. durable \in 0..Len(trail)
    BY <1>5
  <2> QED
    BY <1>4, <1>5, <1>6, <2>1 DEF SystemTypeOK, SystemInit
<1>8. StepInv /\ StateInv
  BY <1>3 DEF SystemInit, Init, StepInv, StateInv
<1>9. TrailInv /\ BundleInv
  BY <1>5 DEF SystemInit, TrailInv, BundleInv, NoBundle
<1> QED
  BY <1>1, <1>2, <1>7, <1>8, <1>9 DEF SystemInv

\* Every step of the system is one of the operation store, or leaves it alone.
LEMMA StepOfStore ==
  ASSUME SystemInv, [SystemNext]_systemVars
  PROVE  [Next]_vars
<1>1. ASSUME NEW id \in Ids, FinishOperation(id) PROVE [Next]_vars
  <2>1. Finish(id, outcome[id]) /\ outcome[id] \in {"succeeded", "failed"}
    BY <1>1 DEF FinishOperation, SystemInv, StepInv
  <2> QED
    BY <2>1 DEF Next
<1>2. ASSUME NEW id \in Ids, BeginOperation(id) PROVE [Next]_vars
  BY <1>2 DEF BeginOperation, Next
<1>3. ASSUME NEW id \in Ids, Mutate(id) \/ AuditEvent(id) PROVE [Next]_vars
  BY <1>3 DEF Mutate, AuditEvent
<1>4. CASE Build
  BY <1>4 DEF Build
<1>5. CASE OpenStores \/ StopProcess \/ Clock
  BY <1>5 DEF OpenStores, StopProcess, Clock, Next
<1>6. CASE UNCHANGED systemVars
  BY <1>6 DEF systemVars
<1> QED
  BY <1>1, <1>2, <1>3, <1>4, <1>5, <1>6 DEF SystemNext, Handle

LEMMA StoreKeeps ==
  ASSUME SystemInv, [SystemNext]_systemVars
  PROVE  Inv' /\ TracedInv' /\ TypeOK'
<1>1. Inv' /\ TracedInv'
  BY StepOfStore, NextInv, TracedNext DEF SystemInv
<1> QED
  BY <1>1 DEF Inv

LEMMA BeginKeeps ==
  ASSUME SystemInv, NEW id \in Ids, BeginOperation(id), TypeOK'
  PROVE  SystemTypeOK' /\ StepInv' /\ StateInv' /\ TrailInv' /\ BundleInv'
<1>1. /\ step[id] = "begin" /\ handler[id] = "none"
      /\ UNCHANGED <<up, outcome, memory, disk, torn, trail, acknowledged,
                     durable, fragment, bundle>>
  BY DEF BeginOperation, Start, StartFails, SystemInv, Inv, StepInv, stateVars, auditVars
<1>2. \/ /\ handler' = [handler EXCEPT ![id] = "active"]
         /\ step' = [step EXCEPT ![id] = "mutate"]
      \/ /\ handler' = [handler EXCEPT ![id] = "refused"]
         /\ step' = [step EXCEPT ![id] = "answered"]
  BY DEF BeginOperation, Start, StartFails, GoTo
<1>3. SystemTypeOK /\ TypeOK
  BY DEF SystemInv, SystemTypeOK
<1>4. \A other \in Ids : other # id => handler'[other] = handler[other] /\ step'[other] = step[other]
  BY <1>2, <1>3 DEF SystemTypeOK, TypeOK
<1>5. SystemTypeOK'
  <2>1. step' \in [Ids -> {"begin", "mutate", "finish", "audit", "answered", "cut off"}]
    BY <1>2, <1>3 DEF SystemTypeOK
  <2> QED
    BY <1>1, <1>3, <2>1 DEF SystemTypeOK
<1>6. StepInv'
  <2>1. \/ handler'[id] = "active" /\ step'[id] = "mutate"
        \/ handler'[id] = "refused" /\ step'[id] = "answered"
    BY <1>2, <1>3 DEF SystemTypeOK, TypeOK
  <2>2. StepInv /\ outcome' = outcome
    BY <1>1 DEF SystemInv
  <2> QED
    BY <1>4, <2>1, <2>2 DEF StepInv
<1>7. StateInv'
  BY <1>1, <1>2, <1>3, <1>4, ZenonT(30) DEF SystemInv, StateInv, SystemTypeOK, TypeOK
<1>8. TrailInv' /\ BundleInv'
  BY <1>1, <1>3, <1>4, TrailStays, BundleStays DEF SystemInv
<1> QED
  BY <1>5, <1>6, <1>7, <1>8

LEMMA MutateKeeps ==
  ASSUME SystemInv, NEW id \in Ids, Mutate(id), TypeOK'
  PROVE  SystemTypeOK' /\ StepInv' /\ StateInv' /\ TrailInv' /\ BundleInv'
<1>1. /\ up /\ step[id] = "mutate" /\ handler[id] = "active"
      /\ step' = [step EXCEPT ![id] = "finish"]
      /\ UNCHANGED <<up, records, file, handler, trail, acknowledged, durable, fragment, bundle>>
  BY DEF Mutate, GoTo, vars, auditVars, SystemInv, StepInv
<1>2. \/ /\ outcome' = [outcome EXCEPT ![id] = "failed"]
         /\ memory' \in {memory, memory \cup {id}} /\ torn' \in BOOLEAN /\ disk' = disk
      \/ /\ outcome' = [outcome EXCEPT ![id] = "succeeded"]
         /\ memory' = memory \cup {id} /\ disk' = memory \cup {id} /\ torn' \in BOOLEAN
  BY DEF Mutate, Persisted, stateVars, SystemInv, SystemTypeOK
<1>3. SystemTypeOK /\ TypeOK /\ disk \subseteq memory /\ memory \subseteq Ids
  BY <1>1 DEF SystemInv, SystemTypeOK, StateInv
<1>4. \A other \in Ids : other # id => outcome'[other] = outcome[other] /\ step'[other] = step[other]
  BY <1>1, <1>2, <1>3 DEF SystemTypeOK
<1>5. SystemTypeOK'
  BY <1>1, <1>2, <1>3 DEF SystemTypeOK
<1>6. StepInv'
  BY <1>1, <1>2, <1>3, <1>4, ZenonT(30) DEF SystemInv, StepInv, SystemTypeOK
<1>7. StateInv'
  BY <1>1, <1>2, <1>3, <1>4, ZenonT(30) DEF SystemInv, StateInv, SystemTypeOK
<1>8. TrailInv' /\ BundleInv'
  BY <1>1, <1>3, <1>4, TrailStays, BundleStays DEF SystemInv
<1> QED
  BY <1>5, <1>6, <1>7, <1>8

LEMMA FinishKeeps ==
  ASSUME SystemInv, NEW id \in Ids, FinishOperation(id), TypeOK'
  PROVE  SystemTypeOK' /\ StepInv' /\ StateInv' /\ TrailInv' /\ BundleInv'
<1>1. /\ step[id] = "finish" /\ handler[id] = "active"
      /\ outcome[id] \in {"succeeded", "failed"}
      /\ step' = [step EXCEPT ![id] = "audit"]
      /\ handler' = [handler EXCEPT ![id] = outcome[id]]
      /\ UNCHANGED <<up, outcome, memory, disk, torn, trail, acknowledged,
                     durable, fragment, bundle>>
  BY DEF FinishOperation, Finish, GoTo, stateVars, auditVars, SystemInv, StepInv
<1>2. SystemTypeOK /\ TypeOK
  BY DEF SystemInv, SystemTypeOK
<1>3. \A other \in Ids : other # id => handler'[other] = handler[other] /\ step'[other] = step[other]
  BY <1>1, <1>2 DEF SystemTypeOK, TypeOK
<1>4. SystemTypeOK'
  <2>1. step' \in [Ids -> {"begin", "mutate", "finish", "audit", "answered", "cut off"}]
    BY <1>1, <1>2 DEF SystemTypeOK
  <2> QED
    BY <1>1, <1>2, <2>1 DEF SystemTypeOK
<1>5. StepInv'
  <2>1. step'[id] = "audit" /\ handler'[id] \in {"succeeded", "failed"}
    BY <1>1, <1>2 DEF SystemTypeOK, TypeOK
  <2>2. StepInv /\ outcome' = outcome
    BY <1>1 DEF SystemInv
  <2> QED
    BY <1>3, <2>1, <2>2 DEF StepInv
<1>6. StateInv'
  BY <1>1, <1>2, <1>3, ZenonT(30) DEF SystemInv, StateInv, SystemTypeOK, TypeOK
<1>7. TrailInv' /\ BundleInv'
  BY <1>1, <1>2, <1>3, TrailStays, BundleStays DEF SystemInv
<1> QED
  BY <1>4, <1>5, <1>6, <1>7

LEMMA AuditKeeps ==
  ASSUME SystemInv, NEW id \in Ids, AuditEvent(id), TypeOK'
  PROVE  SystemTypeOK' /\ StepInv' /\ StateInv' /\ TrailInv' /\ BundleInv'
<1> DEFINE event == [id |-> id, result |-> Result(id)]
<1>1. /\ step[id] = "audit"
      /\ step' = [step EXCEPT ![id] = "answered"]
      /\ UNCHANGED <<up, records, file, handler, outcome, memory, disk, torn, bundle>>
      /\ Audit!Record(event) \/ Audit!Fail(event)
  BY DEF AuditEvent, GoTo, vars, stateVars
<1>2. SystemTypeOK /\ TypeOK /\ StepInv /\ TrailInv
  BY DEF SystemInv, SystemTypeOK
<1>3. event \in Event /\ Told(event)
  BY <1>1, <1>2, EventTold
<1> HIDE DEF event
<1>4. /\ trail' \in Seq(Event) /\ acknowledged' \subseteq Event
      /\ durable' \in 0..Len(trail') /\ fragment' \in BOOLEAN
      /\ \A i \in DOMAIN trail' :
           trail'[i] = event \/ \E j \in DOMAIN trail : trail'[i] = trail[j]
  BY <1>1, <1>2, <1>3, AppendType DEF SystemTypeOK
<1>5. SystemTypeOK'
  BY <1>1, <1>2, <1>4 DEF SystemTypeOK
<1>6. StepInv' /\ StateInv'
  BY <1>1, <1>2 DEF SystemInv, StepInv, StateInv, SystemTypeOK
<1>7. TrailInv'
  BY <1>1, <1>2, <1>3, <1>4 DEF TrailInv, Told
<1>8. BundleInv'
  BY <1>1, <1>2, BundleStays DEF SystemInv
<1> QED
  BY <1>5, <1>6, <1>7, <1>8

\* The three reads.  Where the audit log is read, its events are told; where the
\* users are, everything on disk is in memory; where the operations are, what
\* runs has a handler at work, which has told nothing.
LEMMA BuildKeeps ==
  ASSUME SystemInv, Build, TypeOK'
  PROVE  SystemTypeOK' /\ StepInv' /\ StateInv' /\ TrailInv' /\ BundleInv'
<1>1. /\ up
      /\ UNCHANGED <<up, records, file, handler, step, outcome, memory, disk, torn,
                     trail, acknowledged, durable, fragment>>
  BY DEF Build, vars, stateVars, auditVars
<1>2. SystemTypeOK /\ TypeOK /\ TrailInv /\ BundleInv /\ disk \subseteq memory
  BY <1>1 DEF SystemInv, SystemTypeOK, StateInv
<1>3. StepInv' /\ StateInv' /\ TrailInv'
  BY <1>1 DEF SystemInv, StepInv, StateInv, TrailInv, Told
<1>4. CASE bundle.stage = "audit"
  <2>1. bundle' = [bundle EXCEPT !.stage = "users", !.audit = {trail[i] : i \in DOMAIN trail}]
    BY <1>4 DEF Build
  <2>2. {trail[i] : i \in DOMAIN trail} \subseteq Event
    BY <1>2, TrailEvents
  <2>3. bundle'.stage = "users" /\ bundle'.audit = {trail[i] : i \in DOMAIN trail}
    BY <1>2, <2>1 DEF SystemTypeOK
  <2>4. SystemTypeOK'
    BY <1>1, <1>2, <2>1, <2>2 DEF SystemTypeOK
  <2>5. BundleInv'
    BY <1>1, <1>2, <2>3 DEF BundleInv, TrailInv, Told
  <2> QED
    BY <1>3, <2>4, <2>5
<1>5. CASE bundle.stage = "users"
  <2>1. bundle' = [bundle EXCEPT !.stage = "operations", !.users = memory]
    BY <1>5 DEF Build
  <2>2. bundle'.stage = "operations" /\ bundle'.audit = bundle.audit /\ bundle'.users = memory
    BY <1>2, <2>1 DEF SystemTypeOK
  <2>3. SystemTypeOK'
    BY <1>1, <1>2, <2>1 DEF SystemTypeOK
  <2>4. \A event \in bundle.audit : event.result = "success" => event.id \in memory
    <3>1. \A event \in bundle.audit : event.id \in Ids
      BY <1>2 DEF SystemTypeOK, Event
    <3> QED
      BY <1>2, <3>1 DEF BundleInv, Told, SystemInv, StateInv
  <2>5. BundleInv'
    BY <1>1, <1>2, <2>2, <2>4 DEF BundleInv, Told
  <2> QED
    BY <1>3, <2>3, <2>5
<1>6. CASE bundle.stage = "operations"
  <2>1. bundle' = [bundle EXCEPT !.stage = "complete", !.operations = records]
    BY <1>6 DEF Build
  <2>2. /\ bundle'.stage = "complete" /\ bundle'.audit = bundle.audit
        /\ bundle'.users = bundle.users /\ bundle'.operations = records
    BY <1>2, <2>1 DEF SystemTypeOK
  <2>3. SystemTypeOK'
    BY <1>1, <1>2, <2>1 DEF SystemTypeOK, TypeOK
  <2>4. \A event \in bundle.audit : event.id \notin Running(records)
    BY <1>2 DEF BundleInv, Told, SystemInv, Inv, RunningIsActive
  <2>5. BundleInv'
    BY <1>1, <1>2, <1>6, <2>2, <2>4 DEF BundleInv, Told, Running, Recorded
  <2> QED
    BY <1>3, <2>3, <2>5
<1> QED
  BY <1>4, <1>5, <1>6 DEF Build

LEMMA OpenKeeps ==
  ASSUME SystemInv, OpenStores, TypeOK'
  PROVE  SystemTypeOK' /\ StepInv' /\ StateInv' /\ TrailInv' /\ BundleInv'
<1>1. /\ memory' = disk
      /\ UNCHANGED <<handler, step, outcome, disk, torn, trail, acknowledged,
                     durable, fragment, bundle>>
  BY DEF OpenStores, Open, auditVars
<1>2. SystemTypeOK /\ TypeOK
  BY DEF SystemInv, SystemTypeOK
<1>3. SystemTypeOK'
  BY <1>1, <1>2 DEF SystemTypeOK
<1>4. StepInv' /\ StateInv'
  BY <1>1, <1>2 DEF SystemInv, StepInv, StateInv
<1>5. TrailInv' /\ BundleInv'
  BY <1>1, <1>2, TrailStays, BundleStays DEF SystemInv
<1> QED
  BY <1>3, <1>4, <1>5

LEMMA StopKeeps ==
  ASSUME SystemInv, StopProcess, TypeOK'
  PROVE  SystemTypeOK' /\ StepInv' /\ StateInv' /\ TrailInv' /\ BundleInv'
<1>1. /\ up' = FALSE /\ memory' = {} /\ torn' \in {torn, TRUE}
      /\ outcome' = outcome /\ disk' = disk
      /\ handler' = [id \in Ids |-> IF handler[id] = "active" THEN "cut off" ELSE handler[id]]
      /\ step' = [id \in Ids |-> IF step[id] \in {"mutate", "finish", "audit"}
                                 THEN "cut off" ELSE step[id]]
      /\ bundle' \in {bundle, NoBundle}
  BY DEF StopProcess, Stop
<1>2. SystemTypeOK /\ TypeOK /\ StepInv /\ TrailInv /\ BundleInv
  BY DEF SystemInv, SystemTypeOK
<1>3. \A id \in Ids : handler[id] \in {"succeeded", "failed"} =>
                        handler'[id] = handler[id] /\ outcome'[id] = outcome[id]
  BY <1>1
<1>4. /\ trail' \in Seq(Event) /\ acknowledged' \subseteq Event
      /\ durable' \in 0..Len(trail') /\ fragment' \in BOOLEAN
      /\ TrailInv'
  <2>1. CASE UNCHANGED auditVars
    <3>1. TrailInv'
      BY <1>2, <1>3, <2>1, TrailStays DEF auditVars
    <3> QED
      BY <1>2, <2>1, <3>1 DEF auditVars, SystemTypeOK
  <2>2. CASE Audit!PowerLoss
    <3>1. /\ trail' \in Seq(Event) /\ acknowledged' \subseteq Event
          /\ durable' \in 0..Len(trail') /\ fragment' \in BOOLEAN
          /\ \A i \in DOMAIN trail' : \E j \in DOMAIN trail : trail'[i] = trail[j]
      BY <1>2, <2>2, LossType DEF SystemTypeOK
    <3>2. ASSUME NEW i \in DOMAIN trail' PROVE Told(trail[i])'
      <4>1. trail'[i] \in Event
        BY <3>1
      <4>2. Told(trail'[i])
        BY <1>2, <3>1 DEF TrailInv
      <4> QED
        BY <1>3, <4>1, <4>2 DEF Told, Event
    <3> QED
      BY <3>1, <3>2 DEF TrailInv
  <2>3. ASSUME NEW id \in Ids, step[id] = "audit",
               Audit!Fail([id |-> id, result |-> Result(id)])
        PROVE  /\ trail' \in Seq(Event) /\ acknowledged' \subseteq Event
               /\ durable' \in 0..Len(trail') /\ fragment' \in BOOLEAN
               /\ TrailInv'
    <3> DEFINE event == [id |-> id, result |-> Result(id)]
    <3>1. event \in Event /\ Told(event)
      BY <1>2, <2>3, EventTold
    <3>2. Audit!Fail(event)
      BY <2>3
    <3> HIDE DEF event
    <3>3. /\ trail' \in Seq(Event) /\ acknowledged' \subseteq Event
          /\ durable' \in 0..Len(trail') /\ fragment' \in BOOLEAN
          /\ \A i \in DOMAIN trail' :
               trail'[i] = event \/ \E j \in DOMAIN trail : trail'[i] = trail[j]
      BY <1>2, <3>1, <3>2, AppendType DEF SystemTypeOK
    <3>4. ASSUME NEW i \in DOMAIN trail' PROVE Told(trail[i])'
      <4>1. trail'[i] \in Event
        BY <3>3
      <4>2. Told(trail'[i])
        BY <1>2, <3>1, <3>3 DEF TrailInv
      <4> QED
        BY <1>3, <4>1, <4>2 DEF Told, Event
    <3> QED
      BY <3>3, <3>4 DEF TrailInv
  <2> QED
    BY <2>1, <2>2, <2>3 DEF StopProcess
<1>5. bundle' \in [stage : {"audit", "users", "operations", "complete"},
                   audit : SUBSET Event, users : SUBSET Ids,
                   operations : [Ids -> Record \cup {None}]]
  <2>1. NoBundle \in [stage : {"audit", "users", "operations", "complete"},
                      audit : SUBSET Event, users : SUBSET Ids,
                      operations : [Ids -> Record \cup {None}]]
    BY DEF NoBundle, NoRecords
  <2> QED
    BY <1>1, <1>2, <2>1 DEF SystemTypeOK
<1>6. step' \in [Ids -> {"begin", "mutate", "finish", "audit", "answered", "cut off"}]
  BY <1>1, <1>2 DEF SystemTypeOK
<1>7. SystemTypeOK'
  BY <1>1, <1>2, <1>4, <1>5, <1>6 DEF SystemTypeOK
<1>8. StepInv'
  BY <1>1, <1>2 DEF StepInv
<1>9. StateInv'
  BY <1>1, <1>2 DEF SystemInv, StateInv
<1>10. BundleInv'
  <2>1. CASE bundle' = bundle
    BY <1>2, <1>3, <2>1, BundleStays
  <2>2. CASE bundle' = NoBundle
    BY <2>2 DEF BundleInv, NoBundle
  <2> QED
    BY <1>1, <2>1, <2>2
<1> QED
  BY <1>4, <1>7, <1>8, <1>9, <1>10

LEMMA ClockKeeps ==
  ASSUME SystemInv, Clock \/ UNCHANGED systemVars, TypeOK'
  PROVE  SystemTypeOK' /\ StepInv' /\ StateInv' /\ TrailInv' /\ BundleInv'
<1>1. UNCHANGED <<up, handler, step, outcome, memory, disk, torn, trail,
                  acknowledged, durable, fragment, bundle>>
  BY DEF Clock, Tick, StepBack, systemVars, vars, stateVars, auditVars
<1>2. SystemTypeOK /\ TypeOK
  BY DEF SystemInv, SystemTypeOK
<1>3. SystemTypeOK' /\ StepInv' /\ StateInv'
  BY <1>1, <1>2 DEF SystemInv, SystemTypeOK, StepInv, StateInv
<1>4. TrailInv' /\ BundleInv'
  BY <1>1, <1>2, TrailStays, BundleStays DEF SystemInv
<1> QED
  BY <1>3, <1>4

LEMMA SystemNextInv == SystemInv /\ [SystemNext]_systemVars => SystemInv'
<1> SUFFICES ASSUME SystemInv, [SystemNext]_systemVars PROVE SystemInv'
  OBVIOUS
<1>1. Inv' /\ TracedInv' /\ TypeOK'
  BY StoreKeeps
<1>2. SystemTypeOK' /\ StepInv' /\ StateInv' /\ TrailInv' /\ BundleInv'
  BY <1>1, BeginKeeps, MutateKeeps, FinishKeeps, AuditKeeps, BuildKeeps, OpenKeeps,
     StopKeeps, ClockKeeps DEF SystemNext, Handle
<1> QED
  BY <1>1, <1>2 DEF SystemInv

-----------------------------------------------------------------------------
\* The invariant holds in every state of the system.
THEOREM SystemInvariant == SystemSpec => []SystemInv
BY SystemInitInv, SystemNextInv, PTL DEF SystemSpec

\* Every variable of the composed system keeps its type.
THEOREM SystemTypeCorrect == SystemSpec => []SystemTypeOK
<1>1. SystemInv => SystemTypeOK
  BY DEF SystemInv
<1> QED
  BY <1>1, SystemInvariant, PTL

\* The audit log and the history never call an operation successful whose change
\* is not in state.json.
THEOREM EvidenceTrue == SystemSpec => []EvidenceIsTrue
<1>1. SystemInv => EvidenceIsTrue
  <2> SUFFICES ASSUME SystemInv PROVE EvidenceIsTrue
    OBVIOUS
  <2>1. ASSUME NEW i \in DOMAIN trail, trail[i].result = "success"
        PROVE  trail[i].id \in disk
    <3>1. trail[i] \in Event
      BY TrailEvents DEF SystemInv
    <3>2. outcome[trail[i].id] = "succeeded"
      BY <2>1 DEF SystemInv, TrailInv, Told
    <3> QED
      BY <3>1, <3>2 DEF SystemInv, StateInv, Event
  <2>2. ASSUME NEW recs, TruthfulIn(recs), NEW id \in Recorded(recs),
               recs[id].status = "succeeded"
        PROVE  id \in disk
    BY <2>2 DEF TruthfulIn, Recorded, SystemInv, StateInv
  <2>3. TruthfulIn(records) /\ TruthfulIn(file)
    BY DEF SystemInv, Inv, OutcomeIsTrue
  <2> QED
    BY <2>1, <2>2, <2>3 DEF EvidenceIsTrue
<1> QED
  BY <1>1, SystemInvariant, PTL

\* No change is in state.json without its record, unless a full history dropped
\* the record.
THEOREM EffectTraced == SystemSpec => []EffectIsTraced
<1>1. SystemInv => EffectIsTraced
  BY DEF SystemInv, StateInv, TracedInv, Traced, Full, EffectIsTraced, SystemTypeOK
<1> QED
  BY <1>1, SystemInvariant, PTL

\* The parts of a diagnostics bundle, read one after the other, agree.
THEOREM BundlesConsistent == SystemSpec => []BundleConsistent
<1>1. SystemInv => BundleConsistent
  BY DEF SystemInv, BundleInv, BundleConsistent
<1> QED
  BY <1>1, SystemInvariant, PTL

\* The composed system takes only steps of the operation store, so what is proved
\* of OperationStore holds of it.
THEOREM ImplementsStore == SystemSpec => Spec
<1>1. SystemInit => Init
  BY DEF SystemInit
<1>2. SystemInv /\ [SystemNext]_systemVars => [Next]_vars
  BY StepOfStore
<1> QED
  BY <1>1, <1>2, SystemInvariant, PTL DEF SystemSpec, Spec

\* What is proved of the operation store alone therefore holds of the system: the
\* history stays bounded and true, what runs is active, a terminal record on disk
\* stays as it is, and what Start has recorded is on disk.
THEOREM StoreGuarantees ==
  SystemSpec => /\ [](BoundedHistory /\ OutcomeIsTrue /\ RunningIsActive)
                /\ TerminalIsFinal
                /\ StartedIsRecorded
<1>1. SystemSpec => []BoundedHistory /\ []OutcomeIsTrue /\ []RunningIsActive
  BY ImplementsStore, HistoryBounded, OutcomesTrue, RunningActive
<1>2. SystemSpec => TerminalIsFinal /\ StartedIsRecorded
  BY ImplementsStore, TerminalFinal, StartRecorded
<1> QED
  BY <1>1, <1>2, PTL

\* A step of the system is one of the audit trail, or leaves it alone.
LEMMA StepOfTrail ==
  ASSUME [SystemNext]_systemVars
  PROVE  [Audit!Next]_(Audit!vars)
<1>1. CASE UNCHANGED auditVars
  BY <1>1 DEF auditVars, Audit!vars
<1>2. ASSUME NEW id \in Ids, AuditEvent(id) PROVE Audit!Next
  <2> DEFINE event == [id |-> id, result |-> Result(id)]
  <2>1. event \in Event
    BY DEF Event, Result
  <2>2. Audit!Record(event) \/ Audit!Fail(event)
    BY <1>2 DEF AuditEvent
  <2> HIDE DEF event
  <2> QED
    BY <2>1, <2>2 DEF Audit!Next
<1>3. ASSUME StopProcess, ~UNCHANGED auditVars PROVE Audit!Next
  <2>1. CASE Audit!PowerLoss
    BY <2>1 DEF Audit!Next
  <2>2. CASE \E id \in Ids : Audit!Fail([id |-> id, result |-> Result(id)])
    <3>1. PICK id \in Ids : Audit!Fail([id |-> id, result |-> Result(id)])
      BY <2>2
    <3> DEFINE event == [id |-> id, result |-> Result(id)]
    <3>2. event \in Event
      BY DEF Event, Result
    <3>3. Audit!Fail(event)
      BY <3>1
    <3> HIDE DEF event
    <3> QED
      BY <3>2, <3>3 DEF Audit!Next
  <2> QED
    BY <1>3, <2>1, <2>2 DEF StopProcess
<1>4. \/ UNCHANGED auditVars
      \/ \E id \in Ids : AuditEvent(id)
      \/ StopProcess
  BY DEF SystemNext, Handle, BeginOperation, Mutate, FinishOperation, Build, OpenStores, Clock,
         systemVars
<1> QED
  BY <1>1, <1>2, <1>3, <1>4

\* The composed system takes only steps of AuditTrail with its audit log, the
\* specification that AuditLog implements byte by byte.
THEOREM ImplementsTrail == SystemSpec => Audit!Spec
<1>1. SystemInit => Audit!Init
  BY DEF SystemInit
<1>2. [SystemNext]_systemVars => [Audit!Next]_(Audit!vars)
  BY StepOfTrail
<1> QED
  BY <1>1, <1>2, PTL DEF SystemSpec, Audit!Spec
=============================================================================
