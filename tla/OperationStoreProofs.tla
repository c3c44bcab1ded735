------------------------ MODULE OperationStoreProofs ------------------------
(***************************************************************************)
(* What OperationStore guarantees for any number of operations, any        *)
(* maxRecords and any wall clock.  HandlerInv and DiskInv strengthen the   *)
(* properties: a record belongs to a handler that got past Start, and the  *)
(* memory holds every terminal record of the file as it is there, if it    *)
(* still holds it at all.                                                  *)
(***************************************************************************)
EXTENDS OperationStore, FiniteSetTheorems, TLAPS

\* A record has a handler, and while that is at work the record is running.
OwnedIn(recs) ==
  \A id \in Recorded(recs) :
    /\ handler[id] \in {"active", "cut off", "succeeded", "failed"}
    /\ handler[id] = "active" => recs[id].status = "running"

HandlerInv == /\ ~up => /\ records = NoRecords
                        /\ \A id \in Ids : handler[id] # "active"
              /\ OwnedIn(records)
              /\ OwnedIn(file)

DiskInv == \A id \in Recorded(file) :
             up /\ file[id].status \in Terminal => records[id] \in {file[id], None}

Inv == /\ TypeOK
       /\ HandlerInv
       /\ DiskInv
       /\ OutcomeIsTrue
       /\ RunningIsActive

\* A record is not taken for an absent one.
LEMMA RecordIsNotNone == \A r \in Record : r # None
BY NoneAssumption

\* pruneLocked only removes.
LEMMA PrunedRemoves ==
  ASSUME NEW recs \in [Ids -> Record \cup {None}], NEW kept \in Pruned(recs)
  PROVE  /\ kept \in [Ids -> Record \cup {None}]
         /\ \A id \in Ids : kept[id] \in {recs[id], None}
BY DEF Pruned

\* pruneLocked leaves at most maxRecords.
LEMMA PrunedBound ==
  ASSUME NEW recs \in [Ids -> Record \cup {None}], NEW pruned \in Pruned(recs)
  PROVE  Cardinality(Recorded(pruned)) <= MaxRecords
<1>1. CASE Cardinality(Recorded(recs)) <= MaxRecords
  BY <1>1 DEF Pruned
<1>2. CASE ~(Cardinality(Recorded(recs)) <= MaxRecords)
  <2>1. PICK kept \in SUBSET Recorded(recs) :
          /\ Cardinality(kept) = MaxRecords
          /\ pruned = [id \in Ids |-> IF id \in kept THEN recs[id] ELSE None]
    BY <1>2 DEF Pruned
  <2>2. Recorded(pruned) = kept
    BY <2>1 DEF Recorded
  <2> QED
    BY <2>1, <2>2, MaxRecordsAssumption
<1> QED
  BY <1>1, <1>2

\* pruneLocked removes a record only for as many as the history holds, none of
\* them older.
LEMMA PrunedKeepsNewest ==
  ASSUME NEW recs \in [Ids -> Record \cup {None}], NEW pruned \in Pruned(recs),
         NEW id \in Recorded(recs), id \notin Recorded(pruned)
  PROVE  /\ Cardinality(Recorded(pruned)) = MaxRecords
         /\ \A other \in Recorded(pruned) :
              pruned[other].startedAt >= recs[id].startedAt
<1>1. ~(Cardinality(Recorded(recs)) <= MaxRecords)
  BY DEF Pruned
<1>2. PICK kept \in SUBSET Recorded(recs) :
        /\ Cardinality(kept) = MaxRecords
        /\ \A old \in Recorded(recs) \ kept, new \in kept :
             recs[old].startedAt <= recs[new].startedAt
        /\ pruned = [other \in Ids |-> IF other \in kept THEN recs[other] ELSE None]
  BY <1>1 DEF Pruned
<1>3. Recorded(pruned) = kept
  BY <1>2 DEF Recorded
<1>4. \A other \in kept : pruned[other] = recs[other]
  BY <1>2 DEF Recorded
<1>5. ASSUME NEW other \in kept PROVE pruned[other].startedAt >= recs[id].startedAt
  <2>1. recs[id].startedAt <= recs[other].startedAt
    BY <1>2, <1>3, <1>5
  <2>2. recs[id] \in Record /\ recs[other] \in Record
    BY <1>2, <1>5 DEF Recorded
  <2>3. recs[id].startedAt \in Nat /\ recs[other].startedAt \in Nat
    BY <2>2 DEF Record
  <2> QED
    BY <1>4, <1>5, <2>1, <2>3
<1> QED
  BY <1>2, <1>3, <1>5

\* A fresh state directory has no records.
LEMMA InitInv == Init => Inv
<1> SUFFICES ASSUME Init PROVE Inv
  OBVIOUS
<1>1. Recorded(NoRecords) = {}
  BY DEF Recorded, NoRecords
<1>2. TypeOK
  BY DEF Init, TypeOK, NoRecords
<1>3. HandlerInv /\ DiskInv
  BY <1>1 DEF Init, HandlerInv, OwnedIn, DiskInv
<1>4. OutcomeIsTrue /\ RunningIsActive
  BY <1>1 DEF Init, OutcomeIsTrue, TruthfulIn, RunningIsActive, Running
<1> QED
  BY <1>2, <1>3, <1>4 DEF Inv

\* What Open makes of a file.
LEMMA InterruptedRecords ==
  ASSUME NEW recs \in [Ids -> Record \cup {None}]
  PROVE  /\ Interrupted(recs) \in [Ids -> Record \cup {None}]
         /\ Recorded(Interrupted(recs)) = Recorded(recs)
         /\ Running(Interrupted(recs)) = {}
         /\ \A id \in Ids : id \notin Running(recs) => Interrupted(recs)[id] = recs[id]
         /\ \A id \in Running(recs) : Interrupted(recs)[id].status = "interrupted"
<1>1. \A id \in Running(recs) :
        /\ recs[id] \in Record
        /\ [recs[id] EXCEPT !.status = "interrupted"] \in Record
        /\ [recs[id] EXCEPT !.status = "interrupted"].status = "interrupted"
  <2> SUFFICES ASSUME NEW id \in Running(recs)
               PROVE  /\ recs[id] \in Record
                      /\ [recs[id] EXCEPT !.status = "interrupted"] \in Record
                      /\ [recs[id] EXCEPT !.status = "interrupted"].status = "interrupted"
    OBVIOUS
  <2>1. recs[id] \in Record
    BY DEF Running, Recorded
  <2> QED
    BY <2>1 DEF Record, Terminal
<1>2. \A id \in Ids : Interrupted(recs)[id] =
        IF id \in Running(recs) THEN [recs[id] EXCEPT !.status = "interrupted"]
                                ELSE recs[id]
  BY DEF Interrupted
<1>3. Interrupted(recs) \in [Ids -> Record \cup {None}]
  BY <1>1 DEF Interrupted
<1> DEFINE opened == Interrupted(recs)
<1>4. Recorded(opened) = Recorded(recs)
  <2>1. \A id \in Running(recs) : opened[id] # None /\ recs[id] # None
    BY <1>1, <1>2, RecordIsNotNone DEF Running, Recorded
  <2>2. \A id \in Ids : id \notin Running(recs) => opened[id] = recs[id]
    BY <1>2
  <2> HIDE DEF opened
  <2> QED
    BY <2>1, <2>2 DEF Recorded
<1>5. Running(opened) = {}
  <2>1. \A id \in Running(recs) : opened[id].status = "interrupted"
    BY <1>1, <1>2 DEF Running, Recorded
  <2>2. \A id \in Recorded(recs) : id \notin Running(recs) => opened[id].status # "running"
    BY <1>2 DEF Running, Recorded
  <2> HIDE DEF opened
  <2> QED
    BY <1>4, <2>1, <2>2 DEF Running
<1>6. \A id \in Running(recs) : opened[id].status = "interrupted"
  BY <1>1, <1>2 DEF Running, Recorded
<1>7. \A id \in Ids : id \notin Running(recs) => opened[id] = recs[id]
  BY <1>2
<1> QED
  BY <1>3, <1>4, <1>5, <1>6, <1>7

\* Open leaves nothing running, and interrupts only what was.
LEMMA OpenInv ==
  ASSUME Inv, Open
  PROVE  Inv'
<1>1. CASE UNCHANGED <<up, records, file>>
  BY <1>1 DEF Open, Inv, TypeOK, HandlerInv, OwnedIn, DiskInv, OutcomeIsTrue, TruthfulIn, RunningIsActive,
              Recorded, Running
<1>2. CASE up' = TRUE /\ file' = Interrupted(file) /\ records' = Interrupted(file)
  <2> DEFINE opened == Interrupted(file)
  <2>1. /\ opened \in [Ids -> Record \cup {None}]
        /\ Recorded(opened) = Recorded(file)
        /\ Running(opened) = {}
        /\ \A id \in Ids : id \notin Running(file) => opened[id] = file[id]
        /\ \A id \in Running(file) : opened[id].status = "interrupted"
    BY InterruptedRecords DEF Inv, TypeOK
  <2> HIDE DEF opened
  <2>2. file' = opened /\ records' = opened /\ handler' = handler /\ up'
    BY <1>2 DEF Open, opened
  <2>3. TypeOK'
    BY <1>2, <2>1, <2>2 DEF Open, Inv, TypeOK
  <2>4. \A id \in Recorded(opened) :
          /\ handler[id] \in {"cut off", "succeeded", "failed"}
          /\ opened[id].status \in {"succeeded", "failed"} => handler[id] = opened[id].status
    BY <2>1 DEF Open, Inv, HandlerInv, OwnedIn, OutcomeIsTrue, TruthfulIn, Recorded, Running
  <2>5. HandlerInv' /\ OutcomeIsTrue'
    BY <2>2, <2>4 DEF HandlerInv, OwnedIn, OutcomeIsTrue, TruthfulIn, Recorded
  <2>6. DiskInv' /\ RunningIsActive'
    BY <2>1, <2>2 DEF DiskInv, RunningIsActive, Recorded, Running
  <2> QED
    BY <2>3, <2>5, <2>6 DEF Inv
<1> QED
  BY <1>1, <1>2 DEF Open
\* The record that Start adds.
LEMMA StartedRecord ==
  ASSUME Inv, up, NEW id \in Ids, handler[id] = "none"
  PROVE  LET started == [records EXCEPT ![id] = [status |-> "running", startedAt |-> clock]]
         IN  /\ started \in [Ids -> Record \cup {None}]
             /\ started[id].status = "running"
             /\ \A other \in Ids \ {id} : started[other] = records[other]
             /\ records[id] = None /\ file[id] = None
<1>1. [status |-> "running", startedAt |-> clock] \in Record
  BY DEF Inv, TypeOK, Record
<1>2. records[id] = None /\ file[id] = None
  BY DEF Inv, HandlerInv, OwnedIn, Recorded
<1> QED
  BY <1>1, <1>2 DEF Inv, TypeOK

\* Start adds a running record for its own handler.
LEMMA StartInv ==
  ASSUME Inv, NEW id \in Ids, Start(id)
  PROVE  Inv'
<1> DEFINE started == [records EXCEPT ![id] = [status |-> "running", startedAt |-> clock]]
<1>1. /\ started \in [Ids -> Record \cup {None}]
      /\ started[id].status = "running"
      /\ \A other \in Ids \ {id} : started[other] = records[other]
      /\ records[id] = None /\ file[id] = None
  BY StartedRecord DEF Start
<1>2. records' \in Pruned(started)
  BY DEF Start
<1> HIDE DEF started
<1>3. /\ records' \in [Ids -> Record \cup {None}]
      /\ \A other \in Ids : records'[other] \in {started[other], None}
  BY <1>1, <1>2, PrunedRemoves
<1>4. /\ file' = records' /\ up' /\ up
      /\ handler[id] = "none"
      /\ handler' = [handler EXCEPT ![id] = "active"]
      /\ \A other \in Ids : handler'[other] = IF other = id THEN "active" ELSE handler[other]
  BY DEF Start, Inv, TypeOK
<1>a. \A other \in Recorded(records') :
        /\ other # id => other \in Recorded(records) /\ records'[other] = records[other]
        /\ other = id => records'[other].status = "running"
  BY <1>1, <1>3 DEF Recorded
<1>5. TypeOK'
  BY <1>3, <1>4 DEF Start, Inv, TypeOK
<1>b. OwnedIn(records) /\ TruthfulIn(records)
  BY DEF Inv, HandlerInv, OutcomeIsTrue
<1>6. HandlerInv'
  <2>1. ASSUME NEW other \in Recorded(records')
        PROVE  /\ handler'[other] \in {"active", "cut off", "succeeded", "failed"}
               /\ handler'[other] = "active" => records'[other].status = "running"
    <3>1. other \in Ids
      BY DEF Recorded
    <3>2. CASE other = id
      BY <1>4, <1>a, <3>1, <3>2
    <3>3. CASE other # id
      BY <1>4, <1>a, <1>b, <3>1, <3>3 DEF OwnedIn
    <3> QED
      BY <3>2, <3>3
  <2> QED
    BY <1>4, <2>1 DEF HandlerInv, OwnedIn
<1>7. DiskInv'
  BY <1>4 DEF DiskInv
<1>8. OutcomeIsTrue'
  <2>1. ASSUME NEW other \in Recorded(records')
        PROVE  /\ records'[other].status \in {"succeeded", "failed"} =>
                    handler'[other] = records'[other].status
               /\ records'[other].status = "interrupted" =>
                    handler'[other] \in {"cut off", "succeeded", "failed"}
    <3>1. other \in Ids
      BY DEF Recorded
    <3>2. CASE other = id
      BY <1>a, <3>2
    <3>3. CASE other # id
      BY <1>4, <1>a, <1>b, <3>1, <3>3 DEF TruthfulIn
    <3> QED
      BY <3>2, <3>3
  <2> QED
    BY <1>4, <2>1 DEF OutcomeIsTrue, TruthfulIn
<1>9. RunningIsActive'
  BY <1>4, <1>a DEF Inv, RunningIsActive, Recorded, Running
<1> QED
  BY <1>5, <1>6, <1>7, <1>8, <1>9 DEF Inv

\* A refused Start adds nothing.
LEMMA StartFailsInv ==
  ASSUME Inv, NEW id \in Ids, StartFails(id)
  PROVE  Inv'
<1> DEFINE started == [records EXCEPT ![id] = [status |-> "running", startedAt |-> clock]]
<1>1. /\ started \in [Ids -> Record \cup {None}]
      /\ \A other \in Ids \ {id} : started[other] = records[other]
      /\ records[id] = None /\ file[id] = None
  BY StartedRecord DEF StartFails
<1>2. PICK pruned \in Pruned(started) : records' = [pruned EXCEPT ![id] = None]
  BY DEF StartFails
<1> HIDE DEF started
<1>3. /\ pruned \in [Ids -> Record \cup {None}]
      /\ \A other \in Ids : pruned[other] \in {started[other], None}
  BY <1>1, PrunedRemoves
<1>4. /\ records' \in [Ids -> Record \cup {None}]
      /\ \A other \in Ids : records'[other] \in {records[other], None}
      /\ records'[id] = None
  BY <1>1, <1>2, <1>3
<1>5. /\ up' = up /\ up /\ file' = file /\ handler[id] = "none"
      /\ handler' = [handler EXCEPT ![id] = "refused"]
      /\ \A other \in Ids : handler'[other] = IF other = id THEN "refused" ELSE handler[other]
  BY DEF StartFails, Inv, TypeOK
<1>6. TypeOK'
  BY <1>4, <1>5 DEF StartFails, Inv, TypeOK
<1>a. /\ id \notin Recorded(file)
      /\ \A other \in Recorded(records') :
           other # id /\ other \in Recorded(records) /\ records'[other] = records[other]
  BY <1>1, <1>4 DEF Recorded
<1>c. /\ \A other \in Recorded(records') : handler'[other] = handler[other]
      /\ \A other \in Recorded(file) : handler'[other] = handler[other]
  BY <1>5, <1>a DEF Recorded
<1>d. /\ OwnedIn(records) /\ OwnedIn(file)
      /\ TruthfulIn(records) /\ TruthfulIn(file)
  BY DEF Inv, HandlerInv, OutcomeIsTrue
<1>b. HandlerInv'
  BY <1>5, <1>a, <1>c, <1>d DEF HandlerInv, OwnedIn
<1>7. OutcomeIsTrue'
  BY <1>5, <1>a, <1>c, <1>d DEF OutcomeIsTrue, TruthfulIn
<1>8. DiskInv' /\ RunningIsActive'
  BY <1>1, <1>4, <1>5 DEF Inv, TypeOK, DiskInv, RunningIsActive, Recorded, Running
<1> QED
  BY <1>6, <1>7, <1>8, <1>b DEF Inv

\* Finish stores the outcome of its own handler, on disk or only in memory.
LEMMA FinishInv ==
  ASSUME Inv, NEW id \in Ids, NEW status \in {"succeeded", "failed"}, Finish(id, status)
  PROVE  Inv'
<1>1. /\ up /\ up' /\ clock' = clock /\ restarts' = restarts
      /\ handler[id] = "active"
      /\ handler' = [handler EXCEPT ![id] = status]
  BY DEF Finish
<1>2. CASE id \in Running(records)
  <2>1. /\ records' = [records EXCEPT ![id].status = status]
        /\ file' \in {records', file}
    BY <1>2 DEF Finish
  <2>2. records[id] \in Record
    BY <1>2 DEF Inv, TypeOK, Running, Recorded
  <2>3. records'[id] \in Record /\ records'[id].status = status
    <3>1. records'[id] = [records[id] EXCEPT !.status = status]
      BY <2>1 DEF Inv, TypeOK
    <3> QED
      BY <2>2, <3>1 DEF Record, Terminal
  <2>4. \A other \in Ids \ {id} : records'[other] = records[other]
    BY <2>1 DEF Inv, TypeOK
  <2>5. records' \in [Ids -> Record \cup {None}]
    BY <2>1, <2>3, <2>4 DEF Inv, TypeOK
  <2>6. id \in Recorded(file) => file[id].status = "running"
    BY <1>1 DEF Inv, HandlerInv, OwnedIn
  <2>7. TypeOK'
    BY <1>1, <2>1, <2>5 DEF Inv, TypeOK
  <2>a. OwnedIn(records) /\ OwnedIn(file)
    BY DEF Inv, HandlerInv
  <2>b. \A other \in Ids : handler'[other] = IF other = id THEN status ELSE handler[other]
    BY <1>1 DEF Inv, TypeOK
  <2>c. ASSUME NEW other \in Recorded(records')
        PROVE  /\ handler'[other] \in {"active", "cut off", "succeeded", "failed"}
               /\ handler'[other] = "active" => records'[other].status = "running"
    <3>1. other \in Ids /\ (other # id => other \in Recorded(records))
      BY <2>4 DEF Recorded
    <3>2. CASE other = id
      BY <2>3, <2>b, <3>1, <3>2
    <3>3. CASE other # id
      BY <2>4, <2>a, <2>b, <3>1, <3>3 DEF OwnedIn
    <3> QED
      BY <3>2, <3>3
  <2>d. ASSUME file' = records' PROVE HandlerInv'
    BY <1>1, <2>c, <2>d DEF HandlerInv, OwnedIn
  <2>e. ASSUME file' = file PROVE HandlerInv'
    <3>1. ASSUME NEW other \in Recorded(file)
          PROVE  /\ handler'[other] \in {"active", "cut off", "succeeded", "failed"}
                 /\ handler'[other] = "active" => file[other].status = "running"
      <4>1. other \in Ids
        BY DEF Recorded
      <4>2. CASE other = id
        BY <2>6, <2>b, <4>1, <4>2
      <4>3. CASE other # id
        BY <2>a, <2>b, <4>1, <4>3 DEF OwnedIn
      <4> QED
        BY <4>2, <4>3
    <3> QED
      BY <1>1, <2>c, <2>e, <3>1 DEF HandlerInv, OwnedIn
  <2>8. HandlerInv'
    BY <2>1, <2>d, <2>e
  <2>9. OutcomeIsTrue'
    <3>1. \A other \in Ids : handler'[other] = IF other = id THEN status ELSE handler[other]
      BY <1>1 DEF Inv, TypeOK
    <3>2. \A other \in Recorded(records)' :
            /\ records'[other].status \in {"succeeded", "failed"}
                 => handler'[other] = records'[other].status
            /\ records'[other].status = "interrupted"
                 => handler'[other] \in {"cut off", "succeeded", "failed"}
      BY <2>3, <2>4, <3>1 DEF Inv, OutcomeIsTrue, TruthfulIn, Recorded
    <3>3. \A other \in Recorded(file) :
            /\ file[other].status \in {"succeeded", "failed"}
                 => handler'[other] = file[other].status
            /\ file[other].status = "interrupted"
                 => handler'[other] \in {"cut off", "succeeded", "failed"}
      BY <2>6, <3>1 DEF Inv, OutcomeIsTrue, TruthfulIn, Recorded
    <3> QED
      BY <2>1, <3>2, <3>3 DEF OutcomeIsTrue, TruthfulIn, Recorded
  <2>10. DiskInv'
    <3>1. CASE file' = records'
      BY <3>1 DEF DiskInv
    <3>2. CASE file' = file
      <4>1. \A other \in Recorded(file) :
              file[other].status \in Terminal => records'[other] \in {file[other], None}
        BY <1>1, <2>4, <2>6 DEF Inv, DiskInv, Recorded, Terminal
      <4> QED
        BY <3>2, <4>1 DEF DiskInv, Recorded
    <3> QED
      BY <2>1, <3>1, <3>2
  <2>11. RunningIsActive'
    BY <1>1, <2>3, <2>4 DEF Inv, TypeOK, RunningIsActive, Recorded, Running
  <2> QED
    BY <2>7, <2>8, <2>9, <2>10, <2>11 DEF Inv
<1>3. CASE id \notin Running(records)
  <2>1. records' = records /\ file' = file
    BY <1>3 DEF Finish
  <2>2. id \in Recorded(file) => file[id].status = "running"
    BY <1>1 DEF Inv, HandlerInv, OwnedIn
  <2>3. id \notin Recorded(records)
    BY <1>1, <1>3 DEF Inv, HandlerInv, OwnedIn, Running
  <2>4. TypeOK' /\ DiskInv'
    BY <1>1, <2>1 DEF Inv, TypeOK, DiskInv, Recorded
  <2>5. HandlerInv' /\ OutcomeIsTrue' /\ RunningIsActive'
    BY <1>1, <2>1, <2>2, <2>3
    DEF Inv, TypeOK, HandlerInv, OwnedIn, OutcomeIsTrue, TruthfulIn, RunningIsActive, Recorded, Running
  <2> QED
    BY <2>4, <2>5 DEF Inv
<1> QED
  BY <1>2, <1>3

\* A stop cuts off every handler at work, and the memory is gone.
LEMMA StopInv ==
  ASSUME Inv, Stop
  PROVE  Inv'
<1>1. \A id \in Ids :
        /\ handler'[id] # "active"
        /\ handler[id] # "active" => handler'[id] = handler[id]
        /\ handler[id] = "active" => handler'[id] = "cut off"
  BY DEF Stop
<1>2. Recorded(NoRecords) = {}
  BY DEF Recorded, NoRecords
<1>3. TypeOK'
  <2>1. NoRecords \in [Ids -> Record \cup {None}]
    BY DEF NoRecords
  <2>2. handler' \in [Ids -> {"none", "active", "refused", "cut off", "succeeded", "failed"}]
    BY DEF Stop, Inv, TypeOK
  <2>3. /\ records' = NoRecords /\ file' \in [Ids -> Record \cup {None}]
        /\ clock' \in Nat
    BY DEF Stop, Inv, TypeOK
  <2>4. restarts' \in Nat
    <3>1. restarts \in Nat /\ restarts' = restarts + 1
      BY DEF Stop, Inv, TypeOK
    <3> QED
      BY <3>1
  <2>5. up' \in BOOLEAN
    BY DEF Stop
  <2> QED
    BY <2>1, <2>2, <2>3, <2>4, <2>5 DEF TypeOK
<1>4. HandlerInv'
  BY <1>1, <1>2 DEF Stop, Inv, HandlerInv, OwnedIn, Recorded
<1>5. DiskInv' /\ RunningIsActive'
  BY <1>2 DEF Stop, DiskInv, RunningIsActive, Running
<1>6. OutcomeIsTrue'
  BY <1>1, <1>2 DEF Stop, Inv, OutcomeIsTrue, TruthfulIn, HandlerInv, OwnedIn, Recorded
<1> QED
  BY <1>3, <1>4, <1>5, <1>6 DEF Inv

\* Time, and steps that are none, leave the records alone.
LEMMA ClockInv ==
  ASSUME Inv, Tick \/ StepBack \/ UNCHANGED vars
  PROVE  Inv'
<1>1. UNCHANGED <<up, records, file, handler, restarts>>
  BY DEF Tick, StepBack, vars
<1>2. clock' \in Nat
  <2>1. clock \in Nat
    BY DEF Inv, TypeOK
  <2> QED
    BY <2>1 DEF Tick, StepBack, vars
<1> QED
  BY <1>1, <1>2 DEF Inv, TypeOK, HandlerInv, OwnedIn, DiskInv, OutcomeIsTrue, TruthfulIn, RunningIsActive,
              Recorded, Running

\* Every step keeps the inductive invariant.
LEMMA NextInv == Inv /\ [Next]_vars => Inv'
BY OpenInv, StartInv, StartFailsInv, FinishInv, StopInv, ClockInv DEF Next

\* The inductive invariant holds in every state of the operation store.
THEOREM InvInductive == Spec => []Inv
BY InitInv, NextInv, PTL DEF Spec

-----------------------------------------------------------------------------
\* The variables keep their types; no status but the four explicit ones is stored.
THEOREM TypeCorrect == Spec => []TypeOK
<1>1. Inv => TypeOK
  BY DEF Inv
<1> QED
  BY <1>1, InvInductive, PTL

\* An outcome in the history is the outcome the handler had.
THEOREM OutcomesTrue == Spec => []OutcomeIsTrue
<1>1. Inv => OutcomeIsTrue
  BY DEF Inv
<1> QED
  BY <1>1, InvInductive, PTL

\* What is reported as running has a handler in this process.
THEOREM RunningActive == Spec => []RunningIsActive
<1>1. Inv => RunningIsActive
  BY DEF Inv
<1> QED
  BY <1>1, InvInductive, PTL

\* A terminal record on disk stays what it is until it is pruned: Open leaves it
\* alone, and whatever the memory writes back is a copy of it.
THEOREM TerminalFinal == Spec => TerminalIsFinal
<1> DEFINE Kept == \A id \in Recorded(file) :
                     file[id].status \in Terminal => file'[id] \in {file[id], None}
<1>1. Inv /\ [Next]_vars => Kept
  <2> SUFFICES ASSUME Inv, [Next]_vars PROVE Kept
    OBVIOUS
  <2>1. CASE file' = file
    BY <2>1
  <2>2. CASE Open /\ file' # file
    <3>1. \A id \in Ids : id \notin Running(file) => Interrupted(file)[id] = file[id]
      BY InterruptedRecords DEF Inv, TypeOK
    <3>2. file' = Interrupted(file)
      BY <2>2 DEF Open
    <3> QED
      BY <3>1, <3>2 DEF Running, Recorded, Terminal
  <2>3. ASSUME NEW id \in Ids, Start(id) PROVE Kept
    <3> DEFINE started == [records EXCEPT ![id] = [status |-> "running",
                                                   startedAt |-> clock]]
    <3>1. /\ started \in [Ids -> Record \cup {None}]
          /\ \A other \in Ids \ {id} : started[other] = records[other]
          /\ file[id] = None
      BY <2>3, StartedRecord DEF Start
    <3>2. file' \in Pruned(started) /\ up
      BY <2>3 DEF Start
    <3> HIDE DEF started
    <3>3. \A other \in Ids : file'[other] \in {started[other], None}
      BY <3>1, <3>2, PrunedRemoves
    <3> QED
      BY <3>1, <3>2, <3>3 DEF Inv, DiskInv, Recorded
  <2>4. ASSUME NEW id \in Ids, NEW status \in {"succeeded", "failed"}, Finish(id, status),
               file' # file
        PROVE  Kept
    <3>1. /\ up /\ handler[id] = "active"
          /\ file' = [records EXCEPT ![id].status = status]
      BY <2>4 DEF Finish
    <3>2. id \in Recorded(file) => file[id].status = "running"
      BY <3>1 DEF Inv, HandlerInv, OwnedIn
    <3>3. \A other \in Ids \ {id} : file'[other] = records[other]
      BY <3>1 DEF Inv, TypeOK
    <3> QED
      BY <3>1, <3>2, <3>3 DEF Inv, DiskInv, Recorded, Terminal
  <2>5. \/ file' = file
        \/ Open /\ file' # file
        \/ \E id \in Ids : Start(id)
        \/ \E id \in Ids, status \in {"succeeded", "failed"} : Finish(id, status) /\ file' # file
    BY DEF Next, StartFails, Tick, StepBack, Stop, vars
  <2> QED
    BY <2>1, <2>2, <2>3, <2>4, <2>5
<1>2. Inv /\ [Next]_vars => [Kept]_vars
  BY <1>1
<1> QED
  BY <1>2, InvInductive, PTL DEF Spec, TerminalIsFinal

-----------------------------------------------------------------------------
\* Taking records away does not make more of them.
LEMMA FewerRecords ==
  ASSUME NEW few, NEW many, \A id \in Ids : few[id] \in {many[id], None},
         Cardinality(Recorded(many)) <= MaxRecords
  PROVE  Cardinality(Recorded(few)) <= MaxRecords
<1>1. Recorded(few) \subseteq Recorded(many)
  BY DEF Recorded
<1>2. IsFiniteSet(Recorded(many))
  BY IdsAssumption, FS_Subset DEF Recorded
<1>3. /\ Cardinality(Recorded(few)) <= Cardinality(Recorded(many))
      /\ Cardinality(Recorded(few)) \in Nat /\ Cardinality(Recorded(many)) \in Nat
  BY <1>1, <1>2, FS_Subset, FS_CardinalityType
<1> QED
  BY <1>3, MaxRecordsAssumption

\* maxRecords is a bound for every history of starts, failed writes, restarts.
THEOREM HistoryBounded == Spec => []BoundedHistory
<1>1. Init => BoundedHistory
  <2>1. Recorded(NoRecords) = {}
    BY DEF Recorded, NoRecords
  <2> QED
    BY <2>1, FS_EmptySet, MaxRecordsAssumption DEF Init, BoundedHistory
<1>2. Inv /\ BoundedHistory /\ [Next]_vars => BoundedHistory'
  <2> SUFFICES ASSUME Inv, BoundedHistory, [Next]_vars PROVE BoundedHistory'
    OBVIOUS
  <2>1. CASE Open
    <3>1. Recorded(Interrupted(file)) = Recorded(file)
      BY InterruptedRecords DEF Inv, TypeOK
    <3> QED
      BY <2>1, <3>1 DEF Open, BoundedHistory, Recorded
  <2>2. ASSUME NEW id \in Ids, Start(id) PROVE BoundedHistory'
    <3> DEFINE started == [records EXCEPT ![id] = [status |-> "running",
                                                   startedAt |-> clock]]
    <3>1. started \in [Ids -> Record \cup {None}]
      BY <2>2, StartedRecord DEF Start
    <3>2. records' \in Pruned(started) /\ file' = records'
      BY <2>2 DEF Start
    <3> HIDE DEF started
    <3>3. Cardinality(Recorded(records')) <= MaxRecords
      BY <3>1, <3>2, PrunedBound
    <3> QED
      BY <3>2, <3>3 DEF BoundedHistory, Recorded
  <2>3. ASSUME NEW id \in Ids, StartFails(id) PROVE BoundedHistory'
    <3> DEFINE started == [records EXCEPT ![id] = [status |-> "running",
                                                   startedAt |-> clock]]
    <3>1. started \in [Ids -> Record \cup {None}]
      BY <2>3, StartedRecord DEF StartFails
    <3>2. PICK pruned \in Pruned(started) : records' = [pruned EXCEPT ![id] = None]
      BY <2>3 DEF StartFails
    <3> HIDE DEF started
    <3>3. Cardinality(Recorded(pruned)) <= MaxRecords /\ pruned \in [Ids -> Record \cup {None}]
      BY <3>1, <3>2, PrunedBound, PrunedRemoves
    <3>4. \A other \in Ids : records'[other] \in {pruned[other], None}
      BY <3>2, <3>3
    <3>5. Cardinality(Recorded(records')) <= MaxRecords
      BY <3>3, <3>4, FewerRecords
    <3> QED
      BY <2>3, <3>5 DEF StartFails, BoundedHistory, Recorded
  <2>4. ASSUME NEW id \in Ids, NEW status \in {"succeeded", "failed"}, Finish(id, status)
        PROVE  BoundedHistory'
    <3>1. CASE id \in Running(records)
      <4>1. records' = [records EXCEPT ![id].status = status] /\ file' \in {records', file}
        BY <2>4, <3>1 DEF Finish
      <4>2. \A other \in Ids : records'[other] # None => records[other] # None
        BY <3>1, <4>1 DEF Inv, TypeOK, Running, Recorded
      <4>3. Recorded(records') \subseteq Recorded(records)
        BY <4>2 DEF Recorded
      <4>4. IsFiniteSet(Recorded(records))
        BY IdsAssumption, FS_Subset DEF Recorded
      <4>5. Cardinality(Recorded(records')) <= MaxRecords
        <5>1. /\ Cardinality(Recorded(records')) <= Cardinality(Recorded(records))
              /\ Cardinality(Recorded(records')) \in Nat
              /\ Cardinality(Recorded(records)) \in Nat
          BY <4>3, <4>4, FS_Subset, FS_CardinalityType
        <5> QED
          BY <5>1, MaxRecordsAssumption DEF BoundedHistory
      <4> QED
        BY <4>1, <4>5 DEF BoundedHistory, Recorded
    <3>2. CASE id \notin Running(records)
      BY <2>4, <3>2 DEF Finish, BoundedHistory, Recorded
    <3> QED
      BY <3>1, <3>2
  <2>5. CASE Stop
    <3>1. Recorded(NoRecords) = {}
      BY DEF Recorded, NoRecords
    <3>2. Cardinality(Recorded(NoRecords)) <= MaxRecords
      BY <3>1, FS_EmptySet, MaxRecordsAssumption
    <3> QED
      BY <2>5, <3>2 DEF Stop, BoundedHistory, Recorded
  <2>6. CASE Tick \/ StepBack \/ UNCHANGED vars
    BY <2>6 DEF Tick, StepBack, vars, BoundedHistory, Recorded
  <2> QED
    BY <2>1, <2>2, <2>3, <2>4, <2>5, <2>6 DEF Next
<1> QED
  BY <1>1, <1>2, InvInductive, PTL DEF Spec

\* When Start has succeeded, the new record is on disk, or the file is full of
\* records that are no older.
THEOREM StartRecorded == Spec => StartedIsRecorded
<1> DEFINE Kept(id) == \/ id \in Recorded(file')
                       \/ /\ Cardinality(Recorded(file')) = MaxRecords
                          /\ \A other \in Recorded(file') : file'[other].startedAt >= clock
           Begun == \A id \in Ids :
                      handler[id] = "none" /\ handler'[id] = "active" => Kept(id)
<1>1. Inv /\ [Next]_vars => Begun
  <2> SUFFICES ASSUME Inv, [Next]_vars, NEW id \in Ids,
                      handler[id] = "none", handler'[id] = "active",
                      id \notin Recorded(file')
               PROVE  /\ Cardinality(Recorded(file')) = MaxRecords
                      /\ \A other \in Recorded(file') : file'[other].startedAt >= clock
    OBVIOUS
  <2>1. Start(id)
    BY DEF Next, Open, Start, StartFails, Finish, Tick, StepBack, Stop, vars, Inv, TypeOK
  <2> DEFINE started == [records EXCEPT ![id] = [status |-> "running", startedAt |-> clock]]
  <2>2. started \in [Ids -> Record \cup {None}]
    BY <2>1, StartedRecord DEF Start
  <2>3. file' \in Pruned(started)
    BY <2>1 DEF Start
  <2>4. started[id] = [status |-> "running", startedAt |-> clock]
    BY DEF Inv, TypeOK
  <2>5. started[id] # None /\ started[id].startedAt = clock
    <3>1. [status |-> "running", startedAt |-> clock] \in Record
      BY DEF Inv, TypeOK, Record
    <3> QED
      BY <2>4, <3>1, RecordIsNotNone
  <2> HIDE DEF started
  <2>6. id \in Recorded(started)
    BY <2>5 DEF Recorded
  <2> QED
    BY <2>2, <2>3, <2>5, <2>6, PrunedKeepsNewest
<1>2. Inv /\ [Next]_vars => [Begun]_vars
  BY <1>1
<1> QED
  BY <1>2, InvInductive, PTL DEF Spec, StartedIsRecorded
=============================================================================
