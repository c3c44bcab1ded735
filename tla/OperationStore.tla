--------------------------- MODULE OperationStore ---------------------------
(***************************************************************************)
(* internal/operations/store.go: the history of traced mutations.          *)
(*                                                                         *)
(* The HTTP handler of a mutation calls Start with the request's operation *)
(* ID before it touches the state, and Finish once when it is done         *)
(* (beginOperation and finishOperation of internal/httpserver/server.go).  *)
(* The store keeps the records in memory and rewrites operations.json on   *)
(* every change; Open, after a restart, interrupts what was running.       *)
(***************************************************************************)
EXTENDS Naturals, FiniteSets

CONSTANTS Ids,          \* operation IDs, each drawn once by newOperationID
          MaxRecords,   \* maxRecords, 1000 in the code
          None,         \* an ID without a record
          MaxTime,      \* bound: the highest reading of the wall clock
          MaxRestarts,  \* bound: restarts of the process
          ClockStepsBack  \* whether the wall clock may be set back

ASSUME IdsAssumption == IsFiniteSet(Ids)
ASSUME MaxRecordsAssumption == MaxRecords \in Nat \ {0}
ASSUME ClockAssumption == ClockStepsBack \in BOOLEAN /\ MaxTime \in Nat

Terminal == {"succeeded", "failed", "interrupted"}
Record == [status : {"running"} \cup Terminal, startedAt : Nat]

ASSUME NoneAssumption == None \notin Record

VARIABLES up,        \* whether the process has the store open
          records,   \* Store.doc.Records
          file,      \* operations.json
          handler,   \* handler[id]: the request with this operation ID
          clock,     \* the wall clock: StartedAt comes from time.Now().UTC()
          restarts   \* bound: restarts so far

vars == <<up, records, file, handler, clock, restarts>>

NoRecords == [id \in Ids |-> None]

Recorded(recs) == {id \in Ids : recs[id] # None}

Running(recs) == {id \in Recorded(recs) : recs[id].status = "running"}

Init == /\ up = FALSE
        /\ records = NoRecords
        /\ file = NoRecords
        /\ handler = [id \in Ids |-> "none"]
        /\ clock = 0
        /\ restarts = 0

-----------------------------------------------------------------------------
(***************************************************************************)
(* Open.  A record that is still running is of an earlier process.         *)
(***************************************************************************)

\* Mutant: failed operations are interrupted as well.
InterruptedAllButSuccess(recs) ==
  [id \in Ids |-> IF id \in Recorded(recs) /\ recs[id].status # "succeeded"
                  THEN [recs[id] EXCEPT !.status = "interrupted"]
                  ELSE recs[id]]

\* Mutant: what was running is reported as successful.
InterruptedAsSuccess(recs) ==
  [id \in Ids |-> IF id \in Running(recs)
                  THEN [recs[id] EXCEPT !.status = "succeeded"]
                  ELSE recs[id]]

\* Mutant: the error code takes the place of the status.
InterruptedByCode(recs) ==
  [id \in Ids |-> IF id \in Running(recs)
                  THEN [recs[id] EXCEPT !.status = "process_restarted"]
                  ELSE recs[id]]

Interrupted(recs) ==
  [id \in Ids |-> IF id \in Running(recs)
                  THEN [recs[id] EXCEPT !.status = "interrupted"]
                  ELSE recs[id]]

\* Mutant: the converted records stay in memory.
OpenInMemory == /\ ~up
                /\ records' = Interrupted(file)
                /\ up' = TRUE
                /\ UNCHANGED <<file, handler, clock, restarts>>

\* The converted records are written back at once; if that write fails, the
\* process exits and is started again.
Open == /\ ~up
        /\ \/ /\ file' = Interrupted(file)
              /\ records' = Interrupted(file)
              /\ up' = TRUE
           \/ /\ Running(file) # {}
              /\ UNCHANGED <<up, records, file>>
        /\ UNCHANGED <<handler, clock, restarts>>

-----------------------------------------------------------------------------
(***************************************************************************)
(* pruneLocked keeps the MaxRecords records that started last.  sort.Slice *)
(* is not stable: of records with the same time any may go.                *)
(***************************************************************************)
\* Mutant: the comparison forgets the record that comes on top.
PrunedOneOver(recs) ==
  LET all == Recorded(recs)
      keeps == {kept \in SUBSET all :
                  /\ Cardinality(kept) = MaxRecords
                  /\ \A old \in all \ kept, new \in kept :
                       recs[old].startedAt <= recs[new].startedAt}
  IN  IF Cardinality(all) <= MaxRecords + 1
      THEN {recs}
      ELSE {[id \in Ids |-> IF id \in kept THEN recs[id] ELSE None] : kept \in keeps}

\* Mutant: the sort is the other way round.
PrunedNewest(recs) ==
  LET all == Recorded(recs)
      keeps == {kept \in SUBSET all :
                  /\ Cardinality(kept) = MaxRecords
                  /\ \A new \in all \ kept, old \in kept :
                       recs[old].startedAt <= recs[new].startedAt}
  IN  IF Cardinality(all) <= MaxRecords
      THEN {recs}
      ELSE {[id \in Ids |-> IF id \in kept THEN recs[id] ELSE None] : kept \in keeps}

Pruned(recs) ==
  LET all == Recorded(recs)
      keeps == {kept \in SUBSET all :
                  /\ Cardinality(kept) = MaxRecords
                  /\ \A old \in all \ kept, new \in kept :
                       recs[old].startedAt <= recs[new].startedAt}
  IN  IF Cardinality(all) <= MaxRecords
      THEN {recs}
      ELSE {[id \in Ids |-> IF id \in kept THEN recs[id] ELSE None] : kept \in keeps}

\* Start succeeds.
Start(id) ==
  /\ up
  /\ handler[id] = "none"
  /\ records' \in Pruned([records EXCEPT ![id] = [status |-> "running",
                                                  startedAt |-> clock]])
  /\ file' = records'
  /\ handler' = [handler EXCEPT ![id] = "active"]
  /\ UNCHANGED <<up, clock, restarts>>

\* Mutant: the record of a refused operation stays.
StartFailsKeepsRecord(id) ==
  /\ up
  /\ handler[id] = "none"
  /\ records' \in Pruned([records EXCEPT ![id] = [status |-> "running",
                                                  startedAt |-> clock]])
  /\ handler' = [handler EXCEPT ![id] = "refused"]
  /\ UNCHANGED <<up, file, clock, restarts>>

\* operations.json cannot be written.  The new record is taken back, what
\* pruneLocked removed is not, and the handler ends with
\* operation_store_unavailable.
StartFails(id) ==
  /\ up
  /\ handler[id] = "none"
  /\ \E recs \in Pruned([records EXCEPT ![id] = [status |-> "running",
                                                 startedAt |-> clock]]) :
       records' = [recs EXCEPT ![id] = None]
  /\ handler' = [handler EXCEPT ![id] = "refused"]
  /\ UNCHANGED <<up, file, clock, restarts>>

\* The handler is done with the mutation and calls Finish.  A record that was
\* pruned in the meantime is not found; a write that fails leaves the outcome in
\* memory only.  finishOperation just logs either error.
Finish(id, status) ==
  /\ up
  /\ handler[id] = "active"
  /\ handler' = [handler EXCEPT ![id] = status]
  /\ IF id \in Running(records)
     THEN /\ records' = [records EXCEPT ![id].status = status]
          /\ file' \in {records', file}
     ELSE UNCHANGED <<records, file>>
  /\ UNCHANGED <<up, clock, restarts>>

-----------------------------------------------------------------------------
(***************************************************************************)
(* The environment: the wall clock, and a process that is killed or shuts  *)
(* down before its handlers are done.                                      *)
(***************************************************************************)
Tick == /\ clock < MaxTime
        /\ clock' = clock + 1
        /\ UNCHANGED <<up, records, file, handler, restarts>>

StepBack == /\ ClockStepsBack
            /\ clock > 0
            /\ clock' = clock - 1
            /\ UNCHANGED <<up, records, file, handler, restarts>>

Stop == /\ up
        /\ restarts < MaxRestarts
        /\ up' = FALSE
        /\ records' = NoRecords
        /\ handler' = [id \in Ids |-> IF handler[id] = "active" THEN "cut off"
                                                                ELSE handler[id]]
        /\ restarts' = restarts + 1
        /\ UNCHANGED <<file, clock>>

Next == \/ Open
        \/ \E id \in Ids : Start(id) \/ StartFails(id)
        \/ \E id \in Ids, status \in {"succeeded", "failed"} : Finish(id, status)
        \/ Tick
        \/ StepBack
        \/ Stop

Spec == Init /\ [][Next]_vars

-----------------------------------------------------------------------------
(***************************************************************************)
(* Properties.                                                             *)
(***************************************************************************)

\* Every variable has its type.
TypeOK == /\ up \in BOOLEAN
          /\ records \in [Ids -> Record \cup {None}]
          /\ file \in [Ids -> Record \cup {None}]
          /\ handler \in [Ids -> {"none", "active", "refused", "cut off",
                                  "succeeded", "failed"}]
          /\ clock \in Nat
          /\ restarts \in Nat

\* The history stays bounded in memory and on disk, whichever writes fail
\* (pruneLocked; ADR-0007 "The store retains a bounded history").
BoundedHistory == /\ Cardinality(Recorded(records)) <= MaxRecords
                  /\ Cardinality(Recorded(file)) <= MaxRecords

TruthfulIn(recs) ==
  \A id \in Recorded(recs) :
    /\ recs[id].status \in {"succeeded", "failed"} => handler[id] = recs[id].status
    /\ recs[id].status = "interrupted" =>
         handler[id] \in {"cut off", "succeeded", "failed"}

\* A terminal status tells what the handler did: no restart, failed write or
\* pruning turns an operation that was cut off into a successful one, or one
\* that failed (ADR-0007 "it is never silently reported as successful").
OutcomeIsTrue == TruthfulIn(records) /\ TruthfulIn(file)

\* What the process reports as running, is: its handler has started the mutation
\* and not ended.  There is none left over from before a restart, from a Start
\* that was refused or from a Finish whose write failed.
RunningIsActive == \A id \in Running(records) : handler[id] = "active"

\* A terminal record on disk is never rewritten, it can only be pruned.
TerminalIsFinal ==
  [][\A id \in Recorded(file) :
       file[id].status \in Terminal => file'[id] \in {file[id], None}]_vars

\* ADR-0007: "Every traced application mutation ... records a persistent
\* operation".  When Start has succeeded, the record is in operations.json, or
\* pruneLocked has filled the file with records that are no older: ones of the same
\* instant, or from before the clock was set back.  No older record takes the
\* place of the one that has just started.
StartedIsRecorded ==
  [][\A id \in Ids :
       handler[id] = "none" /\ handler'[id] = "active" =>
         \/ id \in Recorded(file')
         \/ /\ Cardinality(Recorded(file')) = MaxRecords
            /\ \A other \in Recorded(file') : file'[other].startedAt >= clock]_vars
=============================================================================
