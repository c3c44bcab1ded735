---------------------------- MODULE ControlCenter ----------------------------
(***************************************************************************)
(* A traced mutation from end to end: internal/httpserver/server.go calls  *)
(* the operation store, the state store, the operation store again and the *)
(* audit log, one after the other and each under a lock of its own.  Any   *)
(* of the four writes may fail, the process may stop between any two, and  *)
(* another request may export a diagnostics bundle meanwhile.              *)
(*                                                                         *)
(* The operation store is OperationStore, extended here; the audit log is  *)
(* its abstraction AuditTrail; of the state store it matters which changes *)
(* are in memory and on disk, and whether the pair of files is torn.       *)
(***************************************************************************)
EXTENDS OperationStore, Sequences

CONSTANT Exporting   \* bound: whether the diagnostics bundle is exported

ASSUME ExportingAssumption == Exporting \in BOOLEAN

VARIABLES step,      \* step[id]: what the handler of the operation does next
          outcome,   \* outcome[id]: what the state store answered
          memory,    \* the operations whose change is in state.Store
          disk,      \* those whose change is in state.json
          torn,      \* secrets.json is of a newer revision than state.json
          trail, acknowledged, durable, fragment,  \* the audit log
          bundle     \* the diagnostics bundle that is being built

stateVars == <<memory, disk, torn>>
auditVars == <<trail, acknowledged, durable, fragment>>
systemVars == <<vars, step, outcome, stateVars, auditVars, bundle>>

Event == [id : Ids, result : {"success", "failed"}]

Audit == INSTANCE AuditTrail WITH Events <- Event

NoBundle == [stage |-> "audit", audit |-> {}, users |-> {}, operations |-> NoRecords]

SystemInit == /\ Init
              /\ step = [id \in Ids |-> "begin"]
              /\ outcome = [id \in Ids |-> "none"]
              /\ memory = {}
              /\ disk = {}
              /\ torn = FALSE
              /\ Audit!Init
              /\ bundle = NoBundle

-----------------------------------------------------------------------------
(***************************************************************************)
(* A handler: changePassword, createUser or setBlocked.                    *)
(***************************************************************************)
GoTo(id, next) == step' = [step EXCEPT ![id] = next]

\* Mutant: the error of Start is logged and the handler goes on.
BeginOperationAnyway(id) ==
  /\ step[id] = "begin"
  /\ \/ Start(id)
     \/ StartFails(id)
  /\ GoTo(id, "mutate")
  /\ UNCHANGED <<outcome, stateVars, auditVars, bundle>>

\* Without a record the request is refused, before anything is changed.
BeginOperation(id) ==
  /\ step[id] = "begin"
  /\ \/ Start(id) /\ GoTo(id, "mutate")
     \/ StartFails(id) /\ GoTo(id, "answered")
  /\ UNCHANGED <<outcome, stateVars, auditVars, bundle>>

\* persistLocked writes secrets.json and then state.json, each with all that is
\* in memory.
Persisted(id) == /\ disk' = memory \cup {id}
                 /\ torn' = FALSE

\* Mutant: the change is kept in memory and the files are written later.
MutateInMemory(id) ==
  /\ up
  /\ step[id] = "mutate"
  /\ memory' = memory \cup {id}
  /\ outcome' = [outcome EXCEPT ![id] = "succeeded"]
  /\ GoTo(id, "finish")
  /\ UNCHANGED <<vars, disk, torn, auditVars, bundle>>

\* The store refuses, or persists the change, or keeps it in memory because one
\* of the two files cannot be written.
Mutate(id) ==
  /\ up
  /\ step[id] = "mutate"
  /\ \/ /\ outcome' = [outcome EXCEPT ![id] = "failed"]
        /\ UNCHANGED stateVars
     \/ /\ outcome' = [outcome EXCEPT ![id] = "succeeded"]
        /\ memory' = memory \cup {id}
        /\ Persisted(id)
     \/ /\ outcome' = [outcome EXCEPT ![id] = "failed"]
        /\ memory' = memory \cup {id}
        /\ torn' \in {torn, TRUE}
        /\ UNCHANGED disk
  /\ GoTo(id, "finish")
  /\ UNCHANGED <<vars, auditVars, bundle>>

\* Mutant: a refused mutation is answered without a call of Finish.
FinishOperationOfSuccess(id) ==
  /\ step[id] = "finish"
  /\ IF outcome[id] = "succeeded" THEN Finish(id, outcome[id]) ELSE up /\ UNCHANGED vars
  /\ GoTo(id, "audit")
  /\ UNCHANGED <<outcome, stateVars, auditVars, bundle>>

\* The error of operations.Finish is only logged.
FinishOperation(id) ==
  /\ step[id] = "finish"
  /\ Finish(id, outcome[id])
  /\ GoTo(id, "audit")
  /\ UNCHANGED <<outcome, stateVars, auditVars, bundle>>

Result(id) == IF outcome[id] = "succeeded" THEN "success" ELSE "failed"

\* So is that of the append; then the response is written.
AuditEvent(id) ==
  LET event == [id |-> id, result |-> Result(id)]
  IN  /\ up
      /\ step[id] = "audit"
      /\ Audit!Record(event) \/ Audit!Fail(event)
      /\ GoTo(id, "answered")
      /\ UNCHANGED <<vars, outcome, stateVars, bundle>>

-----------------------------------------------------------------------------
(***************************************************************************)
(* diagnostics.Build reads the audit log, the users and the operations, in *)
(* this order.                                                             *)
(***************************************************************************)
\* Mutant: the operations are read first.
BuildOperationsFirst ==
  /\ up /\ Exporting
  /\ \/ /\ bundle.stage = "audit"
        /\ bundle' = [bundle EXCEPT !.stage = "users", !.operations = records]
     \/ /\ bundle.stage = "users"
        /\ bundle' = [bundle EXCEPT !.stage = "operations", !.users = memory]
     \/ /\ bundle.stage = "operations"
        /\ bundle' = [bundle EXCEPT !.stage = "complete",
                                    !.audit = {trail[i] : i \in DOMAIN trail}]
  /\ UNCHANGED <<vars, step, outcome, stateVars, auditVars>>

Build ==
  /\ up /\ Exporting
  /\ \/ /\ bundle.stage = "audit"
        /\ bundle' = [bundle EXCEPT !.stage = "users",
                                    !.audit = {trail[i] : i \in DOMAIN trail}]
     \/ /\ bundle.stage = "users"
        /\ bundle' = [bundle EXCEPT !.stage = "operations", !.users = memory]
     \/ /\ bundle.stage = "operations"
        /\ bundle' = [bundle EXCEPT !.stage = "complete", !.operations = records]
  /\ UNCHANGED <<vars, step, outcome, stateVars, auditVars>>

-----------------------------------------------------------------------------
(***************************************************************************)
(* The process                                                             *)
(***************************************************************************)
\* main opens the state first and exits if the pair of files is torn; the
\* operations and the audit log come after it.
OpenStores == /\ ~torn
              /\ Open
              /\ memory' = disk
              /\ UNCHANGED <<step, outcome, disk, torn, auditVars, bundle>>

\* The process, or the host with it, stops: between the two files of a mutation,
\* within an append, or anywhere else.
StopProcess ==
  /\ Stop
  /\ step' = [id \in Ids |-> IF step[id] \in {"mutate", "finish", "audit"}
                             THEN "cut off" ELSE step[id]]
  /\ \/ UNCHANGED torn
     \/ (\E id \in Ids : step[id] = "mutate") /\ torn' = TRUE
  /\ \/ UNCHANGED auditVars
     \/ Audit!PowerLoss
     \/ \E id \in Ids : /\ step[id] = "audit"
                        /\ Audit!Fail([id |-> id, result |-> Result(id)])
  /\ memory' = {}
  /\ bundle' = IF bundle.stage = "complete" THEN bundle ELSE NoBundle
  /\ UNCHANGED <<outcome, disk>>

Clock == /\ Tick \/ StepBack
         /\ UNCHANGED <<step, outcome, stateVars, auditVars, bundle>>

Handle(id) == \/ BeginOperation(id)
              \/ Mutate(id)
              \/ FinishOperation(id)
              \/ AuditEvent(id)

SystemNext == \/ \E id \in Ids : Handle(id)
              \/ Build
              \/ OpenStores
              \/ StopProcess
              \/ Clock

SystemSpec == SystemInit /\ [][SystemNext]_systemVars

\* A handler that has begun is run to its end, and Restart=on-failure starts the
\* process again until operations.json can be written.
Fairness == /\ \A id \in Ids : /\ WF_systemVars(Mutate(id))
                               /\ WF_systemVars(FinishOperation(id))
                               /\ WF_systemVars(AuditEvent(id))
            /\ WF_systemVars(OpenStores /\ up')

LiveSpec == SystemSpec /\ Fairness

-----------------------------------------------------------------------------
(***************************************************************************)
(* Properties.                                                             *)
(***************************************************************************)

\* Every variable has its type.
SystemTypeOK ==
  /\ TypeOK
  /\ step \in [Ids -> {"begin", "mutate", "finish", "audit", "answered", "cut off"}]
  /\ outcome \in [Ids -> {"none", "succeeded", "failed"}]
  /\ memory \subseteq Ids /\ disk \subseteq Ids /\ torn \in BOOLEAN
  /\ trail \in Seq(Event) /\ acknowledged \subseteq Event
  /\ durable \in 0..Len(trail) /\ fragment \in BOOLEAN
  /\ bundle \in [stage : {"audit", "users", "operations", "complete"},
                 audit : SUBSET Event, users : SUBSET Ids,
                 operations : [Ids -> Record \cup {None}]]

\* What the evidence says, happened: an operation that the audit log or the
\* history calls successful is in state.json, across every restart, failed write
\* and later mutation (finishOperation; ADR-0007 "failures diagnosable").
EvidenceIsTrue ==
  /\ \A i \in DOMAIN trail : trail[i].result = "success" => trail[i].id \in disk
  /\ \A id \in Recorded(file) : file[id].status = "succeeded" => id \in disk
  /\ \A id \in Recorded(records) : records[id].status = "succeeded" => id \in disk

\* ADR-0007: "Every traced application mutation ... records a persistent
\* operation".  A change in state.json, acknowledged or not, has its record in
\* operations.json, unless the bounded history is full and has dropped it: one
\* place in it may be free, that of a Start that failed.
EffectIsTraced ==
  \A id \in disk : id \in Recorded(file) \/ Cardinality(Recorded(file)) >= MaxRecords - 1

\* A bundle does not contradict itself: what its audit events call successful is
\* in its users, and is not running in its operations, whatever ran while the
\* three were read (diagnostics.Build).
BundleConsistent ==
  bundle.stage = "complete" =>
    \A event \in bundle.audit :
      /\ event.result = "success" => event.id \in bundle.users
      /\ event.id \notin Running(bundle.operations)

\* A running operation ends, by its handler or by the end of the process.
RunningEnds == \A id \in Ids : id \in Running(records) ~> id \notin Running(records)

\* An operation whose handler was cut off does not stay running on disk, unless
\* the pair of state files is torn and keeps the process from starting.
CutOffIsInterrupted ==
  \A id \in Ids :
    handler[id] = "cut off" /\ id \in Running(file) ~> torn \/ id \notin Running(file)
=============================================================================
