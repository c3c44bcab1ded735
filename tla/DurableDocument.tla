-------------------------- MODULE DurableDocument --------------------------
(***************************************************************************)
(* What the state store of Control Center promises, without files or       *)
(* write order: one document, kept as account metadata and credentials     *)
(* that carry the same revision, is opened as a whole by any number of     *)
(* processes, changed one account at a time in a process's memory, and     *)
(* committed under an ever higher revision.  A commit may be cut in two;   *)
(* the pair is then Torn, and no process opens it until a process that     *)
(* still holds a live document commits again.                              *)
(***************************************************************************)
EXTENDS Naturals

CONSTANTS Processes, Users, Accounts, Credentials,
          None,     \* no account, or no credential, under this name
          Torn,     \* metadata and credentials of different revisions
          Closed    \* the process has no document

VARIABLES metadata,     \* the last committed metadata: [rev, users]
          credentials,  \* the credentials that go with it, or Torn
          live          \* the document each process has in memory, or Closed

vars == <<metadata, credentials, live>>

Named(m) == {u \in Users : m[u] # None}

Document(m, c) == [rev |-> m.rev, users |-> m.users, passwords |-> c]

Init == /\ metadata = [rev |-> 1, users |-> [u \in Users |-> None]]
        /\ credentials = [u \in Users |-> None]
        /\ live = [p \in Processes |-> Closed]

\* A process gets the committed pair, and only when the pair is whole.
Open(p) == /\ live[p] = Closed
           /\ credentials # Torn
           /\ live' = [live EXCEPT ![p] = Document(metadata, credentials)]
           /\ UNCHANGED <<metadata, credentials>>

\* One account, its record and its credential, changes in memory.
Change(p) ==
  /\ live[p] # Closed
  /\ \E u \in Users, a \in Accounts, c \in Credentials :
       live' = [live EXCEPT ![p] = [rev |-> @.rev + 1,
                                    users |-> [@.users EXCEPT ![u] = a],
                                    passwords |-> [@.passwords EXCEPT ![u] = c]]]
  /\ UNCHANGED <<metadata, credentials>>

\* The first half of a commit: what is stored is not a document any more.
Tear(p) == /\ live[p] # Closed
           /\ live[p].rev > metadata.rev
           /\ credentials' = Torn
           /\ UNCHANGED <<metadata, live>>

\* A commit raises the revision and loses no account that was committed.
Commit(p) == /\ live[p] # Closed
             /\ live[p].rev > metadata.rev
             /\ Named(metadata.users) \subseteq Named(live[p].users)
             /\ metadata' = [rev |-> live[p].rev, users |-> live[p].users]
             /\ credentials' = live[p].passwords
             /\ UNCHANGED live

Close(p) == /\ live[p] # Closed
            /\ live' = [live EXCEPT ![p] = Closed]
            /\ UNCHANGED <<metadata, credentials>>

Next == \E p \in Processes :
          Open(p) \/ Change(p) \/ Tear(p) \/ Commit(p) \/ Close(p)

Spec == Init /\ [][Next]_vars
=============================================================================
