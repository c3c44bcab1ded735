------------------------------ MODULE AuditLog ------------------------------
(***************************************************************************)
(* internal/observability/audit.go: audit.jsonl, a line of JSON per event. *)
(*                                                                         *)
(* The file is a sequence of bytes.  Append opens it with O_APPEND, writes *)
(* one line and syncs; Recent reads the last MaxReadBytes bytes.  Both     *)
(* hold the mutex throughout.  A write that is cut short, by a full disk   *)
(* or the end of the process, leaves a fragment without a line end.        *)
(***************************************************************************)
EXTENDS Integers, Sequences, FiniteSets

CONSTANTS Events,        \* each is appended once
          Size,          \* Size[e]: the bytes of the JSON of e
          MaxReadBytes,  \* maxReadBytes, 2 MiB in the code
          MaxLine,       \* the scanner's buffer, 256 KiB: a line must be shorter
          MaxLosses      \* bound: power losses

ASSUME SizeAssumption == Size \in [Events -> Nat \ {0}]
ASSUME BoundsAssumption == MaxReadBytes \in Nat \ {0} /\ MaxLine \in Nat

VARIABLES file,      \* the bytes of audit.jsonl
          synced,    \* how many of them the last Sync made durable
          status,    \* status[e]: what the caller of Append for e was told
          offset,    \* history: where the line of e began
          losses     \* bound: power losses so far

vars == <<file, synced, status, offset, losses>>

\* The i-th byte of the JSON of e; the line end has a value of its own.
Byte(e, i) == [event |-> e, at |-> i]
LineEnd == [event |-> "line end", at |-> 0]

Line(e) == [i \in 1..Size[e] + 1 |-> IF i <= Size[e] THEN Byte(e, i) ELSE LineEnd]

\* OpenAudit creates the file, or finds it as it is.
Init == /\ file = <<>>
        /\ synced = 0
        /\ status = [e \in Events |-> "new"]
        /\ offset = [e \in Events |-> 0]
        /\ losses = 0

-----------------------------------------------------------------------------
(***************************************************************************)
(* Append                                                                  *)
(***************************************************************************)
Write(e, n) == /\ status[e] = "new"
               /\ file' = file \o SubSeq(Line(e), 1, n)
               /\ offset' = [offset EXCEPT ![e] = Len(file)]

\* Mutant: the file is not synced.
AppendUnsynced(e) == /\ Write(e, Size[e] + 1)
                     /\ status' = [status EXCEPT ![e] = "acknowledged"]
                     /\ UNCHANGED <<synced, losses>>

\* Mutant: the line end is a write of its own, and its error is not looked at.
AppendInTwoWrites(e) ==
  \E n \in {Size[e], Size[e] + 1} :
    /\ Write(e, n)
    /\ synced' = Len(file')
    /\ status' = [status EXCEPT ![e] = "acknowledged"]
    /\ UNCHANGED losses

AppendEvent(e) == /\ Write(e, Size[e] + 1)
                  /\ synced' = Len(file')
                  /\ status' = [status EXCEPT ![e] = "acknowledged"]
                  /\ UNCHANGED losses

\* OpenFile, Write or Sync returns an error, or the process ends in between:
\* some of the line is in the file, none or all of it included.
AppendFails(e) == /\ \E n \in 0..Size[e] + 1 : Write(e, n)
                  /\ status' = [status EXCEPT ![e] = "failed"]
                  /\ UNCHANGED <<synced, losses>>

\* The host goes down: what was not synced is lost from some byte on.
PowerLoss == /\ losses < MaxLosses
             /\ losses' = losses + 1
             /\ \E n \in synced..Len(file) :
                  /\ file' = SubSeq(file, 1, n)
                  /\ synced' = n
             /\ UNCHANGED <<status, offset>>

Next == \/ \E e \in Events : AppendEvent(e) \/ AppendFails(e)
        \/ PowerLoss

Spec == Init /\ [][Next]_vars

-----------------------------------------------------------------------------
(***************************************************************************)
(* Recent                                                                  *)
(***************************************************************************)
Start == IF Len(file) > MaxReadBytes THEN Len(file) - MaxReadBytes ELSE 0

\* The lines that the scanner yields from a position on, as first and last byte:
\* maximal runs without a line end.
Lines(from) ==
  {line \in (from + 1..Len(file)) \X (from + 1..Len(file)) :
     /\ line[1] <= line[2]
     /\ \A p \in line[1]..line[2] : file[p] # LineEnd
     /\ line[1] = from + 1 \/ file[line[1] - 1] = LineEnd
     /\ line[2] = Len(file) \/ file[line[2] + 1] = LineEnd}

\* What is skipped after a seek into the file: the rest of a line, or a whole
\* one if the seek happened to hit its beginning.
FirstLine == {line \in Lines(Start) : Start > 0 /\ line[1] = Start + 1}

Whole(e, p) == /\ p + Size[e] - 1 <= Len(file)
               /\ \A i \in 1..Size[e] : file[p + i - 1] = Byte(e, i)

\* json.Unmarshal accepts a line that is one event and nothing else.
Found == {f \in [at : 1..Len(file), event : Events] :
            /\ Whole(f.event, f.at)
            /\ <<f.at, f.at + Size[f.event] - 1>> \in Lines(Start) \ FirstLine}

\* bufio.ErrTooLong, and Recent returns no event.
RecentFails == \E line \in Lines(Start) : line[2] - line[1] + 1 >= MaxLine

\* The event of the window that has k - 1 events after it.
Newest(k) == (CHOOSE f \in Found :
                Cardinality({g \in Found : g.at > f.at}) = k - 1).event

Least(m, n) == IF m < n THEN m ELSE n

\* Mutant: what is over the limit is cut off at the wrong end.
RecentOldest(limit) ==
  LET n == Cardinality(Found)
  IN  [k \in 1..Least(n, limit) |-> Newest(n - Least(n, limit) + k)]

\* What Recent returns when it does not fail.
Recent(limit) == [k \in 1..Least(Cardinality(Found), limit) |-> Newest(k)]

-----------------------------------------------------------------------------
(***************************************************************************)
(* Properties.                                                             *)
(***************************************************************************)

\* Every variable has its type.
TypeOK == /\ file \in Seq([event : Events \cup {LineEnd.event}, at : Nat])
          /\ synced \in 0..Len(file)
          /\ status \in [Events -> {"new", "acknowledged", "failed"}]
          /\ offset \in [Events -> Nat]
          /\ losses \in Nat

\* An event whose Append returned nil is in the file from its first byte to its
\* line end, and no later append, failed append or power loss takes any of it.
AckedIntact ==
  \A e \in Events : status[e] = "acknowledged" =>
    /\ offset[e] + Size[e] + 1 <= synced
    /\ Whole(e, offset[e] + 1)
    /\ file[offset[e] + Size[e] + 1] = LineEnd

OwnLine(e) == offset[e] = 0 \/ file[offset[e]] = LineEnd

\* An acknowledged event that cannot be read as a line of its own stands right
\* behind the rest of one whose Append failed: a cut costs the next event and
\* no other one.
LostOnlyAfterCut ==
  \A e \in Events : status[e] = "acknowledged" =>
    \/ OwnLine(e)
    \/ \E f \in Events : /\ status[f] = "failed"
                         /\ file[offset[e]] \in {Byte(f, i) : i \in 1..Size[f]}

\* The acknowledged events that Recent is expected to see: those with a line of
\* their own behind the beginning of the window.
InWindow == {e \in Events : /\ status[e] = "acknowledged"
                            /\ OwnLine(e)
                            /\ Start = 0 \/ offset[e] > Start}

\* Recent(limit) is a list of different events, newest first, and an
\* acknowledged event of the window is missing only when limit newer ones are
\* there ("GET /api/v1/audit", bundle.go Audit).
NewestFirst(limit) ==
  LET recent == Recent(limit)
  IN  /\ Len(recent) <= limit
      /\ \A j, k \in DOMAIN recent : j < k => offset[recent[j]] > offset[recent[k]]
      /\ \A e \in InWindow :
           \/ \E k \in DOMAIN recent : recent[k] = e
           \/ /\ Len(recent) = limit
              /\ \A k \in DOMAIN recent : offset[recent[k]] > offset[e]

\* So it is for every limit, from one to more than there are events: whatever
\* failed before, the reader loses no acknowledged event of the window.
RecentIsNewest ==
  ~RecentFails => \A limit \in 1..Cardinality(Found) + 1 : NewestFirst(limit)

\* Recent fails over a line for one of two causes: a failed append left its bytes in
\* it, or one event alone fills the scanner's buffer.  Events that are short enough and
\* acknowledged never make up such a line, however many they are.
RecentFailsForCause ==
  RecentFails =>
    \E line \in Lines(Start) :
      /\ line[2] - line[1] + 1 >= MaxLine
      /\ \E p \in line[1]..line[2], e \in Events :
           file[p].event = e /\ (status[e] = "failed" \/ Size[e] >= MaxLine)

\* The events with a line of their own and a line end behind it, by their place.
Readable == {e \in Events : /\ Len(file) >= offset[e] + Size[e] + 1
                            /\ Whole(e, offset[e] + 1)
                            /\ file[offset[e] + Size[e] + 1] = LineEnd
                            /\ OwnLine(e)}

Trail(events) == [k \in 1..Cardinality(events) |->
                    CHOOSE e \in events :
                      Cardinality({f \in events : offset[f] < offset[e]}) = k - 1]

\* The log keeps the promise of AuditTrail, whatever fails and wherever a write
\* is cut short.
Promise == INSTANCE AuditTrail WITH
  trail <- Trail(Readable),
  acknowledged <- {e \in Events : status[e] = "acknowledged"},
  durable <- Cardinality({e \in Readable : offset[e] + Size[e] + 1 <= synced}),
  fragment <- file # <<>> /\ file[Len(file)] # LineEnd

ImplementsAuditTrail == Promise!Spec
=============================================================================
