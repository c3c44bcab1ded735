--------------------------- MODULE AuditLogProofs ---------------------------
(***************************************************************************)
(* Proofs about AuditLog for every set of events, every length of their    *)
(* lines and any number of failed appends and power losses.                *)
(***************************************************************************)
EXTENDS AuditLog, FiniteSetTheorems, TLAPS

Cells == [event : Events \cup {LineEnd.event}, at : Nat]

\* The n-th byte of the file, if it is not a line end, was put there for one
\* event that is not new, at its place in the line.
CellsPlaced ==
  \A p \in 1..Len(file) :
    \/ file[p] = LineEnd
    \/ \E e \in Events : \E i \in 1..Size[e] :
         /\ file[p] = Byte(e, i)
         /\ status[e] # "new"
         /\ p = offset[e] + i

\* The inductive invariant.
Inv == TypeOK /\ AckedIntact /\ CellsPlaced

\* A line has the length of its event and one more, and is made of cells.
LEMMA LineType ==
  ASSUME NEW e \in Events
  PROVE  /\ Size[e] \in Nat \ {0}
         /\ Line(e) \in Seq(Cells)
         /\ Len(Line(e)) = Size[e] + 1
<1>1. Size[e] \in Nat \ {0}
  BY SizeAssumption
<1>2. LineEnd \in Cells /\ \A i \in Nat : Byte(e, i) \in Cells
  <2>1. LineEnd \in Cells
    BY DEF Cells, LineEnd
  <2>2. ASSUME NEW i \in Nat PROVE Byte(e, i) \in Cells
    BY DEF Cells, Byte
  <2> QED
    BY <2>1, <2>2
<1>3. Line(e) \in [1..Size[e] + 1 -> Cells]
  BY <1>1, <1>2 DEF Line
<1> QED
  BY <1>1, <1>3 DEF Line

\* What a write of n bytes makes of the file.
LEMMA WriteFacts ==
  ASSUME TypeOK, NEW e \in Events, NEW n \in 0..Size[e] + 1, Write(e, n)
  PROVE  /\ file' \in Seq(Cells)
         /\ Len(file') = Len(file) + n
         /\ \A p \in 1..Len(file) : file'[p] = file[p]
         /\ \A i \in 1..n : file'[Len(file) + i] =
              IF i <= Size[e] THEN Byte(e, i) ELSE LineEnd
<1> DEFINE written == SubSeq(Line(e), 1, n)
<1>1. /\ Size[e] \in Nat \ {0}
      /\ Line(e) \in Seq(Cells)
      /\ Len(Line(e)) = Size[e] + 1
  BY LineType
<1>2. file \in Seq(Cells)
  BY DEF TypeOK, Cells
<1>3. /\ written \in Seq(Cells)
      /\ Len(written) = n
      /\ \A i \in 1..n : written[i] = Line(e)[i]
  BY <1>1
<1>4. \A i \in 1..n : Line(e)[i] = IF i <= Size[e] THEN Byte(e, i) ELSE LineEnd
  BY <1>1 DEF Line
<1>5. file' = file \o written
  BY DEF Write
<1> HIDE DEF written
<1>6. Len(file) \in Nat /\ n \in Nat
  BY <1>1, <1>2
<1>7. /\ file' \in Seq(Cells)
      /\ Len(file') = Len(file) + n
      /\ \A p \in 1..Len(file) : file'[p] = file[p]
  <2>1. file \o written \in Seq(Cells)
    BY <1>2, <1>3
  <2>2. Len(file \o written) = Len(file) + Len(written)
    BY <1>2, <1>3
  <2>3. ASSUME NEW p \in 1..Len(file) PROVE (file \o written)[p] = file[p]
    BY <1>2, <1>3, <1>6
  <2> QED
    BY <1>3, <1>5, <2>1, <2>2, <2>3
<1>8. \A i \in 1..n : file'[Len(file) + i] = written[i]
  BY <1>2, <1>3, <1>5
<1> QED
  BY <1>3, <1>4, <1>7, <1>8

\* A write leaves alone what a line that lies in the file says.
LEMMA WriteKeepsLine ==
  ASSUME TypeOK, NEW e \in Events, NEW n \in 0..Size[e] + 1, Write(e, n),
         NEW f \in Events, status[f] = "acknowledged",
         offset[f] + Size[f] + 1 <= synced,
         Whole(f, offset[f] + 1),
         file[offset[f] + Size[f] + 1] = LineEnd
  PROVE  /\ offset'[f] = offset[f]
         /\ offset[f] + Size[f] + 1 <= Len(file)
         /\ Whole(f, offset[f] + 1)'
         /\ file'[offset[f] + Size[f] + 1] = LineEnd
<1>1. /\ offset[f] \in Nat /\ Size[f] \in Nat \ {0}
      /\ synced \in Nat /\ synced <= Len(file) /\ Len(file) \in Nat
  BY LineType DEF TypeOK
<1>2. offset' = [offset EXCEPT ![e] = Len(file)] /\ f # e
  BY DEF Write
<1>3. /\ Len(file') = Len(file) + n
      /\ \A p \in 1..Len(file) : file'[p] = file[p]
  BY WriteFacts
<1>4. \A i \in 1..Size[f] : offset[f] + 1 + i - 1 \in 1..Len(file)
  BY <1>1
<1>5. Whole(f, offset[f] + 1)'
  <2>1. \A i \in 1..Size[f] : file'[offset[f] + 1 + i - 1] = Byte(f, i)
    BY <1>3, <1>4 DEF Whole
  <2>2. offset[f] + 1 + Size[f] - 1 <= Len(file')
    BY <1>1, <1>3
  <2>3. offset'[f] = offset[f]
    BY <1>1, <1>2 DEF TypeOK
  <2> QED
    BY <2>1, <2>2, <2>3 DEF Whole
<1>6. offset'[f] = offset[f]
  BY <1>2 DEF TypeOK
<1>7. offset[f] + Size[f] + 1 \in 1..Len(file)
  BY <1>1
<1>8. file'[offset[f] + Size[f] + 1] = LineEnd
  BY <1>3, <1>7
<1>9. offset[f] + Size[f] + 1 <= Len(file)
  BY <1>1
<1> QED
  BY <1>5, <1>6, <1>8, <1>9

\* Where the invariant holds, a write keeps every byte at its place.
LEMMA WritePlaces ==
  ASSUME TypeOK, CellsPlaced, NEW e \in Events, NEW n \in 0..Size[e] + 1,
         Write(e, n),
         \A f \in Events : f # e => status'[f] = status[f],
         status'[e] # "new"
  PROVE  CellsPlaced'
<1>1. /\ status[e] = "new"
      /\ offset' = [offset EXCEPT ![e] = Len(file)]
      /\ offset \in [Events -> Nat]
      /\ Len(file) \in Nat /\ Size[e] \in Nat
  BY LineType DEF Write, TypeOK
<1>2. /\ Len(file') = Len(file) + n
      /\ \A p \in 1..Len(file) : file'[p] = file[p]
      /\ \A i \in 1..n : file'[Len(file) + i] =
           IF i <= Size[e] THEN Byte(e, i) ELSE LineEnd
  BY WriteFacts
<1> SUFFICES ASSUME NEW p \in 1..Len(file'), file'[p] # LineEnd
             PROVE  \E f \in Events : \E i \in 1..Size[f] :
                      /\ file'[p] = Byte(f, i)
                      /\ status'[f] # "new"
                      /\ p = offset'[f] + i
  BY DEF CellsPlaced, Byte, LineEnd
<1>3. CASE p \in 1..Len(file)
  <2>1. PICK f \in Events : \E i \in 1..Size[f] :
          file[p] = Byte(f, i) /\ status[f] # "new" /\ p = offset[f] + i
    BY <1>2, <1>3 DEF CellsPlaced
  <2>2. f # e /\ offset'[f] = offset[f] /\ status'[f] = status[f]
    BY <1>1, <2>1
  <2> QED
    BY <1>2, <1>3, <2>1, <2>2
<1>4. CASE p \notin 1..Len(file)
  <2> DEFINE i == p - Len(file)
  <2>1. i \in 1..n /\ p = Len(file) + i
    BY <1>1, <1>2, <1>4
  <2>2. i <= Size[e] /\ file'[p] = Byte(e, i)
    BY <1>2, <2>1
  <2>3. i \in 1..Size[e] /\ offset'[e] = Len(file)
    BY <1>1, <2>1, <2>2
  <2> QED
    BY <2>1, <2>2, <2>3
<1> QED
  BY <1>3, <1>4

\* The whole line is written and synced.
LEMMA AppendKeeps ==
  ASSUME Inv, NEW e \in Events, AppendEvent(e)
  PROVE  Inv'
<1> DEFINE n == Size[e] + 1
<1>1. /\ Size[e] \in Nat \ {0} /\ n \in 0..Size[e] + 1 /\ Len(file) \in Nat
      /\ offset' = [offset EXCEPT ![e] = Len(file)]
      /\ status' = [status EXCEPT ![e] = "acknowledged"]
      /\ synced' = Len(file') /\ losses' = losses
  BY LineType DEF AppendEvent, Write, Inv, TypeOK
<1>2. Write(e, n) /\ TypeOK /\ AckedIntact /\ CellsPlaced
  BY DEF AppendEvent, Inv
<1>3. /\ file' \in Seq(Cells)
      /\ Len(file') = Len(file) + n
      /\ \A i \in 1..n : file'[Len(file) + i] =
           IF i <= Size[e] THEN Byte(e, i) ELSE LineEnd
  BY <1>1, <1>2, WriteFacts
<1>4. TypeOK'
  BY <1>1, <1>2, <1>3 DEF TypeOK, Cells
<1>5. ASSUME NEW f \in Events, status'[f] = "acknowledged"
      PROVE  /\ offset'[f] + Size[f] + 1 <= synced'
             /\ Whole(f, offset[f] + 1)'
             /\ file'[offset'[f] + Size[f] + 1] = LineEnd
  <2>1. CASE f = e
    <3>1. offset'[e] = Len(file)
      BY <1>1, <1>2 DEF TypeOK
    <3>2. \A i \in 1..Size[e] : file'[offset'[e] + 1 + i - 1] = Byte(e, i)
      <4> TAKE i \in 1..Size[e]
      <4>1. Len(file) + 1 + i - 1 = Len(file) + i /\ i \in 1..n /\ i <= Size[e]
        BY <1>1
      <4> QED
        BY <1>3, <3>1, <4>1
    <3>3. offset'[e] + 1 + Size[e] - 1 <= Len(file')
      <4>1. Len(file) + 1 + Size[e] - 1 <= Len(file) + n
        BY <1>1
      <4> QED
        BY <1>3, <3>1, <4>1
    <3>a. Whole(e, offset[e] + 1)'
      BY <3>2, <3>3 DEF Whole
    <3>4. file'[Len(file) + n] = LineEnd
      BY <1>1, <1>3
    <3>5. Len(file) + n = offset'[e] + Size[e] + 1
      BY <1>1, <3>1
    <3>6. offset'[e] + Size[e] + 1 <= synced'
      BY <1>1, <1>3, <3>5
    <3> QED
      BY <2>1, <3>4, <3>5, <3>6, <3>a
  <2>2. CASE f # e
    <3>1. status[f] = "acknowledged"
      BY <1>1, <1>2, <1>5, <2>2 DEF TypeOK
    <3>2. /\ offset'[f] = offset[f]
          /\ offset[f] + Size[f] + 1 <= Len(file)
          /\ Whole(f, offset[f] + 1)'
          /\ file'[offset[f] + Size[f] + 1] = LineEnd
      BY <1>1, <1>2, <3>1, WriteKeepsLine DEF AckedIntact
    <3>3. offset[f] + Size[f] + 1 \in Nat
      BY <1>2, LineType DEF TypeOK
    <3> QED
      BY <1>1, <1>3, <3>2, <3>3
  <2> QED
    BY <2>1, <2>2
<1>6. AckedIntact'
  BY <1>5 DEF AckedIntact
<1>7. CellsPlaced'
  BY <1>1, <1>2, WritePlaces DEF TypeOK
<1> QED
  BY <1>4, <1>6, <1>7 DEF Inv

\* Some bytes are written, and the caller is told of the failure.
LEMMA FailureKeeps ==
  ASSUME Inv, NEW e \in Events, AppendFails(e)
  PROVE  Inv'
<1>1. PICK n \in 0..Size[e] + 1 : Write(e, n)
  BY DEF AppendFails
<1>2. /\ Size[e] \in Nat \ {0} /\ Len(file) \in Nat
      /\ offset' = [offset EXCEPT ![e] = Len(file)]
      /\ status' = [status EXCEPT ![e] = "failed"]
      /\ synced' = synced /\ losses' = losses
      /\ TypeOK /\ AckedIntact /\ CellsPlaced
  BY <1>1, LineType DEF AppendFails, Write, Inv, TypeOK
<1>3. /\ file' \in Seq(Cells)
      /\ Len(file') = Len(file) + n
  BY <1>1, <1>2, WriteFacts
<1>4. TypeOK'
  BY <1>2, <1>3 DEF TypeOK, Cells
<1>5. ASSUME NEW f \in Events, status'[f] = "acknowledged"
      PROVE  /\ offset'[f] + Size[f] + 1 <= synced'
             /\ Whole(f, offset[f] + 1)'
             /\ file'[offset'[f] + Size[f] + 1] = LineEnd
  <2>1. status[f] = "acknowledged"
    BY <1>2, <1>5 DEF TypeOK
  <2>2. /\ offset'[f] = offset[f]
        /\ Whole(f, offset[f] + 1)'
        /\ file'[offset[f] + Size[f] + 1] = LineEnd
    BY <1>1, <1>2, <2>1, WriteKeepsLine DEF AckedIntact
  <2> QED
    BY <1>2, <2>1, <2>2 DEF AckedIntact
<1>6. AckedIntact'
  BY <1>5 DEF AckedIntact
<1>7. CellsPlaced'
  BY <1>1, <1>2, WritePlaces DEF TypeOK
<1> QED
  BY <1>4, <1>6, <1>7 DEF Inv

\* The places of a line that ends within the first n bytes.
LEMMA PlacesWithin ==
  ASSUME NEW o \in Nat, NEW size \in Nat \ {0}, NEW n \in Nat, o + size + 1 <= n
  PROVE  /\ o + size + 1 \in 1..n
         /\ o + 1 + size - 1 <= n
         /\ \A i \in 1..size : o + 1 + i - 1 \in 1..n
OBVIOUS

\* What is lost lies behind the last byte that was synced.
LEMMA PowerLossKeeps ==
  ASSUME Inv, PowerLoss
  PROVE  Inv'
<1>1. PICK n \in synced..Len(file) : file' = SubSeq(file, 1, n) /\ synced' = n
  BY DEF PowerLoss
<1>2. /\ file \in Seq(Cells) /\ synced \in Nat /\ Len(file) \in Nat
      /\ n \in Nat /\ synced <= n /\ n <= Len(file)
      /\ status' = status /\ offset' = offset /\ losses' = losses + 1
  BY DEF PowerLoss, Inv, TypeOK, Cells
<1>3. /\ file' \in Seq(Cells)
      /\ Len(file') = n
      /\ \A p \in 1..n : file'[p] = file[p]
  BY <1>1, <1>2
<1>4. TypeOK'
  BY <1>1, <1>2, <1>3 DEF Inv, TypeOK, Cells
<1>5. ASSUME NEW f \in Events, status[f] = "acknowledged"
      PROVE  /\ offset[f] + Size[f] + 1 <= n
             /\ Whole(f, offset[f] + 1)'
             /\ file'[offset[f] + Size[f] + 1] = LineEnd
  <2>1. /\ offset[f] \in Nat /\ Size[f] \in Nat \ {0}
        /\ offset[f] + Size[f] + 1 <= synced
        /\ Whole(f, offset[f] + 1)
        /\ file[offset[f] + Size[f] + 1] = LineEnd
    BY <1>5, LineType DEF Inv, TypeOK, AckedIntact
  <2>2. /\ offset[f] + Size[f] + 1 \in 1..n
        /\ offset[f] + 1 + Size[f] - 1 <= n
        /\ \A i \in 1..Size[f] : offset[f] + 1 + i - 1 \in 1..n
    <3>1. offset[f] + Size[f] + 1 <= n
      BY <1>2, <2>1
    <3> QED
      BY <1>2, <2>1, <3>1, PlacesWithin
  <2>3. Whole(f, offset[f] + 1)'
    <3>1. \A i \in 1..Size[f] : file'[offset[f] + 1 + i - 1] = Byte(f, i)
      BY <1>3, <2>1, <2>2 DEF Whole
    <3>2. offset[f] + 1 + Size[f] - 1 <= Len(file')
      BY <1>3, <2>2
    <3>3. offset'[f] = offset[f]
      BY <1>2
    <3> QED
      BY <3>1, <3>2, <3>3, SMTT(30) DEF Whole
  <2> QED
    BY <1>2, <1>3, <2>1, <2>2, <2>3
<1>6. AckedIntact'
  BY <1>1, <1>2, <1>5 DEF AckedIntact
<1>7. CellsPlaced'
  BY <1>2, <1>3 DEF Inv, CellsPlaced
<1> QED
  BY <1>4, <1>6, <1>7 DEF Inv

\* The invariant holds at first and is kept by every step.
LEMMA InvInit ==
  ASSUME Init
  PROVE  Inv
BY DEF Init, Inv, TypeOK, AckedIntact, CellsPlaced

LEMMA InvNext ==
  ASSUME Inv, [Next]_vars
  PROVE  Inv'
<1>1. CASE UNCHANGED vars
  BY <1>1 DEF vars, Inv, TypeOK, AckedIntact, CellsPlaced, Whole
<1> QED
  BY <1>1, AppendKeeps, FailureKeeps, PowerLossKeeps DEF Next

\* Where the invariant holds, the byte in front of an acknowledged event is a
\* line end or of an event whose append failed: had that succeeded, its next
\* byte would follow, and none of a line is the first one of another.
LEMMA CutByFailure ==
  ASSUME Inv
  PROVE  LostOnlyAfterCut
<1> SUFFICES ASSUME NEW e \in Events, status[e] = "acknowledged", ~OwnLine(e)
             PROVE  \E f \in Events :
                      /\ status[f] = "failed"
                      /\ file[offset[e]] \in {Byte(f, i) : i \in 1..Size[f]}
  BY DEF LostOnlyAfterCut
<1> DEFINE p == offset[e]
<1>1. /\ p \in 1..Len(file) /\ file[p] # LineEnd
      /\ Size[e] \in Nat \ {0}
      /\ Whole(e, p + 1)
  <2>1. /\ Size[e] \in Nat \ {0} /\ p \in Nat /\ Len(file) \in Nat
        /\ synced \in Nat /\ synced <= Len(file)
    BY LineType DEF Inv, TypeOK
  <2>2. p + Size[e] + 1 <= synced /\ Whole(e, p + 1)
    BY DEF Inv, AckedIntact
  <2>3. p # 0 /\ file[p] # LineEnd
    BY DEF OwnLine
  <2> QED
    BY <2>1, <2>2, <2>3
<1>2. file[p + 1] = Byte(e, 1)
  BY <1>1 DEF Whole
<1>3. PICK f \in Events : \E i \in 1..Size[f] :
        file[p] = Byte(f, i) /\ status[f] # "new" /\ p = offset[f] + i
  BY <1>1 DEF Inv, CellsPlaced
<1>4. PICK i \in 1..Size[f] :
        file[p] = Byte(f, i) /\ status[f] # "new" /\ p = offset[f] + i
  BY <1>3
<1>5. status[f] # "acknowledged"
  <2> SUFFICES ASSUME status[f] = "acknowledged" PROVE FALSE
    OBVIOUS
  <2>1. /\ Size[f] \in Nat /\ offset[f] \in Nat
        /\ Whole(f, offset[f] + 1)
        /\ file[offset[f] + Size[f] + 1] = LineEnd
    BY LineType DEF Inv, TypeOK, AckedIntact
  <2>2. CASE i = Size[f]
    <3>1. offset[f] + Size[f] + 1 = p + 1
      BY <1>4, <2>1, <2>2
    <3>2. LineEnd.at = Byte(e, 1).at
      BY <1>2, <2>1, <3>1
    <3> QED
      BY <3>2 DEF Byte, LineEnd
  <2>3. CASE i # Size[f]
    <3>1. i + 1 \in 1..Size[f] /\ offset[f] + 1 + (i + 1) - 1 = p + 1
      BY <1>4, <2>1, <2>3
    <3>2. file[p + 1] = Byte(f, i + 1)
      BY <2>1, <3>1 DEF Whole
    <3>3. Byte(f, i + 1).at = Byte(e, 1).at
      BY <1>2, <3>2
    <3> QED
      BY <3>3 DEF Byte
  <2> QED
    BY <2>2, <2>3
<1>6. status[f] = "failed"
  BY <1>4, <1>5 DEF Inv, TypeOK
<1> QED
  BY <1>4, <1>6

\* Every variable of the audit log has its type.
THEOREM AuditTypeCorrect == Spec => []TypeOK
<1>1. Inv => TypeOK
  BY DEF Inv
<1> QED
  BY <1>1, InvInit, InvNext, PTL DEF Spec

\* What Append has acknowledged is never damaged, whatever later appends, failed
\* writes and power losses do.
THEOREM AcknowledgedIntact == Spec => []AckedIntact
<1>1. Inv => AckedIntact
  BY DEF Inv
<1> QED
  BY <1>1, InvInit, InvNext, PTL DEF Spec

\* An acknowledged event without a line of its own stands behind the rest of a
\* failed one.
THEOREM LossIsLocal == Spec => []LostOnlyAfterCut
<1> QED
  BY CutByFailure, InvInit, InvNext, PTL DEF Spec

-----------------------------------------------------------------------------
(***************************************************************************)
(* Elements by their rank: facts about any finite set whose elements have  *)
(* different integer keys.  Recent takes the events by the place of their  *)
(* line from the end, Trail takes them from the beginning.                 *)
(***************************************************************************)
Below(S, key, x) == {y \in S : key[y] < key[x]}

Rank(S, key, x) == Cardinality(Below(S, key, x))

DifferentKeys(S, key) == \A x, y \in S : key[x] = key[y] => x = y

\* A rank is less than the number of elements, and grows with the key.
LEMMA RankGrows ==
  ASSUME NEW S, IsFiniteSet(S), NEW key, \A x \in S : key[x] \in Int
  PROVE  /\ \A x \in S : Rank(S, key, x) \in 0..Cardinality(S) - 1
         /\ \A x, y \in S : key[x] < key[y] => Rank(S, key, x) < Rank(S, key, y)
<1>1. ASSUME NEW x \in S
      PROVE  /\ IsFiniteSet(Below(S, key, x))
             /\ Rank(S, key, x) \in Nat
             /\ Rank(S, key, x) < Cardinality(S)
  <2>1. Below(S, key, x) \in SUBSET S /\ x \notin Below(S, key, x)
    BY DEF Below
  <2>2. /\ IsFiniteSet(Below(S, key, x))
        /\ Rank(S, key, x) <= Cardinality(S)
        /\ Cardinality(S) = Rank(S, key, x) => S = Below(S, key, x)
    BY <2>1, FS_Subset DEF Rank
  <2>3. Rank(S, key, x) \in Nat /\ Cardinality(S) \in Nat
    BY <2>2, FS_CardinalityType DEF Rank
  <2> QED
    BY <2>1, <2>2, <2>3
<1>2. ASSUME NEW x \in S, NEW y \in S, key[x] < key[y]
      PROVE  Rank(S, key, x) < Rank(S, key, y)
  <2>1. Below(S, key, x) \in SUBSET Below(S, key, y)
    <3> SUFFICES ASSUME NEW z \in S, key[z] < key[x] PROVE key[z] < key[y]
      BY DEF Below
    <3>1. key[x] \in Int /\ key[y] \in Int /\ key[z] \in Int
      OBVIOUS
    <3> QED
      BY <1>2, <3>1
  <2>2. x \in Below(S, key, y) /\ x \notin Below(S, key, x)
    BY <1>2 DEF Below
  <2>3. /\ IsFiniteSet(Below(S, key, y))
        /\ Rank(S, key, x) \in Nat /\ Rank(S, key, y) \in Nat
    BY <1>1
  <2>4. /\ Rank(S, key, x) <= Rank(S, key, y)
        /\ Rank(S, key, y) = Rank(S, key, x) => Below(S, key, y) = Below(S, key, x)
    BY <2>1, <2>3, FS_Subset DEF Rank
  <2> QED
    BY <2>2, <2>3, <2>4
<1>3. ASSUME NEW x \in S PROVE Rank(S, key, x) \in 0..Cardinality(S) - 1
  <2>1. Cardinality(S) \in Nat
    BY FS_CardinalityType
  <2> QED
    BY <1>1, <2>1
<1> QED
  BY <1>2, <1>3

\* Every number less than that of the elements is the rank of one of them, by
\* counting: the rank maps the set into as many numbers without hitting one twice.
LEMMA RankIsBijective ==
  ASSUME NEW S, IsFiniteSet(S), NEW key, \A x \in S : key[x] \in Int, DifferentKeys(S, key)
  PROVE  /\ \A x, y \in S : Rank(S, key, x) = Rank(S, key, y) => x = y
         /\ \A n \in 0..Cardinality(S) - 1 : \E x \in S : Rank(S, key, x) = n
<1> DEFINE T == 0..Cardinality(S) - 1
           rank == [x \in S |-> Rank(S, key, x)]
<1>1. /\ \A x \in S : Rank(S, key, x) \in T
      /\ \A x, y \in S : key[x] < key[y] => Rank(S, key, x) < Rank(S, key, y)
  BY RankGrows
<1>2. ASSUME NEW x \in S, NEW y \in S, Rank(S, key, x) = Rank(S, key, y)
      PROVE  x = y
  <2>1. key[x] \in Int /\ key[y] \in Int
    OBVIOUS
  <2>2. Rank(S, key, x) \in Int /\ Rank(S, key, y) \in Int
    BY <1>1
  <2>3. ~(key[x] < key[y]) /\ ~(key[y] < key[x])
    BY <1>1, <1>2, <2>2
  <2>4. key[x] = key[y]
    BY <2>1, <2>3
  <2> QED
    BY <2>4 DEF DifferentKeys
<1>3. IsFiniteSet(T) /\ Cardinality(T) = Cardinality(S)
  <2>1. Cardinality(S) \in Nat
    BY FS_CardinalityType
  <2>2. /\ IsFiniteSet(T)
        /\ Cardinality(T) = IF 0 > Cardinality(S) - 1 THEN 0 ELSE Cardinality(S) - 1 - 0 + 1
    BY <2>1, FS_Interval, SMTT(20)
  <2> QED
    BY <2>1, <2>2
<1> HIDE DEF T
<1>4. rank \in Injection(S, T)
  BY <1>1, <1>2 DEF Injection, IsInjective
<1>5. rank \in Surjection(S, T)
  BY <1>3, <1>4, FS_Injection
<1>6. \A n \in T : \E x \in S : Rank(S, key, x) = n
  BY <1>5 DEF Surjection
<1> QED
  BY <1>2, <1>6 DEF T

\* The elements by their rank.
ByKey(S, key) == [k \in 1..Cardinality(S) |-> CHOOSE x \in S : Rank(S, key, x) = k - 1]

\* They are a sequence of as many elements, each at its rank.
LEMMA ByKeyFacts ==
  ASSUME NEW S, IsFiniteSet(S), NEW key, \A x \in S : key[x] \in Int, DifferentKeys(S, key)
  PROVE  /\ Cardinality(S) \in Nat
         /\ ByKey(S, key) \in [1..Cardinality(S) -> S]
         /\ ByKey(S, key) \in Seq(S) /\ Len(ByKey(S, key)) = Cardinality(S)
         /\ \A k \in 1..Cardinality(S) : Rank(S, key, ByKey(S, key)[k]) = k - 1
<1> DEFINE n == Cardinality(S)
           q == ByKey(S, key)
<1>1. n \in Nat
  BY FS_CardinalityType
<1>2. ASSUME NEW k \in 1..n PROVE q[k] \in S /\ Rank(S, key, q[k]) = k - 1
  <2>1. k - 1 \in 0..n - 1
    BY <1>1
  <2>2. \E x \in S : Rank(S, key, x) = k - 1
    BY <2>1, RankIsBijective
  <2>3. q[k] = CHOOSE x \in S : Rank(S, key, x) = k - 1
    BY DEF ByKey
  <2> HIDE DEF q
  <2> QED
    BY <2>2, <2>3
<1>3. q \in [1..n -> S]
  <2>1. q = [k \in 1..n |-> q[k]]
    BY DEF ByKey
  <2> HIDE DEF q, n
  <2> QED
    BY <1>2, <2>1
<1> HIDE DEF q, n
<1>4. q \in Seq(S) /\ Len(q) = n
  BY <1>1, <1>3
<1> QED
  BY <1>1, <1>2, <1>3, <1>4 DEF q, n

\* There is only one such sequence.
LEMMA ByKeyUnique ==
  ASSUME NEW S, IsFiniteSet(S), NEW key, \A x \in S : key[x] \in Int, DifferentKeys(S, key),
         NEW s \in [1..Cardinality(S) -> S],
         \A k \in 1..Cardinality(S) : Rank(S, key, s[k]) = k - 1
  PROVE  s = ByKey(S, key)
<1> DEFINE n == Cardinality(S)
           q == ByKey(S, key)
<1>1. q \in [1..n -> S] /\ \A k \in 1..n : Rank(S, key, q[k]) = k - 1
  BY ByKeyFacts
<1> HIDE DEF q, n
<1>2. ASSUME NEW k \in 1..n PROVE s[k] = q[k]
  <2>1. s[k] \in S /\ q[k] \in S
    BY <1>1 DEF n
  <2>2. Rank(S, key, s[k]) = Rank(S, key, q[k])
    BY <1>1 DEF n
  <2> QED
    BY <2>1, <2>2, RankIsBijective
<1>3. s \in [1..n -> S]
  BY DEF n
<1>4. s = [k \in 1..n |-> s[k]] /\ q = [k \in 1..n |-> q[k]]
  BY <1>1, <1>3
<1>5. [k \in 1..n |-> s[k]] = [k \in 1..n |-> q[k]]
  BY <1>2, Zenon
<1>6. s = q
  BY <1>4, <1>5, Zenon
<1> QED
  BY <1>6 DEF q

\* Only the keys of the elements matter.
LEMMA ByKeySame ==
  ASSUME NEW S, IsFiniteSet(S), NEW key, \A x \in S : key[x] \in Int, DifferentKeys(S, key),
         NEW other, \A x \in S : other[x] = key[x]
  PROVE  ByKey(S, other) = ByKey(S, key)
<1>1. \A x \in S : Rank(S, other, x) = Rank(S, key, x)
  <2> TAKE x \in S
  <2>1. Below(S, other, x) = Below(S, key, x)
    BY DEF Below
  <2> QED
    BY <2>1 DEF Rank
<1>2. \A x \in S : other[x] \in Int
  OBVIOUS
<1>3. DifferentKeys(S, other)
  BY DEF DifferentKeys
<1>4. /\ ByKey(S, other) \in [1..Cardinality(S) -> S]
      /\ \A k \in 1..Cardinality(S) : Rank(S, other, ByKey(S, other)[k]) = k - 1
  BY <1>2, <1>3, ByKeyFacts
<1>5. \A k \in 1..Cardinality(S) : Rank(S, key, ByKey(S, other)[k]) = k - 1
  BY <1>1, <1>4
<1> QED
  BY <1>4, <1>5, ByKeyUnique

\* An element with the highest key comes last.
LEMMA ByKeyAppend ==
  ASSUME NEW S, IsFiniteSet(S), NEW key, \A x \in S : key[x] \in Int, DifferentKeys(S, key),
         NEW e, key[e] \in Int, \A x \in S : key[x] < key[e],
         NEW T, \A x : x \in T <=> x \in S \/ x = e
  PROVE  ByKey(T, key) = Append(ByKey(S, key), e)
<1> DEFINE n == Cardinality(S)
           q == ByKey(S, key)
           s == Append(q, e)
<1>1. e \notin S
  OBVIOUS
<1>2. IsFiniteSet(T) /\ Cardinality(T) = n + 1
  <2>1. T = S \cup {e}
    OBVIOUS
  <2> QED
    BY <1>1, <2>1, FS_AddElement
<1>3. /\ n \in Nat /\ q \in [1..n -> S] /\ q \in Seq(S) /\ Len(q) = n
      /\ \A k \in 1..n : Rank(S, key, q[k]) = k - 1
  BY ByKeyFacts
<1>4. \A x \in T : key[x] \in Int
  OBVIOUS
<1>5. DifferentKeys(T, key)
  BY DEF DifferentKeys
<1>6. ASSUME NEW x \in S PROVE Rank(T, key, x) = Rank(S, key, x)
  <2>1. ~(key[e] < key[x])
    OBVIOUS
  <2>2. Below(T, key, x) = Below(S, key, x)
    BY <2>1 DEF Below
  <2> QED
    BY <2>2 DEF Rank
<1>7. Rank(T, key, e) = n
  <2>1. ~(key[e] < key[e])
    OBVIOUS
  <2>2. Below(T, key, e) = S
    BY <2>1 DEF Below
  <2> QED
    BY <2>2 DEF Rank
<1> HIDE DEF q, n
<1>a. S \subseteq T /\ e \in T
  OBVIOUS
<1>8. /\ s \in [1..n + 1 -> T]
      /\ \A k \in 1..n : s[k] = q[k] /\ q[k] \in S
      /\ s[n + 1] = e
  <2>1. q \in Seq(T)
    BY <1>3, <1>a
  <2>2. s \in Seq(T) /\ Len(s) = n + 1
    BY <1>3, <1>a, <2>1
  <2>3. \A k \in 1..n : s[k] = q[k] /\ q[k] \in S
    BY <1>3, <2>1
  <2>4. s[n + 1] = e
    BY <1>3, <2>1
  <2>5. s \in [1..n + 1 -> T]
    <3> HIDE DEF s
    <3> QED
      BY <1>3, <2>2
  <2> QED
    BY <2>3, <2>4, <2>5
<1>9. \A k \in 1..n + 1 : Rank(T, key, s[k]) = k - 1
  <2> TAKE k \in 1..n + 1
  <2>1. CASE k \in 1..n
    BY <1>3, <1>6, <1>8, <2>1
  <2>2. CASE k = n + 1
    BY <1>3, <1>7, <1>8, <2>2
  <2> QED
    BY <1>3, <2>1, <2>2
<1> HIDE DEF s
<1>10. /\ s \in [1..Cardinality(T) -> T]
       /\ \A k \in 1..Cardinality(T) : Rank(T, key, s[k]) = k - 1
  BY <1>2, <1>8, <1>9
<1>11. s = ByKey(T, key)
  BY <1>2, <1>4, <1>5, <1>10, ByKeyUnique, Zenon
<1> QED
  BY <1>11 DEF s, q

\* The elements up to some key are the beginning of all.
LEMMA ByKeyPrefix ==
  ASSUME NEW S, IsFiniteSet(S), NEW key, \A x \in S : key[x] \in Int, DifferentKeys(S, key),
         NEW T \in SUBSET S, \A x \in S, y \in T : key[x] < key[y] => x \in T
  PROVE  /\ Cardinality(T) \in 0..Cardinality(S)
         /\ ByKey(T, key) = SubSeq(ByKey(S, key), 1, Cardinality(T))
<1> DEFINE n == Cardinality(S)
           m == Cardinality(T)
           q == ByKey(S, key)
           s == SubSeq(q, 1, m)
<1>1. IsFiniteSet(T) /\ m \in Nat /\ n \in Nat /\ m <= n
  BY FS_Subset, FS_CardinalityType
<1>2. /\ q \in [1..n -> S] /\ q \in Seq(S) /\ Len(q) = n
      /\ \A k \in 1..n : Rank(S, key, q[k]) = k - 1
  BY ByKeyFacts
<1>3. (\A x \in T : key[x] \in Int) /\ DifferentKeys(T, key)
  BY DEF DifferentKeys
<1>4. ASSUME NEW x \in T PROVE Rank(T, key, x) = Rank(S, key, x)
  <2>1. Below(T, key, x) = Below(S, key, x)
    BY DEF Below
  <2> QED
    BY <2>1 DEF Rank
<1>5. \A x \in S : Rank(S, key, x) < m => x \in T
  <2> SUFFICES ASSUME NEW x \in S, Rank(S, key, x) < m, x \notin T PROVE FALSE
    OBVIOUS
  <2>1. ASSUME NEW y \in T PROVE key[y] < key[x]
    <3>1. ~(key[x] < key[y]) /\ key[x] # key[y]
      BY DEF DifferentKeys
    <3>2. key[x] \in Int /\ key[y] \in Int
      OBVIOUS
    <3> QED
      BY <3>1, <3>2
  <2>2. T \in SUBSET Below(S, key, x)
    BY <2>1 DEF Below
  <2>3. IsFiniteSet(Below(S, key, x))
    <3>1. Below(S, key, x) \in SUBSET S
      BY DEF Below
    <3> QED
      BY <3>1, FS_Subset
  <2>4. m <= Rank(S, key, x) /\ Rank(S, key, x) \in Nat
    BY <2>2, <2>3, FS_Subset, FS_CardinalityType DEF Rank
  <2> QED
    BY <1>1, <2>4
<1> HIDE DEF q, n, m
<1>6. ASSUME NEW k \in 1..m PROVE s[k] = q[k] /\ q[k] \in T /\ Rank(T, key, q[k]) = k - 1
  <2>1. k \in 1..n /\ k - 1 < m
    BY <1>1
  <2>2. s[k] = q[k]
    BY <1>1, <1>2
  <2>3. q[k] \in S /\ Rank(S, key, q[k]) = k - 1
    BY <1>2, <2>1
  <2>4. q[k] \in T
    BY <1>5, <2>1, <2>3
  <2> QED
    BY <1>4, <2>2, <2>3, <2>4
<1>7. s \in [1..m -> T]
  <2>1. s = [k \in 1..m |-> s[k]]
    BY <1>1, <1>2
  <2> HIDE DEF s
  <2> QED
    BY <1>6, <2>1
<1>8. \A k \in 1..m : Rank(T, key, s[k]) = k - 1
  BY <1>6
<1> HIDE DEF s
<1>9. s = ByKey(T, key)
  BY <1>1, <1>3, <1>7, <1>8, ByKeyUnique DEF m
<1> QED
  BY <1>1, <1>9 DEF s, q, m, n

-----------------------------------------------------------------------------
(***************************************************************************)
(* Recent                                                                  *)
(***************************************************************************)
LEMMA StartType ==
  ASSUME TypeOK
  PROVE  Start \in Nat /\ Len(file) \in Nat /\ Start <= Len(file)
BY BoundsAssumption DEF TypeOK, Start

\* A line that is too long for the scanner begins with a byte of an event whose append
\* failed or that is too long itself: another one has its line end within its length.
LEMMA TooLongHasCause ==
  ASSUME Inv
  PROVE  RecentFailsForCause
<1> SUFFICES ASSUME NEW line \in Lines(Start), line[2] - line[1] + 1 >= MaxLine
             PROVE  \E p \in line[1]..line[2], e \in Events :
                      file[p].event = e /\ (status[e] = "failed" \/ Size[e] >= MaxLine)
  BY DEF RecentFailsForCause, RecentFails
<1> DEFINE a == line[1]
           b == line[2]
<1>1. /\ a \in Start + 1..Len(file) /\ b \in Start + 1..Len(file)
      /\ a <= b /\ b - a + 1 >= MaxLine
      /\ \A p \in a..b : file[p] # LineEnd
  BY DEF Lines
<1> HIDE DEF a, b
<1>2. /\ Start \in Nat /\ Len(file) \in Nat /\ MaxLine \in Nat
      /\ a \in 1..Len(file) /\ b \in Nat /\ a \in a..b
  BY <1>1, StartType, BoundsAssumption DEF Inv
<1>3. file[a] # LineEnd
  BY <1>1, <1>2
<1>4. PICK f \in Events : \E i \in 1..Size[f] :
        file[a] = Byte(f, i) /\ status[f] # "new" /\ a = offset[f] + i
  BY <1>2, <1>3 DEF Inv, CellsPlaced
<1>5. PICK i \in 1..Size[f] : file[a] = Byte(f, i) /\ status[f] # "new" /\ a = offset[f] + i
  BY <1>4
<1>6. status[f] = "acknowledged" => Size[f] >= MaxLine
  <2> SUFFICES ASSUME status[f] = "acknowledged", ~(Size[f] >= MaxLine) PROVE FALSE
    OBVIOUS
  <2> DEFINE q == offset[f] + Size[f] + 1
  <2>1. file[q] = LineEnd /\ offset[f] \in Nat /\ Size[f] \in Nat
    BY LineType DEF Inv, TypeOK, AckedIntact
  <2>2. ~(q \in a..b)
    BY <1>1, <2>1
  <2>3. b - a + 1 <= Size[f]
    <3>1. /\ a \in Int /\ b \in Int /\ i \in Int /\ q \in Int /\ Size[f] \in Int
          /\ i >= 1 /\ i <= Size[f] /\ q = a - i + Size[f] + 1
      BY <1>2, <1>5, <2>1, SMTT(20)
    <3> HIDE DEF q
    <3> QED
      BY <2>2, <3>1
  <2> QED
    BY <1>1, <1>2, <2>1, <2>3
<1>7. status[f] = "failed" \/ Size[f] >= MaxLine
  BY <1>5, <1>6 DEF Inv, TypeOK
<1>8. file[a].event = f
  BY <1>5 DEF Byte
<1>9. a \in line[1]..line[2]
  BY <1>2 DEF a, b
<1> QED
  BY <1>7, <1>8, <1>9

\* A whole event stands where its append put it, and that append was called.
LEMMA WholeIsPlaced ==
  ASSUME Inv, NEW e \in Events, NEW p \in Nat \ {0}, Whole(e, p)
  PROVE  p \in 1..Len(file) /\ p = offset[e] + 1 /\ status[e] # "new"
<1>1. Size[e] \in Nat \ {0} /\ Len(file) \in Nat /\ 1 \in 1..Size[e]
  BY LineType DEF Inv, TypeOK
<1>2. p \in 1..Len(file) /\ file[p] = Byte(e, 1)
  <2>1. p + Size[e] - 1 <= Len(file) /\ file[p + 1 - 1] = Byte(e, 1)
    BY <1>1 DEF Whole
  <2> QED
    BY <1>1, <2>1
<1>3. file[p] # LineEnd
  <2>1. file[p].at = 1 /\ LineEnd.at = 0
    BY <1>2 DEF Byte, LineEnd
  <2> QED
    BY <2>1
<1>4. PICK f \in Events : \E i \in 1..Size[f] :
        file[p] = Byte(f, i) /\ status[f] # "new" /\ p = offset[f] + i
  BY <1>2, <1>3 DEF Inv, CellsPlaced
<1>5. PICK i \in 1..Size[f] : file[p] = Byte(f, i) /\ status[f] # "new" /\ p = offset[f] + i
  BY <1>4
<1>6. f = e /\ i = 1
  BY <1>2, <1>5 DEF Byte
<1> QED
  BY <1>2, <1>5, <1>6

\* The events that Recent finds are finitely many, each at a place of its own, one
\* behind the offset that its append noted.
LEMMA FoundFacts ==
  ASSUME Inv
  PROVE  /\ IsFiniteSet(Found)
         /\ \A f \in Found : /\ f.event \in Events /\ f.at \in 1..Len(file)
                             /\ f.at = offset[f.event] + 1
                             /\ f = [at |-> f.at, event |-> f.event]
         /\ \A f, g \in Found : f.at = g.at => f = g
<1>1. ASSUME NEW f \in Found
      PROVE  /\ f.event \in Events /\ f.at \in 1..Len(file)
             /\ f.at = offset[f.event] + 1
             /\ f = [at |-> f.at, event |-> f.event]
             /\ file[f.at] = Byte(f.event, 1)
  <2>1. /\ f \in [at : 1..Len(file), event : Events]
        /\ Whole(f.event, f.at)
    BY DEF Found
  <2>2. f.event \in Events /\ f.at \in Nat \ {0} /\ f.at \in 1..Len(file)
    BY <2>1
  <2>3. f.at = offset[f.event] + 1
    BY <2>1, <2>2, WholeIsPlaced
  <2>4. file[f.at + 1 - 1] = Byte(f.event, 1)
    BY <2>1, <2>2, LineType DEF Whole
  <2> QED
    BY <2>1, <2>2, <2>3, <2>4
<1>2. ASSUME NEW f \in Found, NEW g \in Found, f.at = g.at PROVE f = g
  <2>1. Byte(f.event, 1) = Byte(g.event, 1)
    BY <1>1, <1>2
  <2>2. f.event = g.event
    BY <2>1 DEF Byte
  <2> QED
    BY <1>1, <1>2, <2>2
<1>3. IsFiniteSet(Found)
  <2> DEFINE place == [f \in Found |-> f.at]
  <2>1. place \in Injection(Found, 1..Len(file))
    BY <1>1, <1>2 DEF Injection, IsInjective
  <2>2. IsFiniteSet(1..Len(file))
    BY FS_Interval DEF Inv, TypeOK
  <2> QED
    BY <2>1, <2>2, FS_Injection
<1> QED
  BY <1>1, <1>2, <1>3

\* The further in front a line is, the higher is the key of its event.
FromEnd == [f \in Found |-> -f.at]

\* Newest(k) is the event of the k-th line from the end.
LEMMA NewestIsRanked ==
  ASSUME Inv, NEW k \in 1..Cardinality(Found)
  PROVE  \E f \in Found : Newest(k) = f.event /\ Rank(Found, FromEnd, f) = k - 1
<1>1. IsFiniteSet(Found) /\ FromEnd \in [Found -> Int] /\ DifferentKeys(Found, FromEnd)
  BY FoundFacts DEF FromEnd, DifferentKeys
<1>2. Cardinality(Found) \in Nat
  BY <1>1, FS_CardinalityType
<1>3. \A f \in Found : Cardinality({g \in Found : g.at > f.at}) = Rank(Found, FromEnd, f)
  <2> TAKE f \in Found
  <2>1. \A g \in Found : g.at > f.at <=> FromEnd[g] < FromEnd[f]
    BY FoundFacts DEF FromEnd
  <2>2. {g \in Found : g.at > f.at} = Below(Found, FromEnd, f)
    BY <2>1 DEF Below
  <2> QED
    BY <2>2 DEF Rank
<1>4. \E f \in Found : Rank(Found, FromEnd, f) = k - 1
  BY <1>1, <1>2, RankIsBijective
<1> DEFINE f == CHOOSE f \in Found : Cardinality({g \in Found : g.at > f.at}) = k - 1
<1>5. \E h \in Found : Cardinality({g \in Found : g.at > h.at}) = k - 1
  BY <1>3, <1>4
<1>6. f \in Found /\ Cardinality({g \in Found : g.at > f.at}) = k - 1
  BY <1>5
<1>7. Newest(k) = f.event
  BY DEF Newest
<1> HIDE DEF f
<1> QED
  BY <1>3, <1>6, <1>7

\* An event with a lower rank is a newer one.
LEMMA NewerFirst ==
  ASSUME Inv, NEW f \in Found, NEW g \in Found,
         Rank(Found, FromEnd, f) < Rank(Found, FromEnd, g)
  PROVE  offset[f.event] > offset[g.event]
<1>1. /\ IsFiniteSet(Found) /\ FromEnd \in [Found -> Int]
      /\ FromEnd[f] = -f.at /\ FromEnd[g] = -g.at
      /\ f.at \in Nat /\ f.at = offset[f.event] + 1
      /\ g.at \in Nat /\ g.at = offset[g.event] + 1
      /\ f.at = g.at => f = g
      /\ offset[f.event] \in Nat /\ offset[g.event] \in Nat
  BY FoundFacts, SMTT(20) DEF FromEnd, Inv, TypeOK
<1>2. /\ Rank(Found, FromEnd, f) \in Int /\ Rank(Found, FromEnd, g) \in Int
      /\ FromEnd[g] < FromEnd[f] => Rank(Found, FromEnd, g) < Rank(Found, FromEnd, f)
  BY <1>1, RankGrows
<1>3. ~(FromEnd[g] < FromEnd[f]) /\ f # g
  BY <1>2
<1> QED
  BY <1>1, <1>3

\* The places of a line of size bytes behind o that lies behind start.
LEMMA PlacesInWindow ==
  ASSUME NEW o \in Nat, NEW size \in Nat \ {0}, NEW len \in Nat, NEW start \in Nat,
         o + size + 1 <= len, start = 0 \/ o > start
  PROVE  /\ o + 1 \in start + 1..len /\ o + size \in start + 1..len /\ o + 1 \in 1..len
         /\ o + 1 <= o + size /\ o + 1 + size - 1 = o + size
         /\ \A p \in o + 1..o + size : p - o \in 1..size /\ o + 1 + (p - o) - 1 = p
OBVIOUS

\* An acknowledged event with a line of its own in the window is found.
LEMMA WindowIsFound ==
  ASSUME Inv, NEW e \in InWindow
  PROVE  [at |-> offset[e] + 1, event |-> e] \in Found
<1> DEFINE a == offset[e] + 1
           b == offset[e] + Size[e]
<1>1. /\ e \in Events /\ status[e] = "acknowledged"
      /\ OwnLine(e) /\ (Start = 0 \/ offset[e] > Start)
  BY DEF InWindow
<1>2. /\ offset[e] \in Nat /\ Size[e] \in Nat \ {0}
      /\ Start \in Nat /\ Len(file) \in Nat
      /\ offset[e] + Size[e] + 1 <= Len(file)
      /\ Whole(e, a)
      /\ file[offset[e] + Size[e] + 1] = LineEnd
  <2>1. /\ offset[e] \in Nat /\ Size[e] \in Nat \ {0}
        /\ synced \in Nat /\ synced <= Len(file) /\ Len(file) \in Nat /\ Start \in Nat
    BY <1>1, LineType, StartType DEF Inv, TypeOK
  <2>2. /\ offset[e] + Size[e] + 1 <= synced
        /\ Whole(e, offset[e] + 1)
        /\ file[offset[e] + Size[e] + 1] = LineEnd
    BY <1>1 DEF Inv, AckedIntact
  <2> QED
    BY <2>1, <2>2
<1>3. /\ a \in Start + 1..Len(file) /\ b \in Start + 1..Len(file) /\ a <= b
      /\ a + Size[e] - 1 = b /\ b + 1 = offset[e] + Size[e] + 1 /\ a - 1 = offset[e]
      /\ a \in 1..Len(file)
      /\ \A p \in a..b : p - offset[e] \in 1..Size[e] /\ a + (p - offset[e]) - 1 = p
  <2>1. b + 1 = offset[e] + Size[e] + 1 /\ a - 1 = offset[e]
    BY <1>2
  <2> QED
    BY <1>1, <1>2, <2>1, PlacesInWindow
<1>4. ASSUME NEW p \in a..b PROVE file[p] # LineEnd
  <2>1. p - offset[e] \in 1..Size[e] /\ a + (p - offset[e]) - 1 = p
    BY <1>3
  <2>2. file[p] = Byte(e, p - offset[e])
    BY <1>2, <2>1 DEF Whole
  <2>3. file[p].at = p - offset[e] /\ LineEnd.at = 0
    BY <2>2 DEF Byte, LineEnd
  <2> QED
    BY <2>1, <2>3
<1>5. a = Start + 1 \/ file[a - 1] = LineEnd
  BY <1>1, <1>2 DEF OwnLine
<1>6. file[b + 1] = LineEnd
  BY <1>2, <1>3
<1>7. Start > 0 => a # Start + 1
  BY <1>1, <1>2
<1> HIDE DEF a, b
<1>8. <<a, b>> \in Lines(Start)
  BY <1>3, <1>4, <1>5, <1>6 DEF Lines
<1>9. <<a, b>> \notin FirstLine
  BY <1>7 DEF FirstLine
<1> DEFINE f == [at |-> a, event |-> e]
<1>10. /\ f \in [at : 1..Len(file), event : Events]
       /\ f.at = a /\ f.event = e
  BY <1>1, <1>3
<1>11. f.at + Size[f.event] - 1 = b
  BY <1>3, <1>10
<1> HIDE DEF f
<1>12. f \in Found
  BY <1>2, <1>8, <1>9, <1>10, <1>11 DEF Found
<1> QED
  BY <1>12 DEF f, a

\* Recent takes the newest events first, and an acknowledged event of the window
\* is among them or pushed out by newer ones, for every limit.
LEMMA RecentInOrder ==
  ASSUME Inv, NEW limit \in Nat
  PROVE  NewestFirst(limit)
<1> DEFINE n == Cardinality(Found)
           m == Least(n, limit)
           recent == Recent(limit)
<1>1. IsFiniteSet(Found) /\ FromEnd \in [Found -> Int] /\ n \in Nat
      /\ DifferentKeys(Found, FromEnd)
  BY FoundFacts, FS_CardinalityType DEF FromEnd, DifferentKeys
<1>2. m \in Nat /\ m <= limit /\ m <= n /\ (m = limit \/ m = n)
  BY <1>1 DEF Least
<1>3. recent = [k \in 1..m |-> Newest(k)]
  BY DEF Recent
<1>4. DOMAIN recent = 1..m /\ Len(recent) = m
  BY <1>2, <1>3
<1>5. ASSUME NEW k \in 1..m
      PROVE  \E f \in Found : recent[k] = f.event /\ Rank(Found, FromEnd, f) = k - 1
  <2>1. k \in 1..n
    BY <1>1, <1>2
  <2> HIDE DEF n
  <2> QED
    BY <1>3, <2>1, NewestIsRanked DEF n
<1>6. ASSUME NEW j \in 1..m, NEW k \in 1..m, j < k
      PROVE  offset[recent[j]] > offset[recent[k]]
  <2>1. PICK f \in Found : recent[j] = f.event /\ Rank(Found, FromEnd, f) = j - 1
    BY <1>5
  <2>2. PICK g \in Found : recent[k] = g.event /\ Rank(Found, FromEnd, g) = k - 1
    BY <1>5
  <2>3. j - 1 < k - 1
    BY <1>2, <1>6
  <2>4. Rank(Found, FromEnd, f) < Rank(Found, FromEnd, g)
    BY <2>1, <2>2, <2>3
  <2> QED
    BY <2>1, <2>2, <2>4, NewerFirst
<1>7. ASSUME NEW e \in InWindow
      PROVE  \/ \E k \in 1..m : recent[k] = e
             \/ m = limit /\ \A k \in 1..m : offset[recent[k]] > offset[e]
  <2> DEFINE f == [at |-> offset[e] + 1, event |-> e]
             r == Rank(Found, FromEnd, f)
  <2>1. f \in Found /\ f.event = e
    BY WindowIsFound
  <2> HIDE DEF f
  <2>2. r \in 0..n - 1
    BY <1>1, <2>1, RankGrows
  <2>3. CASE r < m
    <3>1. r + 1 \in 1..m
      BY <1>2, <2>2, <2>3
    <3> DEFINE k == r + 1
    <3>a. k \in 1..m /\ k - 1 = r
      BY <2>2, <3>1
    <3> HIDE DEF k
    <3>2. PICK g \in Found : recent[k] = g.event /\ Rank(Found, FromEnd, g) = k - 1
      BY <1>5, <3>a
    <3>3. Rank(Found, FromEnd, g) = Rank(Found, FromEnd, f)
      BY <3>2, <3>a
    <3>4. g = f
      BY <1>1, <2>1, <3>3, RankIsBijective
    <3> QED
      BY <2>1, <3>2, <3>4, <3>a
  <2>4. CASE ~(r < m)
    <3>1. m = limit
      BY <1>1, <1>2, <2>2, <2>4
    <3>2. ASSUME NEW k \in 1..m PROVE offset[recent[k]] > offset[e]
      <4>1. PICK g \in Found : recent[k] = g.event /\ Rank(Found, FromEnd, g) = k - 1
        BY <1>5
      <4>2. k - 1 < r
        BY <1>2, <2>2, <2>4
      <4>3. Rank(Found, FromEnd, g) < Rank(Found, FromEnd, f)
        BY <4>1, <4>2
      <4> QED
        BY <2>1, <4>1, <4>3, NewerFirst
    <3> QED
      BY <3>1, <3>2
  <2> QED
    BY <2>3, <2>4
<1> HIDE DEF recent, m
<1> QED
  BY <1>2, <1>4, <1>6, <1>7 DEF NewestFirst, recent

-----------------------------------------------------------------------------
(***************************************************************************)
(* The refinement of AuditTrail                                            *)
(***************************************************************************)
Fragment == file # <<>> /\ file[Len(file)] # LineEnd

\* What a power loss cannot take.
Durable == {e \in Readable : offset[e] + Size[e] + 1 <= synced}

\* The readable events are finitely many, and their lines lie one behind the
\* other: a byte belongs to one line only.
LEMMA ReadableFacts ==
  ASSUME Inv
  PROVE  /\ IsFiniteSet(Readable)
         /\ DifferentKeys(Readable, offset)
         /\ \A e \in Readable : /\ e \in Events /\ status[e] # "new"
                                /\ offset[e] \in Nat /\ offset[e] \in Int
                                /\ offset[e] < Len(file)
         /\ \A e, f \in Readable :
              offset[e] < offset[f] => offset[e] + Size[e] + 1 <= offset[f]
<1>1. ASSUME NEW e \in Readable
      PROVE  /\ e \in Events /\ Size[e] \in Nat \ {0}
             /\ offset[e] \in Nat /\ Len(file) \in Nat
             /\ offset[e] + Size[e] + 1 <= Len(file)
             /\ Whole(e, offset[e] + 1)
             /\ file[offset[e] + Size[e] + 1] = LineEnd
             /\ status[e] # "new"
             /\ file[offset[e] + 1] = Byte(e, 1)
  <2>1. /\ e \in Events /\ Len(file) >= offset[e] + Size[e] + 1
        /\ Whole(e, offset[e] + 1)
        /\ file[offset[e] + Size[e] + 1] = LineEnd
    BY DEF Readable
  <2>2. Size[e] \in Nat \ {0} /\ offset[e] \in Nat /\ Len(file) \in Nat
    BY <2>1, LineType DEF Inv, TypeOK
  <2>3. offset[e] + 1 \in Nat \ {0} /\ 1 \in 1..Size[e] /\ offset[e] + 1 + 1 - 1 = offset[e] + 1
    BY <2>2
  <2>4. status[e] # "new"
    BY <2>1, <2>3, WholeIsPlaced
  <2>5. file[offset[e] + 1] = Byte(e, 1)
    BY <2>1, <2>3 DEF Whole
  <2> QED
    BY <2>1, <2>2, <2>4, <2>5
<1>2. ASSUME NEW e \in Readable, NEW f \in Readable, offset[e] = offset[f] PROVE e = f
  <2>1. Byte(e, 1) = Byte(f, 1)
    BY <1>1, <1>2
  <2> QED
    BY <2>1 DEF Byte
<1>3. ASSUME NEW e \in Readable, NEW f \in Readable, offset[e] < offset[f]
      PROVE  offset[e] + Size[e] + 1 <= offset[f]
  <2> SUFFICES ASSUME ~(offset[e] + Size[e] + 1 <= offset[f]) PROVE FALSE
    OBVIOUS
  <2> DEFINE i == offset[f] + 1 - offset[e]
  <2>1. /\ i \in 2..Size[e] + 1 /\ offset[e] + 1 + i - 1 = offset[f] + 1
        /\ i \notin 1..Size[e] => offset[e] + Size[e] + 1 = offset[f] + 1
    <3>1. /\ offset[e] \in Nat /\ offset[f] \in Nat /\ Size[e] \in Nat \ {0}
          /\ offset[e] < offset[f] /\ ~(offset[e] + Size[e] + 1 <= offset[f])
      BY <1>1, <1>3
    <3> QED
      BY <3>1
  <2>2. file[offset[f] + 1] = Byte(f, 1) /\ Byte(f, 1).at = 1
    BY <1>1 DEF Byte
  <2>3. CASE i \in 1..Size[e]
    <3> HIDE DEF i
    <3>1. file[offset[f] + 1] = Byte(e, i)
      BY <1>1, <2>1, <2>3 DEF Whole
    <3>2. Byte(e, i).at = i
      BY DEF Byte
    <3> QED
      BY <1>1, <2>1, <2>2, <3>1, <3>2
  <2>4. CASE i \notin 1..Size[e]
    <3>1. offset[e] + Size[e] + 1 = offset[f] + 1
      BY <2>1, <2>4
    <3>2. file[offset[f] + 1] = LineEnd /\ LineEnd.at = 0
      BY <1>1, <3>1 DEF LineEnd
    <3> QED
      BY <2>2, <3>2
  <2> QED
    BY <2>3, <2>4
<1>4. IsFiniteSet(Readable)
  <2> DEFINE place == [e \in Readable |-> offset[e]]
  <2>1. \A e \in Readable : offset[e] \in 0..Len(file)
    BY <1>1
  <2>2. place \in Injection(Readable, 0..Len(file))
    BY <1>2, <2>1 DEF Injection, IsInjective
  <2>3. IsFiniteSet(0..Len(file))
    BY FS_Interval DEF Inv, TypeOK
  <2> QED
    BY <2>2, <2>3, FS_Injection
<1>5. DifferentKeys(Readable, offset)
  BY <1>2 DEF DifferentKeys
<1>6. \A e \in Readable : offset[e] \in Int /\ offset[e] < Len(file)
  BY <1>1
<1> QED
  BY <1>1, <1>3, <1>4, <1>5, <1>6

\* Trail takes them by their offset.
LEMMA TrailIsByKey == /\ Trail(Readable) = ByKey(Readable, offset)
                      /\ Trail(Readable)' = ByKey(Readable', offset')
BY DEF Trail, ByKey, Rank, Below

\* A write leaves every readable line readable, and adds at most its own.
LEMMA ReadableAfterWrite ==
  ASSUME Inv, NEW e \in Events, NEW n \in 0..Size[e] + 1, Write(e, n)
  PROVE  /\ e \notin Readable
         /\ Readable' = IF n = Size[e] + 1 /\ ~Fragment THEN Readable \cup {e} ELSE Readable
         /\ offset'[e] = Len(file)
         /\ \A f \in Events : f # e => offset'[f] = offset[f]
<1>1. /\ status[e] = "new" /\ Size[e] \in Nat \ {0} /\ Len(file) \in Nat /\ n \in Nat
      /\ offset' = [offset EXCEPT ![e] = Len(file)] /\ offset \in [Events -> Nat]
      /\ TypeOK /\ file \in Seq(Cells)
  BY LineType DEF Write, Inv, TypeOK, Cells
<1>2. e \notin Readable
  BY <1>1, ReadableFacts
<1>3. offset'[e] = Len(file) /\ \A f \in Events : f # e => offset'[f] = offset[f]
  BY <1>1
<1>4. /\ Len(file') = Len(file) + n
      /\ \A p \in 1..Len(file) : file'[p] = file[p]
      /\ \A i \in 1..n : file'[Len(file) + i] = IF i <= Size[e] THEN Byte(e, i) ELSE LineEnd
  BY <1>1, WriteFacts
<1>5. e \in Readable' <=> n = Size[e] + 1 /\ ~Fragment
  <2>1. e \in Readable' <=> /\ Len(file') >= Len(file) + Size[e] + 1
                            /\ Whole(e, offset[e] + 1)'
                            /\ file'[Len(file) + Size[e] + 1] = LineEnd
                            /\ Len(file) = 0 \/ file'[Len(file)] = LineEnd
    BY <1>3 DEF Readable, OwnLine
  <2>2. CASE n # Size[e] + 1
    BY <1>1, <1>4, <2>1, <2>2
  <2>3. CASE n = Size[e] + 1
    <3>1. Len(file') >= Len(file) + Size[e] + 1
      BY <1>1, <1>4, <2>3
    <3>2. Whole(e, offset[e] + 1)'
      <4>1. \A i \in 1..Size[e] : Len(file) + 1 + i - 1 = Len(file) + i /\ i \in 1..n /\ i <= Size[e]
        BY <1>1, <2>3
      <4>2. \A i \in 1..Size[e] : file'[Len(file) + 1 + i - 1] = Byte(e, i)
        BY <1>4, <4>1
      <4>3. Len(file) + 1 + Size[e] - 1 <= Len(file')
        BY <1>1, <3>1, <1>4
      <4> QED
        BY <1>3, <4>2, <4>3 DEF Whole
    <3>3. file'[Len(file) + Size[e] + 1] = LineEnd
      <4>1. n \in 1..n /\ ~(n <= Size[e])
        BY <1>1, <2>3
      <4>2. file'[Len(file) + n] = LineEnd
        BY <1>4, <4>1
      <4>3. Len(file) + n = Len(file) + Size[e] + 1
        BY <1>1, <2>3
      <4> QED
        BY <4>2, <4>3
    <3>4. ~Fragment <=> Len(file) = 0 \/ file'[Len(file)] = LineEnd
      <4>1. file = <<>> <=> Len(file) = 0
        BY <1>1
      <4>2. Len(file) # 0 => file'[Len(file)] = file[Len(file)]
        BY <1>1, <1>4
      <4> QED
        BY <4>1, <4>2 DEF Fragment
    <3> QED
      BY <2>1, <2>3, <3>1, <3>2, <3>3, <3>4
  <2> QED
    BY <2>2, <2>3
<1>6. ASSUME NEW f \in Readable PROVE f \in Readable'
  <2> DEFINE o == offset[f]
  <2>1. /\ f \in Events /\ f # e /\ Size[f] \in Nat \ {0} /\ o \in Nat
        /\ o + Size[f] + 1 <= Len(file)
        /\ Whole(f, o + 1) /\ file[o + Size[f] + 1] = LineEnd
        /\ o = 0 \/ file[o] = LineEnd
    BY <1>1, <1>2, LineType DEF Readable, OwnLine
  <2>2. offset'[f] = o
    BY <1>3, <2>1
  <2> HIDE DEF o
  <2>3. /\ o + Size[f] + 1 \in 1..Len(file)
        /\ o + 1 + Size[f] - 1 <= Len(file)
        /\ \A i \in 1..Size[f] : o + 1 + i - 1 \in 1..Len(file)
        /\ o # 0 => o \in 1..Len(file)
    BY <1>1, <2>1, PlacesWithin, SMTT(20)
  <2>4. Whole(f, offset[f] + 1)'
    <3>1. \A i \in 1..Size[f] : file'[o + 1 + i - 1] = Byte(f, i)
      BY <1>4, <2>1, <2>3 DEF Whole
    <3>2. o + 1 + Size[f] - 1 <= Len(file')
      BY <1>1, <1>4, <2>1, <2>3, SMTT(20)
    <3> QED
      BY <2>2, <3>1, <3>2 DEF Whole
  <2>5. Len(file') >= o + Size[f] + 1
    BY <1>1, <1>4, <2>1
  <2>6. file'[o + Size[f] + 1] = LineEnd /\ (o = 0 \/ file'[o] = LineEnd)
    BY <1>4, <2>1, <2>3
  <2> QED
    BY <2>1, <2>2, <2>4, <2>5, <2>6 DEF Readable, OwnLine
<1>7. ASSUME NEW f \in Readable', f # e PROVE f \in Readable
  <2> DEFINE o == offset[f]
             q == o + Size[f] + 1
  <2>1. /\ f \in Events /\ Size[f] \in Nat \ {0} /\ o \in Nat /\ offset'[f] = o
    BY <1>1, <1>3, <1>7, LineType DEF Readable
  <2>2. /\ q <= Len(file')
        /\ Whole(f, offset[f] + 1)'
        /\ file'[q] = LineEnd
        /\ o = 0 \/ file'[o] = LineEnd
    BY <2>1 DEF Readable, OwnLine
  <2>3. \A i \in 1..Size[f] : file'[o + 1 + i - 1] = Byte(f, i)
    BY <2>1, <2>2 DEF Whole
  <2> HIDE DEF o
  <2>4. q <= Len(file)
    <3> SUFFICES ASSUME ~(q <= Len(file)) PROVE FALSE
      OBVIOUS
    <3>1. PICK i \in 1..n : q = Len(file) + i
      <4>1. q \in Nat /\ Len(file) \in Nat /\ n \in Nat
        BY <1>1, <2>1
      <4>2. q <= Len(file) + n
        BY <1>4, <2>2
      <4> HIDE DEF q
      <4> QED
        BY <4>1, <4>2
    <3>2. ~(i <= Size[e])
      <4> SUFFICES ASSUME i <= Size[e] PROVE FALSE
        OBVIOUS
      <4>1. file'[q] = Byte(e, i)
        BY <1>4, <3>1
      <4>2. file'[q].at = i /\ LineEnd.at = 0
        BY <4>1 DEF Byte, LineEnd
      <4> QED
        BY <2>2, <4>2
    <3>3. i = Size[e] + 1 /\ Size[e] \in 1..n
      BY <1>1, <3>2
    <3>4. file'[q - 1] = Byte(e, Size[e])
      <4>1. q - 1 = Len(file) + Size[e] /\ Size[e] <= Size[e]
        BY <1>1, <3>1, <3>3
      <4> QED
        BY <1>4, <3>3, <4>1
    <3>5. file'[q - 1] = Byte(f, Size[f])
      <4>1. q - 1 = o + 1 + Size[f] - 1 /\ Size[f] \in 1..Size[f]
        BY <2>1
      <4> QED
        BY <2>3, <4>1
    <3> QED
      BY <1>7, <3>4, <3>5 DEF Byte
  <2>5. /\ q \in 1..Len(file)
        /\ o + 1 + Size[f] - 1 <= Len(file)
        /\ \A i \in 1..Size[f] : o + 1 + i - 1 \in 1..Len(file)
        /\ o # 0 => o \in 1..Len(file)
    BY <1>1, <2>1, <2>4, PlacesWithin, SMTT(20)
  <2>6. Whole(f, o + 1)
    BY <1>4, <2>3, <2>5 DEF Whole
  <2>7. file[q] = LineEnd /\ (o = 0 \/ file[o] = LineEnd)
    BY <1>4, <2>2, <2>5
  <2>8. Len(file) >= o + Size[f] + 1
    BY <1>1, <2>1, <2>4
  <2> QED
    BY <2>1, <2>6, <2>7, <2>8 DEF Readable, OwnLine, o
<1>8. Readable' = IF n = Size[e] + 1 /\ ~Fragment THEN Readable \cup {e} ELSE Readable
  <2>1. CASE n = Size[e] + 1 /\ ~Fragment
    <3>1. \A f : f \in Readable' <=> f \in Readable \/ f = e
      BY <1>5, <1>6, <1>7, <2>1, Zenon
    <3> QED
      BY <2>1, <3>1
  <2>2. CASE ~(n = Size[e] + 1 /\ ~Fragment)
    <3>1. \A f : f \in Readable' <=> f \in Readable
      BY <1>2, <1>5, <1>6, <1>7, <2>2, Zenon
    <3> QED
      BY <2>2, <3>1
  <2> QED
    BY <2>1, <2>2
<1> QED
  BY <1>2, <1>3, <1>8

\* A power loss leaves the readable lines that end before the cut.
LEMMA ReadableAfterLoss ==
  ASSUME Inv, NEW n \in synced..Len(file), file' = SubSeq(file, 1, n), offset' = offset
  PROVE  Readable' = {e \in Readable : offset[e] + Size[e] + 1 <= n}
<1>1. /\ file \in Seq(Cells) /\ Len(file) \in Nat /\ n \in Nat /\ n <= Len(file)
      /\ \A e \in Events : offset[e] \in Nat /\ Size[e] \in Nat \ {0}
  BY LineType DEF Inv, TypeOK, Cells
<1>2. Len(file') = n /\ \A p \in 1..n : file'[p] = file[p]
  BY <1>1
<1>3. ASSUME NEW e \in Events
      PROVE  e \in Readable' <=> e \in Readable /\ offset[e] + Size[e] + 1 <= n
  <2> DEFINE o == offset[e]
  <2>1. o \in Nat /\ Size[e] \in Nat \ {0} /\ offset'[e] = o
    BY <1>1
  <2> HIDE DEF o
  <2>2. CASE o + Size[e] + 1 <= n
    <3>1. /\ o + Size[e] + 1 \in 1..n
          /\ o + 1 + Size[e] - 1 <= n
          /\ \A i \in 1..Size[e] : o + 1 + i - 1 \in 1..n
          /\ o # 0 => o \in 1..n
      BY <1>1, <2>1, <2>2, PlacesWithin, SMTT(20)
    <3>2. Whole(e, offset[e] + 1)' <=> Whole(e, o + 1)
      <4>1. \A i \in 1..Size[e] : file'[o + 1 + i - 1] = file[o + 1 + i - 1]
        BY <1>2, <3>1
      <4>2. o + 1 + Size[e] - 1 <= Len(file') /\ o + 1 + Size[e] - 1 <= Len(file)
        BY <1>1, <1>2, <2>1, <3>1
      <4>3. Whole(e, offset[e] + 1)' <=> \A i \in 1..Size[e] : file'[o + 1 + i - 1] = Byte(e, i)
        BY <2>1, <4>2 DEF Whole
      <4>4. Whole(e, o + 1) <=> \A i \in 1..Size[e] : file[o + 1 + i - 1] = Byte(e, i)
        BY <4>2 DEF Whole
      <4> QED
        BY <4>1, <4>3, <4>4
    <3>3. /\ file'[o + Size[e] + 1] = file[o + Size[e] + 1]
          /\ o # 0 => file'[o] = file[o]
      BY <1>2, <3>1
    <3>4. Len(file') >= o + Size[e] + 1 /\ Len(file) >= o + Size[e] + 1
      BY <1>1, <1>2, <2>1, <2>2
    <3>5. e \in Readable' <=> /\ Whole(e, offset[e] + 1)'
                              /\ file'[o + Size[e] + 1] = LineEnd
                              /\ o = 0 \/ file'[o] = LineEnd
      BY <2>1, <3>4 DEF Readable, OwnLine
    <3>6. e \in Readable <=> /\ Whole(e, o + 1)
                             /\ file[o + Size[e] + 1] = LineEnd
                             /\ o = 0 \/ file[o] = LineEnd
      BY <3>4 DEF Readable, OwnLine, o
    <3> QED
      BY <2>2, <3>2, <3>3, <3>5, <3>6 DEF o
  <2>3. CASE ~(o + Size[e] + 1 <= n)
    <3>1. ~(Len(file') >= o + Size[e] + 1)
      BY <1>1, <1>2, <2>1, <2>3
    <3>2. e \notin Readable'
      BY <2>1, <3>1 DEF Readable
    <3> QED
      BY <2>3, <3>2 DEF o
  <2> QED
    BY <2>2, <2>3
<1>4. Readable \subseteq Events /\ Readable' \subseteq Events
  BY DEF Readable
<1>5. \A e : e \in Readable' <=> e \in Readable /\ offset[e] + Size[e] + 1 <= n
  BY <1>3, <1>4, Zenon
<1> QED
  BY <1>5

\* What the readable events are to AuditTrail.
LEMMA TrailFacts ==
  ASSUME Inv
  PROVE  /\ Trail(Readable) \in Seq(Readable)
         /\ Len(Trail(Readable)) = Cardinality(Readable)
         /\ Cardinality(Readable) \in Nat
BY ReadableFacts, ByKeyFacts, TrailIsByKey

\* A write turns the trail into what AuditTrail says of a whole line, or leaves it.
LEMMA TrailAfterWrite ==
  ASSUME Inv, NEW e \in Events, NEW n \in 0..Size[e] + 1, Write(e, n)
  PROVE  Trail(Readable)' = IF n = Size[e] + 1 /\ ~Fragment
                            THEN Append(Trail(Readable), e) ELSE Trail(Readable)
<1>1. /\ IsFiniteSet(Readable)
      /\ DifferentKeys(Readable, offset)
      /\ \A f \in Readable : /\ f \in Events /\ offset[f] \in Int
                             /\ offset[f] < Len(file)
  BY ReadableFacts
<1>2. /\ e \notin Readable /\ offset'[e] = Len(file) /\ Len(file) \in Int
      /\ \A f \in Events : f # e => offset'[f] = offset[f]
      /\ Readable' = IF n = Size[e] + 1 /\ ~Fragment THEN Readable \cup {e} ELSE Readable
  BY ReadableAfterWrite DEF Inv, TypeOK
<1>3. \A f \in Readable : /\ offset'[f] = offset[f] /\ offset'[f] \in Int
                          /\ offset'[f] < offset'[e]
  BY <1>1, <1>2
<1>4. DifferentKeys(Readable, offset')
  BY <1>1, <1>3 DEF DifferentKeys
<1>5. ByKey(Readable, offset') = ByKey(Readable, offset)
  BY <1>1, <1>3, ByKeySame
<1>6. ByKey(Readable \cup {e}, offset') = Append(ByKey(Readable, offset'), e)
  <2> DEFINE S == Readable
             T == Readable \cup {e}
             key == offset'
  <2>1. /\ IsFiniteSet(S) /\ DifferentKeys(S, key) /\ key[e] \in Int
        /\ \A f \in S : key[f] \in Int
        /\ \A f \in S : key[f] < key[e]
        /\ \A x : x \in T <=> x \in S \/ x = e
    BY <1>1, <1>2, <1>3, <1>4
  <2> HIDE DEF S, T, key
  <2>2. ByKey(T, key) = Append(ByKey(S, key), e)
    BY <2>1, ByKeyAppend
  <2> QED
    BY <2>2 DEF S, T, key
<1> QED
  BY <1>2, <1>5, <1>6, TrailIsByKey

-----------------------------------------------------------------------------
\* Each step of the log is one of the trail.
LEMMA AppendRecords ==
  ASSUME Inv, NEW e \in Events, AppendEvent(e)
  PROVE  Promise!Record(e)
<1> DEFINE n == Size[e] + 1
<1>1. /\ Size[e] \in Nat \ {0} /\ n \in 0..Size[e] + 1 /\ Write(e, n)
      /\ status' = [status EXCEPT ![e] = "acknowledged"]
      /\ synced' = Len(file') /\ Len(file) \in Nat
  BY LineType DEF AppendEvent, Inv, TypeOK
<1>2. Trail(Readable)' = IF Fragment THEN Trail(Readable) ELSE Append(Trail(Readable), e)
  BY <1>1, TrailAfterWrite
<1>3. {f \in Events : status[f] = "acknowledged"}' =
        {f \in Events : status[f] = "acknowledged"} \cup {e}
  BY <1>1 DEF Inv, TypeOK
<1>4. Cardinality(Durable)' = Len(Trail(Readable)')
  <2>1. \A f \in Readable' : Len(file') >= offset'[f] + Size[f] + 1
    BY DEF Readable
  <2>2. Len(file') \in Nat /\ \A f \in Readable' : offset'[f] \in Nat /\ Size[f] \in Nat
    BY AppendKeeps, LineType DEF Inv, TypeOK, Readable
  <2>3. \A f \in Readable' : offset'[f] + Size[f] + 1 <= synced'
    BY <1>1, <2>1, <2>2
  <2>4. Durable' = Readable'
    BY <2>3 DEF Durable
  <2>5. Len(Trail(Readable)') = Cardinality(Readable')
    <3>1. /\ e \notin Readable
          /\ Readable' = IF Fragment THEN Readable ELSE Readable \cup {e}
      BY <1>1, ReadableAfterWrite
    <3>2. Cardinality(Readable') = IF Fragment THEN Cardinality(Readable) ELSE Cardinality(Readable) + 1
      BY <3>1, ReadableFacts, FS_AddElement
    <3>3. /\ Trail(Readable) \in Seq(Readable)
          /\ Len(Trail(Readable)) = Cardinality(Readable)
      BY TrailFacts
    <3> QED
      BY <1>2, <3>2, <3>3
  <2> QED
    BY <2>4, <2>5
<1>5. Fragment' = FALSE
  <2>1. /\ Len(file') = Len(file) + n
        /\ \A i \in 1..n : file'[Len(file) + i] = IF i <= Size[e] THEN Byte(e, i) ELSE LineEnd
    BY <1>1, WriteFacts DEF Inv
  <2>2. n \in 1..n /\ ~(n <= Size[e])
    BY <1>1
  <2>3. file'[Len(file')] = LineEnd
    BY <2>1, <2>2
  <2> QED
    BY <2>3 DEF Fragment
<1> QED
  BY <1>2, <1>3, <1>4, <1>5 DEF Promise!Record, Promise!Written, Fragment, Durable

LEMMA FailureFails ==
  ASSUME Inv, NEW e \in Events, AppendFails(e)
  PROVE  Promise!Fail(e)
<1>1. PICK n \in 0..Size[e] + 1 : Write(e, n)
  BY DEF AppendFails
<1>2. /\ Size[e] \in Nat \ {0} /\ Len(file) \in Nat /\ n \in Nat
      /\ status[e] = "new" /\ status' = [status EXCEPT ![e] = "failed"]
      /\ synced' = synced /\ synced \in Nat /\ synced <= Len(file)
      /\ file \in Seq(Cells)
  BY <1>1, LineType DEF AppendFails, Write, Inv, TypeOK, Cells
<1>3. Trail(Readable)' = IF n = Size[e] + 1 /\ ~Fragment
                         THEN Append(Trail(Readable), e) ELSE Trail(Readable)
  BY <1>1, TrailAfterWrite
<1>4. /\ Len(file') = Len(file) + n
      /\ \A p \in 1..Len(file) : file'[p] = file[p]
      /\ \A i \in 1..n : file'[Len(file) + i] = IF i <= Size[e] THEN Byte(e, i) ELSE LineEnd
      /\ file' \in Seq(Cells)
  BY <1>1, WriteFacts DEF Inv
<1>5. {f \in Events : status[f] = "acknowledged"}' = {f \in Events : status[f] = "acknowledged"}
  BY <1>2 DEF Inv, TypeOK
<1>6. Durable' = Durable
  <2>1. /\ e \notin Readable /\ offset'[e] = Len(file)
        /\ \A f \in Events : f # e => offset'[f] = offset[f]
        /\ Readable' = IF n = Size[e] + 1 /\ ~Fragment THEN Readable \cup {e} ELSE Readable
    BY <1>1, ReadableAfterWrite
  <2>2. ~(offset'[e] + Size[e] + 1 <= synced')
    BY <1>2, <2>1
  <2>3. \A f \in Readable : f # e /\ offset'[f] = offset[f]
    BY <2>1 DEF Readable
  <2> QED
    BY <1>2, <2>1, <2>2, <2>3 DEF Durable
<1>7. \/ UNCHANGED <<Trail(Readable), Fragment>>
      \/ Fragment' = TRUE /\ UNCHANGED Trail(Readable)
      \/ Fragment' = FALSE /\ Trail(Readable)' =
           IF Fragment THEN Trail(Readable) ELSE Append(Trail(Readable), e)
  <2>1. CASE n = 0
    <3>1. Len(file') = Len(file) /\ n # Size[e] + 1
      BY <1>2, <1>4, <2>1
    <3>2. Len(file) # 0 => file'[Len(file')] = file[Len(file)]
      BY <1>2, <1>4, <3>1
    <3>3. (file = <<>> <=> Len(file) = 0) /\ (file' = <<>> <=> Len(file') = 0)
      BY <1>2, <1>4
    <3>4. Fragment' <=> Fragment
      BY <3>1, <3>2, <3>3 DEF Fragment
    <3>5. Fragment' = Fragment
      BY <3>4 DEF Fragment
    <3> QED
      BY <1>3, <3>1, <3>5
  <2>2. CASE n \in 1..Size[e]
    <3>1. Len(file') = Len(file) + n /\ n # Size[e] + 1 /\ n \in 1..n /\ n <= Size[e]
      BY <1>2, <1>4, <2>2
    <3>2. file'[Len(file')] = Byte(e, n)
      BY <1>4, <3>1
    <3>3. file'[Len(file')].at = n /\ LineEnd.at = 0 /\ n # 0
      BY <2>2, <3>2 DEF Byte, LineEnd
    <3>4. file' # <<>>
      BY <1>2, <1>4, <3>1
    <3>5. Fragment' = TRUE
      BY <3>3, <3>4 DEF Fragment
    <3> QED
      BY <1>3, <3>1, <3>5
  <2>3. CASE n = Size[e] + 1
    <3>1. n \in 1..n /\ ~(n <= Size[e])
      BY <1>2, <2>3
    <3>2. file'[Len(file')] = LineEnd
      BY <1>4, <3>1
    <3>3. Fragment' = FALSE
      BY <3>2 DEF Fragment
    <3> QED
      BY <1>3, <2>3, <3>3
  <2>4. n = 0 \/ n \in 1..Size[e] \/ n = Size[e] + 1
    BY <1>2
  <2> QED
    BY <2>1, <2>2, <2>3, <2>4, Zenon
<1> QED
  BY <1>5, <1>6, <1>7 DEF Promise!Fail, Promise!Written, Fragment, Durable

LEMMA LossLoses ==
  ASSUME Inv, PowerLoss
  PROVE  Promise!PowerLoss
<1>1. PICK n \in synced..Len(file) : file' = SubSeq(file, 1, n) /\ synced' = n
  BY DEF PowerLoss
<1>2. UNCHANGED <<status, offset>> /\ n \in Nat /\ synced \in Nat /\ synced <= n
  BY DEF PowerLoss, Inv, TypeOK
<1>3. Readable' = {e \in Readable : offset[e] + Size[e] + 1 <= n}
  BY <1>1, <1>2, ReadableAfterLoss
<1>4. /\ IsFiniteSet(Readable)
      /\ DifferentKeys(Readable, offset)
      /\ \A e \in Readable : e \in Events /\ offset[e] \in Int /\ offset[e] \in Nat
      /\ \A e, f \in Readable :
           offset[e] < offset[f] => offset[e] + Size[e] + 1 <= offset[f]
  BY ReadableFacts
<1>5. \A e \in Readable : Size[e] \in Nat /\ offset[e] \in Nat
  BY <1>4, LineType
<1>6. Readable' \in SUBSET Readable
  BY <1>3
<1>7. \A x \in Readable, y \in Readable' : offset[x] < offset[y] => x \in Readable'
  BY <1>2, <1>3, <1>4, <1>5
<1> DEFINE m == Cardinality(Readable')
<1>8. m \in 0..Cardinality(Readable)
      /\ ByKey(Readable', offset) = SubSeq(ByKey(Readable, offset), 1, m)
  BY <1>4, <1>6, <1>7, ByKeyPrefix
<1>9. Trail(Readable)' = SubSeq(Trail(Readable), 1, m)
  BY <1>2, <1>8, TrailIsByKey
<1>10. Cardinality(Durable)' = m
  <2>1. Durable' = Readable'
    BY <1>1, <1>2, <1>3 DEF Durable
  <2> QED
    BY <2>1
<1>11. m \in Cardinality(Durable)..Len(Trail(Readable))
  <2>1. Durable \subseteq Readable'
    BY <1>2, <1>3, <1>5 DEF Durable
  <2>2. IsFiniteSet(Readable') /\ m \in Nat
    BY <1>4, <1>6, FS_Subset, FS_CardinalityType
  <2>3. Cardinality(Durable) \in Nat /\ Cardinality(Durable) <= m
    BY <2>1, <2>2, FS_Subset, FS_CardinalityType
  <2>4. Len(Trail(Readable)) = Cardinality(Readable) /\ Cardinality(Readable) \in Nat
    BY TrailFacts
  <2> QED
    BY <1>8, <2>2, <2>3, <2>4
<1>12. {f \in Events : status[f] = "acknowledged"}' = {f \in Events : status[f] = "acknowledged"}
  BY <1>2
<1>13. Fragment' \in BOOLEAN
  BY DEF Fragment
<1> HIDE DEF m
<1> QED
  BY <1>9, <1>10, <1>11, <1>12, <1>13 DEF Promise!PowerLoss, Fragment, Durable

\* The log implements AuditTrail, byte by byte, for every set of events, every
\* length of their lines and any number of failures: only an event that follows a
\* fragment is swallowed, and a power loss takes only what was not acknowledged.
THEOREM TrailRefinement == Spec => ImplementsAuditTrail
<1>1. Init => Promise!Init
  <2> SUFFICES ASSUME Init PROVE Promise!Init
    OBVIOUS
  <2>1. Readable = {} /\ Durable = {}
    <3>1. \A e \in Events : ~(Len(file) >= offset[e] + Size[e] + 1)
      BY LineType DEF Init
    <3> QED
      BY <3>1 DEF Readable, Durable
  <2>2. Cardinality({}) = 0
    BY FS_EmptySet
  <2>3. Trail(Readable) = <<>>
    BY <2>1, <2>2 DEF Trail
  <2>4. {e \in Events : status[e] = "acknowledged"} = {}
    BY DEF Init
  <2>5. Fragment = FALSE /\ Cardinality(Durable) = 0
    BY <2>1, <2>2 DEF Init, Fragment
  <2> QED
    BY <2>3, <2>4, <2>5 DEF Promise!Init, Fragment, Durable
<1>2. Inv /\ [Next]_vars => [Promise!Next]_(Promise!vars)
  <2> SUFFICES ASSUME Inv, [Next]_vars PROVE [Promise!Next]_(Promise!vars)
    OBVIOUS
  <2>1. ASSUME NEW e \in Events, AppendEvent(e) PROVE Promise!Next
    BY <2>1, AppendRecords DEF Promise!Next
  <2>2. ASSUME NEW e \in Events, AppendFails(e) PROVE Promise!Next
    BY <2>2, FailureFails DEF Promise!Next
  <2>3. CASE PowerLoss
    BY <2>3, LossLoses DEF Promise!Next
  <2>4. CASE UNCHANGED vars
    BY <2>4 DEF vars, Promise!vars, Trail, Readable, Whole, OwnLine
  <2> QED
    BY <2>1, <2>2, <2>3, <2>4 DEF Next
<1> QED
  BY <1>1, <1>2, InvInit, InvNext, PTL DEF Spec, ImplementsAuditTrail, Promise!Spec

\* A line that is too long for Recent holds bytes of a failed append or of an event that
\* is too long by itself; acknowledged events that are short enough never make up one.
THEOREM RecentFailure == Spec => []RecentFailsForCause
BY TooLongHasCause, InvInit, InvNext, PTL DEF Spec

\* Recent loses no acknowledged event of its window, and orders them.
THEOREM RecentOrder == Spec => []RecentIsNewest
<1>1. Inv => RecentIsNewest
  <2> SUFFICES ASSUME Inv, NEW limit \in 1..Cardinality(Found) + 1 PROVE NewestFirst(limit)
    BY DEF RecentIsNewest
  <2>1. Cardinality(Found) \in Nat
    BY FoundFacts, FS_CardinalityType
  <2>2. limit \in Nat
    BY <2>1
  <2> QED
    BY <2>2, RecentInOrder
<1> QED
  BY <1>1, InvInit, InvNext, PTL DEF Spec
=============================================================================
