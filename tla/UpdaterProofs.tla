---------------------------- MODULE UpdaterProofs ----------------------------
(***************************************************************************)
(* What Updater guarantees: for any number of updaters at once, of the     *)
(* links; for an updater that is alone, of the accepted release; and that  *)
(* versions are compared by their precedence.                              *)
(***************************************************************************)
EXTENDS Updater, WellFoundedInduction, TLAPS

\* What an updater has in hand is complete: the target once it is stored, the
\* old release once the link was read.
HandsComplete ==
  \A u \in Updaters :
    /\ pc[u] # "idle" => target[u] \in Releases
    /\ pc[u] \in {"read link", "switch"} \cup Switched => target[u] \in complete
    /\ pc[u] \in {"switch"} \cup Switched => old[u] \in complete

Inv == TypeOK /\ LinksComplete /\ HandsComplete

LEMMA InitInv == Init => Inv
BY ReleasesAssumption DEF Init, Inv, TypeOK, LinksComplete, HandsComplete, Steps, Switched

LEMMA NextInv == Inv /\ [Next]_vars => Inv'
<1> SUFFICES ASSUME Inv, [Next]_vars PROVE Inv'
  OBVIOUS
<1> USE DEF Inv, TypeOK, LinksComplete, HandsComplete, Steps, Switched, GoTo, At,
            links, options, history
<1>1. ASSUME NEW u \in Updaters, Begin(u) PROVE Inv'
  BY <1>1, ZenonT(30) DEF Begin
<1>2. ASSUME NEW u \in Updaters, Command(u) PROVE Inv'
  <2>1. CASE Compare(u)
    BY <2>1 DEF Compare
  <2>2. CASE Store(u)
    BY <2>2 DEF Store
  <2>3. CASE ReadLink(u)
    BY <2>3 DEF ReadLink
  <2>4. CASE Switch(u)
    BY <2>4 DEF Switch
  <2>5. CASE Restart(u)
    BY <2>5 DEF Restart
  <2>6. CASE Accept(u)
    BY <2>6 DEF Accept
  <2>7. CASE RollBack(u)
    BY <2>7 DEF RollBack
  <2>8. CASE Restore(u)
    BY <2>8 DEF Restore
  <2>9. CASE Record(u)
    BY <2>9 DEF Record
  <2> QED
    BY <1>2, <2>1, <2>2, <2>3, <2>4, <2>5, <2>6, <2>7, <2>8, <2>9 DEF Command
<1>3. ASSUME NEW u \in Updaters, End(u) PROVE Inv'
  BY <1>3 DEF End
<1>4. CASE Service
  BY <1>4 DEF Service
<1>5. CASE UNCHANGED vars
  BY <1>5 DEF vars
<1> QED
  BY <1>1, <1>2, <1>3, <1>4, <1>5 DEF Next

LEMMA UpdaterInvariant == Spec => []Inv
<1> QED
  BY InitInv, NextInv, PTL DEF Spec

\* The variables of update.sh have their types, however many run at once.
THEOREM UpdaterTypeCorrect == Spec => []TypeOK
<1>1. Inv => TypeOK
  BY DEF Inv
<1> QED
  BY <1>1, UpdaterInvariant, PTL

\* However many updaters work at once and wherever they end, current and previous
\* name complete releases: a release is moved to its place before a link names it,
\* and no release is ever removed.
THEOREM LinksAlwaysComplete == Spec => []LinksComplete
<1>1. Inv => LinksComplete
  BY DEF Inv
<1> QED
  BY <1>1, UpdaterInvariant, PTL

-----------------------------------------------------------------------------
(***************************************************************************)
(* One updater.  Nothing but its own commands moves the links, so what it  *)
(* has read of them still holds when it acts on it.                        *)
(***************************************************************************)

\* Where the updater stands, the target is newer than the link or allowed.
Compared(u) ==
  pc[u] \in {"store", "read link", "switch"} /\ ~forced[u]
    => Newer(current, target[u])

\* The candidate is what the link names and, if anything, what the service runs.
Candidate(u) ==
  /\ pc[u] \in {"restart", "accept", "roll back"} => current = target[u]
  /\ pc[u] = "accept" => running \in {current, None}

\* The accepted release is in the link, or in the updater's hands.
Kept(u) ==
  ~abandoned =>
    /\ lastGood \in Sound \cup {Installed}
    /\ previous \in Sound \cup {Installed, None}
    /\ pc[u] \notin {"restart", "accept", "roll back"} => current = lastGood
    /\ pc[u] \in {"switch", "restart", "accept", "roll back", "restore"} => old[u] = lastGood
    /\ pc[u] = "record" => old[u] \in Sound \cup {Installed}

Alone(u) == Inv /\ Compared(u) /\ Candidate(u) /\ Kept(u)

LEMMA InitAlone == ASSUME NEW only, Updaters = {only} PROVE Init => Alone(only)
BY InitInv, ReleasesAssumption DEF Init, Alone, Compared, Candidate, Kept

LEMMA NextAlone ==
  ASSUME NEW only, Updaters = {only} PROVE Alone(only) /\ [Next]_vars => Alone(only)'
<1> SUFFICES ASSUME Alone(only), [Next]_vars PROVE Alone(only)'
  OBVIOUS
<1>i. Inv /\ Inv'
  BY NextInv DEF Alone
<1> only \in Updaters
  OBVIOUS
<1> USE <1>i, ReleasesAssumption, NoneAssumption
        DEF Inv, TypeOK, HandsComplete, Alone, Compared, Candidate, Kept, Steps,
            Switched, GoTo, At, links, options, history
<1>1. CASE Begin(only)
  BY <1>1 DEF Begin
<1>2. CASE Compare(only)
  BY <1>2 DEF Compare
<1>3. CASE Store(only)
  BY <1>3 DEF Store
<1>4. CASE ReadLink(only)
  BY <1>4 DEF ReadLink
<1>5. CASE Switch(only)
  BY <1>5 DEF Switch
<1>6. CASE Restart(only)
  BY <1>6 DEF Restart
<1>7. CASE Accept(only)
  <2>1. pc[only] = "accept" /\ UNCHANGED <<complete, current, previous, running, target, old,
                                           forced, abandoned>>
    BY <1>7 DEF Accept
  <2>2. CASE GoTo(only, "roll back") /\ UNCHANGED lastGood
    BY <2>1, <2>2
  <2>3. CASE running \in Sound /\ lastGood' = target[only] /\ GoTo(only, "record")
    <3>1. running = current /\ current = target[only]
      BY <2>1, <2>3, ZenonT(30)
    <3>2. pc'[only] = "record" /\ lastGood' = current /\ current \in Sound
      BY <2>1, <2>3, <3>1
    <3>3. Compared(only)' /\ Candidate(only)'
      BY <2>1, <3>2
    <3>4. ~abandoned => old[only] = lastGood /\ lastGood \in Sound \cup {Installed}
      BY <2>1
    <3>5. Kept(only)'
      BY <2>1, <3>2, <3>4
    <3> QED
      BY <3>3, <3>5
  <2> QED
    BY <1>7, <2>2, <2>3 DEF Accept
<1>8. CASE RollBack(only)
  BY <1>8 DEF RollBack
<1>9. CASE Restore(only)
  BY <1>9 DEF Restore
<1>10. CASE Record(only)
  BY <1>10 DEF Record
<1>11. CASE End(only)
  BY <1>11 DEF End
<1>12. CASE Service
  BY <1>12, ZenonT(30) DEF Service
<1>13. CASE UNCHANGED vars
  BY <1>13, ZenonT(30) DEF vars
<1> QED
  BY <1>1, <1>2, <1>3, <1>4, <1>5, <1>6, <1>7, <1>8, <1>9, <1>10, <1>11, <1>12,
     <1>13 DEF Next, Command

\* An updater that is alone never loses the release that was accepted last, and
\* unless it was ended between its switch and its last command it leaves the link
\* at that release.
THEOREM AcceptedReleaseKept ==
  ASSUME NEW CONSTANT only, Updaters = {only} PROVE Spec => []SettledOnAccepted
<1>1. Alone(only) => SettledOnAccepted
  <2> SUFFICES ASSUME Alone(only), ~abandoned PROVE SettledOnAccepted
    BY DEF SettledOnAccepted
  <2>1. only \in Updaters /\ \A u \in Updaters : u = only
    OBVIOUS
  <2>2. (\A u \in Updaters : pc[u] \notin Switched) => current = lastGood
    BY <2>1 DEF Alone, Kept, Switched
  <2>3. \/ lastGood \in {current, previous}
        \/ \E u \in Updaters : pc[u] \in Switched /\ old[u] = lastGood
    BY <2>1 DEF Alone, Kept, Switched
  <2> QED
    BY <2>2, <2>3 DEF Alone, Kept, SettledOnAccepted
<1> QED
  BY <1>1, InitAlone, NextAlone, PTL DEF Spec

\* An updater that is alone, without --allow-downgrade, switches only to a newer
\* version.
THEOREM NoDowngradeAlone ==
  ASSUME NEW CONSTANT only, Updaters = {only} PROVE Spec => NoSilentDowngrade
<1> DEFINE Forward == \A u \in Updaters : At(u, "switch") /\ At(u, "restart")' /\ ~forced[u]
                         => Newer(current, current')
<1>1. Alone(only) /\ [Next]_vars => [Forward]_vars
  <2> SUFFICES ASSUME Alone(only), Next, At(only, "switch"), At(only, "restart")', ~forced[only]
               PROVE Newer(current, current')
    OBVIOUS
  <2> only \in Updaters
    OBVIOUS
  <2>1. Switch(only)
    BY DEF Next, Command, Begin, Compare, Store, ReadLink, Restart, Accept, RollBack,
           Restore, Record, End, Service, GoTo, At, Alone, Inv, TypeOK
  <2> QED
    BY <2>1 DEF Switch, At, Alone, Compared
<1>2. Spec => [][Forward]_vars
  BY <1>1, InitAlone, NextAlone, PTL DEF Spec
<1> QED
  BY <1>2 DEF NoSilentDowngrade

-----------------------------------------------------------------------------
(***************************************************************************)
(* The comparison of versions.  The values of numbers come from a          *)
(* recursion, so their order is proved by counting up the digits: a set of *)
(* numbers of digits that holds 0 and with each its successor holds all.   *)
(***************************************************************************)

\* A set of numbers has a least one.
LEMMA LeastNumber ==
  ASSUME NEW T \in SUBSET Nat, T # {}
  PROVE  \E n \in T : \A m \in T : n <= m
<1> DEFINE less == OpToRel(<, Nat)
<1>1. IsWellFoundedOn(less, Nat)
  BY NatLessThanWellFounded
<1>2. \A m, n \in Nat : m < n => <<m, n>> \in less
  BY DEF OpToRel
<1> HIDE DEF less
<1>3. PICK n \in T : \A m \in T : <<m, n>> \notin less
  BY <1>1, WFMin
<1>4. ASSUME NEW m \in T PROVE n <= m
  <2>1. m \in Nat /\ n \in Nat /\ ~(m < n)
    BY <1>2, <1>3
  <2> QED
    BY <2>1
<1> QED
  BY <1>4

\* Counting reaches every number.
LEMMA CountingUp ==
  ASSUME NEW T \in SUBSET Nat, 0 \in T, \A n \in T : n + 1 \in T
  PROVE  \A n \in Nat : n \in T
<1> SUFFICES ASSUME Nat \ T # {} PROVE FALSE
  OBVIOUS
<1>1. PICK n \in Nat \ T : \A m \in Nat \ T : n <= m
  BY LeastNumber
<1>2. n - 1 \in T
  BY <1>1
<1> QED
  BY <1>1, <1>2

-----------------------------------------------------------------------------
\* f gives the values of the beginnings of s, up to the first k digits.
Values(f, s, k) == /\ f \in [0..k -> Nat]
                   /\ f[0] = 0
                   /\ \A i \in 1..k : f[i] = 10 * f[i - 1] + s[i]

\* One more digit.
LEMMA ValuesExtend ==
  ASSUME NEW s, NEW k \in Nat, NEW f, Values(f, s, k), s[k + 1] \in Nat
  PROVE  \E g : Values(g, s, k + 1)
<1> DEFINE g == [i \in 0..k + 1 |-> IF i = k + 1 THEN 10 * f[k] + s[k + 1] ELSE f[i]]
<1>1. f[k] \in Nat /\ f[0] = 0 /\ \A i \in 0..k : f[i] \in Nat
  BY DEF Values
<1>2. \A i \in 0..k : g[i] = f[i]
  OBVIOUS
<1>3. g[k + 1] = 10 * f[k] + s[k + 1]
  OBVIOUS
<1>4. g \in [0..k + 1 -> Nat] /\ g[0] = 0
  BY <1>1
<1>5. ASSUME NEW i \in 1..k + 1 PROVE g[i] = 10 * g[i - 1] + s[i]
  <2> HIDE DEF g
  <2>1. CASE i = k + 1
    BY <1>2, <1>3, <2>1
  <2>2. CASE i \in 1..k
    BY <1>2, <2>2 DEF Values
  <2> QED
    BY <2>1, <2>2
<1> HIDE DEF g
<1>6. Values(g, s, k + 1)
  BY <1>4, <1>5 DEF Values
<1> QED
  BY <1>6

\* The recursion in Value has a solution, and Value is the last of its values.
LEMMA ValueIsLast ==
  ASSUME NEW s \in Seq(Digits)
  PROVE  \E f : Values(f, s, Len(s)) /\ Value(s) = f[Len(s)]
<1> DEFINE n == Len(s)
           Has == {k \in Nat : k <= n => \E f : Values(f, s, k)}
<1>1. n \in Nat /\ \A i \in 1..n : s[i] \in Nat
  BY DEF Digits
<1>2. 0 \in Has
  <2>1. Values([i \in 0..0 |-> 0], s, 0)
    BY DEF Values
  <2> QED
    BY <2>1
<1>3. ASSUME NEW k \in Has PROVE k + 1 \in Has
  <2>1. k \in Nat
    OBVIOUS
  <2>2. ASSUME k + 1 <= n PROVE \E f : Values(f, s, k + 1)
    <3>1. k <= n /\ s[k + 1] \in Nat
      BY <1>1, <2>1, <2>2
    <3>2. PICK f : Values(f, s, k)
      BY <3>1
    <3> QED
      BY <2>1, <3>1, <3>2, ValuesExtend
  <2> QED
    BY <2>1, <2>2
<1>4. Has \in SUBSET Nat
  OBVIOUS
<1>5. n \in Has
  <2> HIDE DEF Has
  <2> QED
    BY <1>1, <1>2, <1>3, <1>4, CountingUp
<1>6. PICK f : Values(f, s, n)
  BY <1>1, <1>5
<1> DEFINE value[i \in 0..n] == IF i = 0 THEN 0 ELSE 10 * value[i - 1] + s[i]
<1>7. f = [i \in 0..n |-> IF i = 0 THEN 0 ELSE 10 * f[i - 1] + s[i]]
  BY <1>1, <1>6 DEF Values
<1>8. value = [i \in 0..n |-> IF i = 0 THEN 0 ELSE 10 * value[i - 1] + s[i]]
  BY <1>7
<1>9. Value(s) = value[n]
  BY DEF Value
<1> HIDE DEF value
<1>10. /\ \A k \in 1..n : value[k] = 10 * value[k - 1] + s[k]
       /\ value[0] = 0
  BY <1>1, <1>8
<1> DEFINE Typed == {k \in Nat : k <= n => value[k] \in Nat}
<1>11. 0 \in Typed
  BY <1>10
<1>12. ASSUME NEW k \in Typed PROVE k + 1 \in Typed
  <2>1. k \in Nat
    OBVIOUS
  <2>2. ASSUME k + 1 <= n PROVE value[k + 1] \in Nat
    <3>1. value[k] \in Nat /\ s[k + 1] \in Nat /\ value[k + 1] = 10 * value[k] + s[k + 1]
      BY <1>1, <1>10, <2>1, <2>2
    <3> QED
      BY <3>1
  <2> QED
    BY <2>1, <2>2
<1>13. Typed \in SUBSET Nat
  OBVIOUS
<1>14. \A k \in Nat : k \in Typed
  <2> HIDE DEF Typed
  <2> QED
    BY <1>11, <1>12, <1>13, CountingUp
<1>15. Values(value, s, n)
  <2>1. \A k \in 0..n : value[k] \in Nat
    BY <1>1, <1>14
  <2> QED
    BY <1>8, <1>10, <2>1 DEF Values
<1> QED
  BY <1>9, <1>15

\* A last digit does not make up for a difference before it.
LEMMA DifferenceStays ==
  ASSUME NEW m \in Nat, NEW n \in Nat, NEW x \in 0..9, NEW y \in 0..9,
         m < n \/ (m = n /\ x < y)
  PROVE  10 * m + x < 10 * n + y
OBVIOUS

\* What is larger after some digits is larger after all of them.
LEMMA LargerStays ==
  ASSUME NEW s \in Seq(Digits), NEW t \in Seq(Digits), NEW f, NEW g,
         Values(f, s, Len(s)), Values(g, t, Len(t)),
         NEW d \in Nat, Len(t) = Len(s) + d,
         NEW a \in 0..Len(s), f[a] < g[a + d]
  PROVE  f[Len(s)] < g[Len(t)]
<1> DEFINE Ahead == {k \in Nat : a + k <= Len(s) => f[a + k] < g[a + k + d]}
<1>1. Len(s) \in Nat /\ Len(t) \in Nat /\ a \in Nat /\ a <= Len(s)
  OBVIOUS
<1>2. 0 \in Ahead
  BY <1>1
<1>3. ASSUME NEW k \in Ahead PROVE k + 1 \in Ahead
  <2> DEFINE i == a + k + 1
             j == i + d
  <2>1. k \in Nat
    OBVIOUS
  <2>2. ASSUME i <= Len(s) PROVE f[i] < g[j]
    <3>1. /\ i \in 1..Len(s) /\ j \in 1..Len(t) /\ i - 1 = a + k /\ j - 1 = a + k + d
          /\ i - 1 \in 0..Len(s) /\ j - 1 \in 0..Len(t)
      BY <1>1, <2>1, <2>2
    <3>2. f[i - 1] < g[j - 1]
      BY <1>1, <2>1, <3>1
    <3> HIDE DEF i, j
    <3>3. /\ f[i] = 10 * f[i - 1] + s[i] /\ g[j] = 10 * g[j - 1] + t[j]
          /\ f[i - 1] \in Nat /\ g[j - 1] \in Nat
      BY <3>1 DEF Values
    <3>4. s[i] \in 0..9 /\ t[j] \in 0..9
      BY <3>1, SMTT(20) DEF Digits
    <3>5. 10 * f[i - 1] + s[i] < 10 * g[j - 1] + t[j]
      BY <3>2, <3>3, <3>4, DifferenceStays
    <3> QED
      BY <3>3, <3>5, Zenon
  <2> QED
    BY <1>1, <2>1, <2>2
<1>4. Ahead \in SUBSET Nat
  OBVIOUS
<1>5. Len(s) - a \in Ahead
  <2>1. \A k \in Nat : k \in Ahead
    <3> HIDE DEF Ahead
    <3> QED
      BY <1>2, <1>3, <1>4, CountingUp
  <2>2. Len(s) - a \in Nat
    BY <1>1
  <2> QED
    BY <2>1, <2>2, Zenon
<1> QED
  BY <1>1, <1>5

\* Texts with the same beginning have the same value so far.
LEMMA SameSoFar ==
  ASSUME NEW s, NEW t, NEW f, NEW g, NEW m \in Nat, NEW n \in Nat,
         Values(f, s, m), Values(g, t, n),
         NEW k \in Nat, k <= m, k <= n, \A i \in 1..k : s[i] = t[i]
  PROVE  f[k] = g[k]
<1> DEFINE Same == {i \in Nat : i <= k => f[i] = g[i]}
<1>1. 0 \in Same
  BY DEF Values
<1>2. ASSUME NEW i \in Same PROVE i + 1 \in Same
  <2>1. i \in Nat
    OBVIOUS
  <2>2. ASSUME i + 1 <= k PROVE f[i + 1] = g[i + 1]
    <3>1. /\ i + 1 \in 1..k /\ i + 1 \in 1..m /\ i + 1 \in 1..n /\ i + 1 - 1 = i
          /\ f[i] = g[i]
      BY <2>1, <2>2
    <3>2. f[i + 1] = 10 * f[i] + s[i + 1] /\ g[i + 1] = 10 * g[i] + t[i + 1]
      BY <3>1 DEF Values
    <3> QED
      BY <3>1, <3>2
  <2> QED
    BY <2>1, <2>2
<1>3. Same \in SUBSET Nat
  OBVIOUS
<1>4. k \in Same
  <2> HIDE DEF Same
  <2> QED
    BY <1>1, <1>2, <1>3, CountingUp
<1> QED
  BY <1>4

\* A number that does not begin with a zero is positive.
LEMMA ValueIsPositive ==
  ASSUME NEW t \in Seq(Digits), NEW g, Values(g, t, Len(t)), Len(t) > 0, t[1] # 0
  PROVE  \A k \in 1..Len(t) : g[k] > 0
<1> DEFINE Positive == {k \in Nat : k + 1 <= Len(t) => g[k + 1] > 0}
<1>1. Len(t) \in Nat /\ \A k \in 1..Len(t) : t[k] \in 0..9
  BY DEF Digits
<1>2. \A k \in 1..Len(t) : g[k] = 10 * g[k - 1] + t[k] /\ g[k - 1] \in Nat
  BY <1>1 DEF Values
<1>3. 0 \in Positive
  BY <1>1, <1>2 DEF Values
<1>4. ASSUME NEW k \in Positive PROVE k + 1 \in Positive
  <2>1. k \in Nat
    OBVIOUS
  <2>2. ASSUME k + 2 <= Len(t) PROVE g[k + 2] > 0
    <3>1. k + 2 \in 1..Len(t) /\ k + 2 - 1 = k + 1 /\ g[k + 1] > 0
      BY <1>1, <2>1, <2>2
    <3>2. g[k + 2] = 10 * g[k + 1] + t[k + 2] /\ g[k + 1] \in Nat /\ t[k + 2] \in 0..9
      BY <1>1, <1>2, <3>1
    <3> QED
      BY <3>1, <3>2, SMTT(20)
  <2> QED
    BY <1>1, <2>1, <2>2
<1>5. Positive \in SUBSET Nat
  OBVIOUS
<1>6. \A k \in Nat : k \in Positive
  <2> HIDE DEF Positive
  <2> QED
    BY <1>3, <1>4, <1>5, CountingUp
<1>7. ASSUME NEW k \in 1..Len(t) PROVE g[k] > 0
  <2>1. k - 1 \in Nat /\ k - 1 + 1 = k /\ k <= Len(t)
    BY <1>1
  <2> QED
    BY <1>6, <2>1
<1> QED
  BY <1>7

\* A longer number without leading zeros is a larger one.
LEMMA LongerIsLarger ==
  ASSUME NEW s \in Seq(Digits), NEW t \in Seq(Digits), s # <<>>, ~LeadingZero(t),
         Len(s) < Len(t)
  PROVE  Value(s) < Value(t)
<1>1. PICK f : Values(f, s, Len(s)) /\ Value(s) = f[Len(s)]
  BY ValueIsLast
<1>2. PICK g : Values(g, t, Len(t)) /\ Value(t) = g[Len(t)]
  BY ValueIsLast
<1>3. Len(s) \in Nat /\ Len(s) > 0 /\ Len(t) \in Nat
  OBVIOUS
<1>4. t[1] # 0
  BY <1>3 DEF LeadingZero
<1> DEFINE d == Len(t) - Len(s)
<1>5. d \in Nat /\ Len(t) = Len(s) + d /\ 0 + d \in 1..Len(t) /\ 0 \in 0..Len(s)
  BY <1>3
<1>6. f[0] < g[0 + d]
  <2>1. g[0 + d] > 0
    BY <1>2, <1>3, <1>4, <1>5, ValueIsPositive
  <2>2. f[0] = 0
    BY <1>1 DEF Values
  <2> QED
    BY <2>1, <2>2
<1> HIDE DEF d
<1> QED
  BY <1>1, <1>2, <1>5, <1>6, LargerStays

\* Of two numbers of the same length the first digit that differs decides.
LEMMA FirstDigitDecides ==
  ASSUME NEW s \in Seq(Digits), NEW t \in Seq(Digits), Len(s) = Len(t),
         NEW i \in 1..Len(s), \A j \in 1..i - 1 : s[j] = t[j], s[i] < t[i]
  PROVE  Value(s) < Value(t)
<1>1. PICK f : Values(f, s, Len(s)) /\ Value(s) = f[Len(s)]
  BY ValueIsLast
<1>2. PICK g : Values(g, t, Len(t)) /\ Value(t) = g[Len(t)]
  BY ValueIsLast
<1>3. /\ Len(s) \in Nat /\ Len(t) \in Nat /\ i - 1 \in Nat /\ i - 1 <= Len(s)
      /\ i \in 1..Len(t) /\ i \in 0..Len(s) /\ i + 0 = i /\ Len(t) = Len(s) + 0
  OBVIOUS
<1>4. f[i - 1] = g[i - 1]
  BY <1>1, <1>2, <1>3, SameSoFar
<1>5. s[i] \in 0..9 /\ t[i] \in 0..9
  BY <1>3 DEF Digits
<1>6. /\ f[i] = 10 * f[i - 1] + s[i] /\ g[i] = 10 * g[i - 1] + t[i]
      /\ f[i - 1] \in Nat /\ g[i - 1] \in Nat
  BY <1>1, <1>2, <1>3, SMTT(20) DEF Values
<1>7. f[i] < g[i + 0]
  <2>1. 10 * f[i - 1] + s[i] < 10 * g[i - 1] + t[i]
    BY <1>4, <1>5, <1>6, DifferenceStays
  <2> QED
    BY <1>3, <1>6, <2>1, Zenon
<1> QED
  BY <1>1, <1>2, <1>3, <1>7, LargerStays

-----------------------------------------------------------------------------
\* What a comparison can return.
Signs == {-1, 0, 1}

\* The loops return at the first position that differs, or at their end.
LEMMA FirstDecidesFacts ==
  ASSUME NEW n \in Nat, NEW signs \in [1..n -> Signs], NEW rest
  PROVE  \/ (\A i \in 1..n : signs[i] = 0) /\ FirstDecides(signs, rest) = rest
         \/ \E i \in 1..n : /\ signs[i] # 0 /\ \A j \in 1..i - 1 : signs[j] = 0
                            /\ FirstDecides(signs, rest) = signs[i]
<1> DEFINE decisive == {i \in DOMAIN signs : signs[i] # 0}
<1>1. decisive \in SUBSET Nat /\ \A i \in decisive : i \in 1..n /\ signs[i] # 0
  OBVIOUS
<1>2. \A i \in 1..n : signs[i] # 0 => i \in decisive
  OBVIOUS
<1>3. FirstDecides(signs, rest) = IF decisive = {} THEN rest ELSE signs[Min(decisive)]
  BY DEF FirstDecides
<1> HIDE DEF decisive
<1>4. CASE decisive = {}
  BY <1>2, <1>3, <1>4
<1>5. CASE decisive # {}
  <2>1. \E i \in decisive : \A j \in decisive : i <= j
    BY <1>1, <1>5, LeastNumber
  <2>2. Min(decisive) \in decisive /\ \A j \in decisive : Min(decisive) <= j
    BY <2>1 DEF Min
  <2>3. PICK i \in decisive : i = Min(decisive) /\ \A j \in decisive : i <= j
    BY <2>2
  <2>4. \A j \in 1..i - 1 : signs[j] = 0
    BY <1>1, <1>2, <2>3
  <2> QED
    BY <1>1, <1>3, <1>5, <2>3, <2>4
<1> QED
  BY <1>4, <1>5

\* a comes before b: where they first differ, a ends or the sign is d.
Precedes(a, b, signs, d) ==
  \E i \in 1..Len(b) : /\ \A j \in 1..i - 1 : j <= Len(a) /\ a[j] = b[j]
                       /\ i > Len(a) \/ signs[i] = d

\* r tells which of three cases it is.
Tells(r, before, after, same) == /\ r \in Signs
                                 /\ r = -1 <=> before
                                 /\ r = 1 <=> after
                                 /\ r = 0 <=> same

\* If they are the same as far as both go, the shorter one comes first.
LEMMA PrecedesAtEnd ==
  ASSUME NEW a, NEW b, NEW signs, NEW d, d # 0, Len(a) \in Nat, Len(b) \in Nat,
         \A i \in Nat : i \in 1..Len(a) /\ i \in 1..Len(b) => a[i] = b[i] /\ signs[i] = 0
  PROVE  Precedes(a, b, signs, d) <=> Len(a) < Len(b)
<1>1. ASSUME Precedes(a, b, signs, d) PROVE Len(a) < Len(b)
  <2>1. PICK i \in 1..Len(b) : i > Len(a) \/ signs[i] = d
    BY <1>1 DEF Precedes
  <2> QED
    BY <2>1
<1>2. ASSUME Len(a) < Len(b) PROVE Precedes(a, b, signs, d)
  <2> DEFINE i == Len(a) + 1
  <2>1. i \in 1..Len(b) /\ i > Len(a) /\ i - 1 = Len(a)
    BY <1>2
  <2>2. \A j \in 1..i - 1 : j <= Len(a) /\ a[j] = b[j]
    BY <1>2
  <2> HIDE DEF i
  <2> QED
    BY <2>1, <2>2 DEF Precedes
<1> QED
  BY <1>1, <1>2

\* If not, the sign of the first difference tells.
LEMMA PrecedesAtFirst ==
  ASSUME NEW a, NEW b, NEW signs, NEW d, d # 0, Len(a) \in Nat, Len(b) \in Nat,
         NEW i \in Nat, i \in 1..Len(a), i \in 1..Len(b), a[i] # b[i],
         \A j \in 1..i - 1 : a[j] = b[j] /\ signs[j] = 0
  PROVE  Precedes(a, b, signs, d) <=> signs[i] = d
<1>1. ASSUME Precedes(a, b, signs, d) PROVE signs[i] = d
  <2>1. PICK k \in 1..Len(b) : /\ \A j \in 1..k - 1 : j <= Len(a) /\ a[j] = b[j]
                               /\ k > Len(a) \/ signs[k] = d
    BY <1>1 DEF Precedes
  <2>2. ~(i < k)
    <3> SUFFICES ASSUME i < k PROVE FALSE
      OBVIOUS
    <3>1. i \in 1..k - 1
      OBVIOUS
    <3> QED
      BY <2>1, <3>1
  <2>3. signs[k] = d
    BY <2>1, <2>2
  <2>4. ~(k < i)
    <3> SUFFICES ASSUME k < i PROVE FALSE
      OBVIOUS
    <3>1. k \in 1..i - 1
      OBVIOUS
    <3> QED
      BY <2>3, <3>1
  <2>5. k = i
    BY <2>2, <2>4
  <2> QED
    BY <2>3, <2>5
<1>2. ASSUME signs[i] = d PROVE Precedes(a, b, signs, d)
  <2>1. \A j \in 1..i - 1 : j <= Len(a) /\ a[j] = b[j]
    OBVIOUS
  <2> QED
    BY <1>2, <2>1 DEF Precedes
<1> QED
  BY <1>1, <1>2

\* The common positions are those of the shorter one.
LEMMA CommonIs ==
  ASSUME NEW a, NEW b, Len(a) \in Nat, Len(b) \in Nat
  PROVE  \E n \in Nat : /\ Common(a, b) = 1..n /\ n \in {Len(a), Len(b)}
                        /\ n <= Len(a) /\ n <= Len(b)
<1> DEFINE n == IF Len(a) <= Len(b) THEN Len(a) ELSE Len(b)
<1>1. n \in {Len(a), Len(b)} /\ n \in Nat /\ \A m \in {Len(a), Len(b)} : n <= m
  OBVIOUS
<1>2. Min({Len(a), Len(b)}) = n
  BY <1>1 DEF Min
<1> QED
  BY <1>1, <1>2 DEF Common

\* The signs tell different elements apart.
SignsOf(a, b, signs) == /\ signs \in [Common(a, b) -> Signs]
                        /\ \A i \in Common(a, b) : signs[i] = 0 <=> a[i] = b[i]

\* The order of two lists of anything.
LEMMA ListOrder ==
  ASSUME NEW X, NEW a \in Seq(X), NEW b \in Seq(X), NEW signs, SignsOf(a, b, signs)
  PROVE  Tells(FirstDecides(signs, Sign(Len(a), Len(b))),
               Precedes(a, b, signs, -1), Precedes(b, a, signs, 1), a = b)
<1> DEFINE rest == Sign(Len(a), Len(b))
           r == FirstDecides(signs, rest)
<1>1. Len(a) \in Nat /\ Len(b) \in Nat
  OBVIOUS
<1>2. PICK n \in Nat : /\ Common(a, b) = 1..n /\ n \in {Len(a), Len(b)}
                       /\ n <= Len(a) /\ n <= Len(b)
  BY <1>1, CommonIs
<1>3. /\ signs \in [1..n -> Signs]
      /\ \A i \in 1..n : (signs[i] = 0 <=> a[i] = b[i]) /\ signs[i] \in Signs
  BY <1>2 DEF SignsOf
<1>4. rest \in Signs /\ (rest = -1 <=> Len(a) < Len(b)) /\ (rest = 1 <=> Len(b) < Len(a))
  BY <1>1 DEF Sign, Signs
<1> HIDE DEF rest
<1>5. \/ (\A i \in 1..n : signs[i] = 0) /\ r = rest
      \/ \E i \in 1..n : /\ signs[i] # 0 /\ \A j \in 1..i - 1 : signs[j] = 0
                         /\ r = signs[i]
  BY <1>3, FirstDecidesFacts, SMTT(20)
<1> HIDE DEF r
<1> DEFINE Goal == Tells(r, Precedes(a, b, signs, -1), Precedes(b, a, signs, 1), a = b)
<1>6. ASSUME \A i \in 1..n : signs[i] = 0, r = rest PROVE Goal
  <2>1. \A i \in Nat : i \in 1..Len(a) /\ i \in 1..Len(b) => a[i] = b[i] /\ signs[i] = 0
    BY <1>1, <1>2, <1>3, <1>6
  <2>2. /\ Precedes(a, b, signs, -1) <=> Len(a) < Len(b)
        /\ Precedes(b, a, signs, 1) <=> Len(b) < Len(a)
    BY <1>1, <2>1, PrecedesAtEnd
  <2>3. r = 0 <=> a = b
    <3>1. ASSUME r = 0 PROVE a = b
      <4>1. Len(a) = Len(b)
        BY <1>1, <1>4, <1>6, <3>1
      <4>2. \A i \in 1..Len(a) : a[i] = b[i]
        BY <1>1, <2>1, <4>1
      <4> QED
        BY <1>1, <4>1, <4>2
    <3>2. ASSUME a = b PROVE r = 0
      BY <1>1, <1>4, <1>6, <3>2 DEF Signs
    <3> QED
      BY <3>1, <3>2
  <2> QED
    BY <1>4, <1>6, <2>2, <2>3 DEF Tells
<1>7. ASSUME NEW i \in 1..n, signs[i] # 0, \A j \in 1..i - 1 : signs[j] = 0, r = signs[i]
      PROVE  Goal
  <2>1. /\ i \in Nat /\ i \in 1..Len(a) /\ i \in 1..Len(b) /\ a[i] # b[i] /\ r \in Signs
        /\ \A j \in 1..i - 1 : a[j] = b[j] /\ b[j] = a[j] /\ signs[j] = 0
    BY <1>1, <1>2, <1>3, <1>7
  <2>2. (Precedes(a, b, signs, -1) <=> r = -1) /\ (Precedes(b, a, signs, 1) <=> r = 1)
    BY <1>1, <1>7, <2>1, PrecedesAtFirst
  <2>3. r # 0 /\ a # b
    BY <1>7, <2>1
  <2> QED
    BY <2>1, <2>2, <2>3 DEF Tells
<1>8. Goal
  <2>1. CASE \E i \in 1..n : /\ signs[i] # 0 /\ \A j \in 1..i - 1 : signs[j] = 0
                             /\ r = signs[i]
    <3>1. PICK i \in 1..n : signs[i] # 0 /\ (\A j \in 1..i - 1 : signs[j] = 0) /\ r = signs[i]
      BY <2>1
    <3> HIDE DEF Goal
    <3> QED
      BY <1>7, <3>1, Zenon
  <2> HIDE DEF Goal
  <2> QED
    BY <1>5, <1>6, <2>1, Zenon
<1> QED
  BY <1>8 DEF r, rest

-----------------------------------------------------------------------------
\* CompareText orders texts.
LEMMA TextOrder ==
  ASSUME NEW a \in Seq(Int), NEW b \in Seq(Int)
  PROVE  Tells(CompareText(a, b), TextBefore(a, b), TextBefore(b, a), a = b)
<1> DEFINE signs == [i \in Common(a, b) |-> Sign(a[i], b[i])]
<1>1. /\ Len(a) \in Nat /\ Len(b) \in Nat
      /\ \A i \in 1..Len(a) : a[i] \in Int
      /\ \A i \in 1..Len(b) : b[i] \in Int
  OBVIOUS
<1>2. PICK n \in Nat : /\ Common(a, b) = 1..n /\ n \in {Len(a), Len(b)}
                       /\ n <= Len(a) /\ n <= Len(b)
  BY <1>1, CommonIs
<1>3. \A i \in 1..n : a[i] \in Int /\ b[i] \in Int
  BY <1>1, <1>2
<1>4. SignsOf(a, b, signs)
  BY <1>2, <1>3 DEF SignsOf, Sign, Signs
<1>5. CompareText(a, b) = FirstDecides(signs, Sign(Len(a), Len(b)))
  BY DEF CompareText
<1>6. \A i \in 1..n : (signs[i] = -1 <=> a[i] < b[i]) /\ (signs[i] = 1 <=> b[i] < a[i])
  BY <1>2, <1>3 DEF Sign
<1> HIDE DEF signs
<1>7. TextBefore(a, b) <=> Precedes(a, b, signs, -1)
  <2>1. \A i \in 1..Len(b) : i > Len(a) \/ signs[i] = -1 <=> i > Len(a) \/ a[i] < b[i]
    BY <1>1, <1>2, <1>6
  <2> QED
    BY <2>1 DEF TextBefore, Precedes
<1>8. TextBefore(b, a) <=> Precedes(b, a, signs, 1)
  <2>1. \A i \in 1..Len(a) : i > Len(b) \/ signs[i] = 1 <=> i > Len(b) \/ b[i] < a[i]
    BY <1>1, <1>2, <1>6
  <2> QED
    BY <2>1 DEF TextBefore, Precedes
<1>9. Tells(CompareText(a, b), Precedes(a, b, signs, -1), Precedes(b, a, signs, 1), a = b)
  BY <1>4, <1>5, ListOrder
<1> QED
  BY <1>7, <1>8, <1>9 DEF Tells

\* An identifier is a list of codes.
LEMMA IdentifierType ==
  ASSUME NEW s \in Identifier
  PROVE  s \in Seq(Int)
<1> DEFINE C == {Hyphen} \cup Digits \cup Letters
<1>1. C \subseteq Int
  BY DEF Hyphen, Digits, Letters
<1>2. s \in Seq(C)
  BY DEF Identifier
<1> HIDE DEF C
<1>3. Len(s) \in Nat /\ s \in [1..Len(s) -> C]
  BY <1>2
<1>4. s \in [1..Len(s) -> Int]
  BY <1>1, <1>3
<1> QED
  BY <1>3, <1>4

\* A number is a list of digits and has a value.
LEMMA NumberType ==
  ASSUME NEW s \in Identifier, isDigits(s)
  PROVE  s \in Seq(Digits) /\ s # <<>> /\ Len(s) \in Nat /\ Value(s) \in Nat
<1>1. /\ Len(s) \in Nat /\ s \in [1..Len(s) -> {Hyphen} \cup Digits \cup Letters]
      /\ \A i \in 1..Len(s) : s[i] \in Digits
  BY DEF Identifier, isDigits
<1>2. s \in [1..Len(s) -> Digits]
  BY <1>1
<1>3. s \in Seq(Digits)
  BY <1>1, <1>2
<1>4. PICK f : Values(f, s, Len(s)) /\ Value(s) = f[Len(s)]
  BY <1>3, ValueIsLast
<1> QED
  BY <1>1, <1>3, <1>4 DEF Values, isDigits

\* Numbers without leading zeros compare as their values, and have only one notation.
LEMMA NumberOrder ==
  ASSUME NEW a \in Identifier, isDigits(a), ~LeadingZero(a),
         NEW b \in Identifier, isDigits(b), ~LeadingZero(b)
  PROVE  /\ compareNumericIdentifier(a, b) = Sign(Value(a), Value(b))
         /\ Value(a) = Value(b) <=> a = b
<1>1. /\ a \in Seq(Digits) /\ a # <<>> /\ Len(a) \in Nat /\ Value(a) \in Nat
      /\ b \in Seq(Digits) /\ b # <<>> /\ Len(b) \in Nat /\ Value(b) \in Nat
  BY NumberType
<1>2. CASE Len(a) < Len(b)
  <2>1. Value(a) < Value(b)
    BY <1>1, <1>2, LongerIsLarger
  <2> QED
    BY <1>1, <1>2, <2>1 DEF compareNumericIdentifier, Sign
<1>3. CASE Len(b) < Len(a)
  <2>1. Value(b) < Value(a)
    BY <1>1, <1>3, LongerIsLarger
  <2> QED
    BY <1>1, <1>3, <2>1 DEF compareNumericIdentifier, Sign
<1>4. CASE Len(a) = Len(b)
  <2>1. compareNumericIdentifier(a, b) = CompareText(a, b)
    BY <1>4 DEF compareNumericIdentifier
  <2>2. a \in Seq(Int) /\ b \in Seq(Int)
    BY IdentifierType
  <2>3. TextBefore(a, b) => Value(a) < Value(b)
    <3> SUFFICES ASSUME TextBefore(a, b) PROVE Value(a) < Value(b)
      OBVIOUS
    <3>1. PICK i \in 1..Len(a) : (\A j \in 1..i - 1 : a[j] = b[j]) /\ a[i] < b[i]
      BY <1>1, <1>4 DEF TextBefore
    <3> QED
      BY <1>1, <1>4, <3>1, FirstDigitDecides
  <2>4. TextBefore(b, a) => Value(b) < Value(a)
    <3> SUFFICES ASSUME TextBefore(b, a) PROVE Value(b) < Value(a)
      OBVIOUS
    <3>1. PICK i \in 1..Len(b) : (\A j \in 1..i - 1 : b[j] = a[j]) /\ b[i] < a[i]
      BY <1>1, <1>4 DEF TextBefore
    <3> QED
      BY <1>1, <1>4, <3>1, FirstDigitDecides
  <2>5. Tells(CompareText(a, b), TextBefore(a, b), TextBefore(b, a), a = b)
    BY <2>2, TextOrder
  <2> QED
    BY <1>1, <2>1, <2>3, <2>4, <2>5 DEF Tells, Sign, Signs
<1> QED
  BY <1>1, <1>2, <1>3, <1>4

\* What a pre-release may consist of.
Name(s) == s \in Identifier /\ s # <<>> /\ ~(isDigits(s) /\ LeadingZero(s))

\* CompareIdentifiers orders them.
LEMMA NameOrder ==
  ASSUME NEW a, Name(a), NEW b, Name(b)
  PROVE  Tells(CompareIdentifiers(a, b), NameBefore(a, b), NameBefore(b, a), a = b)
<1>1. CASE isDigits(a) /\ isDigits(b)
  <2>1. /\ compareNumericIdentifier(a, b) = Sign(Value(a), Value(b))
        /\ Value(a) = Value(b) <=> a = b
    BY <1>1, NumberOrder DEF Name
  <2>2. Value(a) \in Nat /\ Value(b) \in Nat
    BY <1>1, NumberType DEF Name
  <2>3. CompareIdentifiers(a, b) = Sign(Value(a), Value(b))
    BY <1>1, <2>1 DEF CompareIdentifiers
  <2>4. /\ NameBefore(a, b) <=> Value(a) < Value(b)
        /\ NameBefore(b, a) <=> Value(b) < Value(a)
    BY <1>1 DEF NameBefore
  <2> QED
    BY <2>1, <2>2, <2>3, <2>4 DEF Sign, Signs, Tells
<1>2. CASE isDigits(a) /\ ~isDigits(b)
  BY <1>2 DEF CompareIdentifiers, NameBefore, Signs, Tells
<1>3. CASE ~isDigits(a) /\ isDigits(b)
  BY <1>3 DEF CompareIdentifiers, NameBefore, Signs, Tells
<1>4. CASE ~isDigits(a) /\ ~isDigits(b)
  <2>1. a \in Seq(Int) /\ b \in Seq(Int)
    BY IdentifierType DEF Name
  <2>2. CompareIdentifiers(a, b) = CompareText(a, b)
    BY <1>4 DEF CompareIdentifiers
  <2>3. (NameBefore(a, b) <=> TextBefore(a, b)) /\ (NameBefore(b, a) <=> TextBefore(b, a))
    BY <1>4 DEF NameBefore
  <2> QED
    BY <2>1, <2>2, <2>3, TextOrder DEF Tells
<1> QED
  BY <1>1, <1>2, <1>3, <1>4

-----------------------------------------------------------------------------
\* The first step of CompareVersions orders the cores.
LEMMA CoreOrder ==
  ASSUME NEW v \in Version, Parses(v), NEW w \in Version, Parses(w)
  PROVE  LET signs == [i \in 1..3 |-> compareNumericIdentifier(v.core[i], w.core[i])]
         IN  Tells(FirstDecides(signs, 0), CoreBefore(v, w), CoreBefore(w, v), SameCore(v, w))
<1> DEFINE signs == [i \in 1..3 |-> compareNumericIdentifier(v.core[i], w.core[i])]
           core == FirstDecides(signs, 0)
           x == [i \in 1..3 |-> Value(v.core[i])]
           y == [i \in 1..3 |-> Value(w.core[i])]
<1>1. ASSUME NEW i \in 1..3
      PROVE  x[i] \in Nat /\ y[i] \in Nat /\ signs[i] = Sign(x[i], y[i])
  <2>1. /\ v.core[i] \in Identifier /\ isDigits(v.core[i]) /\ ~LeadingZero(v.core[i])
        /\ w.core[i] \in Identifier /\ isDigits(w.core[i]) /\ ~LeadingZero(w.core[i])
    BY DEF Version, Parses
  <2> QED
    BY <2>1, NumberType, NumberOrder
<1>2. /\ SameCore(v, w) <=> \A i \in 1..3 : x[i] = y[i]
      /\ CoreBefore(v, w) <=> \E i \in 1..3 : (\A j \in 1..(i - 1) : x[j] = y[j]) /\ x[i] < y[i]
      /\ CoreBefore(w, v) <=> \E i \in 1..3 : (\A j \in 1..(i - 1) : x[j] = y[j]) /\ y[i] < x[i]
  BY DEF SameCore, CoreBefore
<1>3. signs \in [1..3 -> Signs]
  BY <1>1 DEF Sign, Signs
<1> HIDE DEF signs, x, y
<1>4. \/ (\A i \in 1..3 : signs[i] = 0) /\ core = 0
      \/ \E i \in 1..3 : /\ signs[i] # 0 /\ \A j \in 1..i - 1 : signs[j] = 0
                         /\ core = signs[i]
  <2> DEFINE n == 3
  <2>1. n \in Nat /\ signs \in [1..n -> Signs]
    BY <1>3
  <2> HIDE DEF n
  <2>2. \/ (\A i \in 1..n : signs[i] = 0) /\ FirstDecides(signs, 0) = 0
        \/ \E i \in 1..n : /\ signs[i] # 0 /\ \A j \in 1..i - 1 : signs[j] = 0
                           /\ FirstDecides(signs, 0) = signs[i]
    BY <2>1, FirstDecidesFacts
  <2> QED
    BY <2>2, Zenon DEF n
<1> HIDE DEF core
<1>5. \A i \in 1..3 : /\ signs[i] = 0 <=> x[i] = y[i]
                      /\ signs[i] = -1 <=> x[i] < y[i]
                      /\ signs[i] = 1 <=> y[i] < x[i]
                      /\ signs[i] \in Signs
  BY <1>1, <1>3 DEF Sign
<1>6. Tells(core, CoreBefore(v, w), CoreBefore(w, v), SameCore(v, w))
  <2>1. ASSUME \A i \in 1..3 : signs[i] = 0, core = 0
        PROVE  core = 0 /\ SameCore(v, w) /\ ~CoreBefore(v, w) /\ ~CoreBefore(w, v)
    BY <1>2, <1>5, <2>1
  <2>2. ASSUME NEW i \in 1..3, signs[i] # 0, \A j \in 1..i - 1 : signs[j] = 0, core = signs[i]
        PROVE  /\ core \in {-1, 1} /\ ~SameCore(v, w)
               /\ core = -1 <=> CoreBefore(v, w)
               /\ core = 1 <=> CoreBefore(w, v)
    BY <1>2, <1>5, <2>2 DEF Signs
  <2> QED
    BY <1>4, <2>1, <2>2 DEF Tells, Signs
<1> QED
  BY <1>6 DEF core, signs

\* The last step of CompareVersions orders two pre-releases.
LEMMA PreOrder ==
  ASSUME NEW v \in Version, Parses(v), NEW w \in Version, Parses(w),
         v.pre # <<>>, w.pre # <<>>
  PROVE  LET signs == [i \in Common(v.pre, w.pre) |-> CompareIdentifiers(v.pre[i], w.pre[i])]
         IN  Tells(FirstDecides(signs, Sign(Len(v.pre), Len(w.pre))),
                   PreBefore(v, w), PreBefore(w, v), v.pre = w.pre)
<1> DEFINE a == v.pre
           b == w.pre
           signs == [i \in Common(a, b) |-> CompareIdentifiers(a[i], b[i])]
<1>1. /\ a \in Seq(Identifier) /\ b \in Seq(Identifier)
      /\ a # <<>> /\ b # <<>>
      /\ \A i \in 1..Len(a) : a[i] # <<>> /\ ~(isDigits(a[i]) /\ LeadingZero(a[i]))
      /\ \A i \in 1..Len(b) : b[i] # <<>> /\ ~(isDigits(b[i]) /\ LeadingZero(b[i]))
  BY DEF Version, Parses
<1>2. /\ PreBefore(v, w) <=> \E i \in 1..Len(b) : /\ \A j \in 1..(i - 1) : j <= Len(a) /\ a[j] = b[j]
                                                  /\ i > Len(a) \/ NameBefore(a[i], b[i])
      /\ PreBefore(w, v) <=> \E i \in 1..Len(a) : /\ \A j \in 1..(i - 1) : j <= Len(b) /\ b[j] = a[j]
                                                  /\ i > Len(b) \/ NameBefore(b[i], a[i])
  BY DEF PreBefore
<1> HIDE DEF a, b
<1>3. /\ Len(a) \in Nat /\ Len(b) \in Nat
      /\ \A i \in 1..Len(a) : Name(a[i])
      /\ \A i \in 1..Len(b) : Name(b[i])
  BY <1>1 DEF Name
<1>4. PICK n \in Nat : /\ Common(a, b) = 1..n /\ n \in {Len(a), Len(b)}
                       /\ n <= Len(a) /\ n <= Len(b)
  BY <1>3, CommonIs
<1>5. ASSUME NEW i \in 1..n
      PROVE  Tells(signs[i], NameBefore(a[i], b[i]), NameBefore(b[i], a[i]), a[i] = b[i])
  <2>1. Name(a[i]) /\ Name(b[i])
    BY <1>3, <1>4
  <2> QED
    BY <1>4, <2>1, NameOrder
<1>6. SignsOf(a, b, signs)
  BY <1>4, <1>5 DEF SignsOf, Tells
<1> HIDE DEF signs
<1>7. PreBefore(v, w) <=> Precedes(a, b, signs, -1)
  <2>1. \A i \in 1..Len(b) : i > Len(a) \/ signs[i] = -1 <=> i > Len(a) \/ NameBefore(a[i], b[i])
    BY <1>3, <1>4, <1>5 DEF Tells
  <2> QED
    BY <1>2, <2>1 DEF Precedes
<1>8. PreBefore(w, v) <=> Precedes(b, a, signs, 1)
  <2>1. \A i \in 1..Len(a) : i > Len(b) \/ signs[i] = 1 <=> i > Len(b) \/ NameBefore(b[i], a[i])
    BY <1>3, <1>4, <1>5 DEF Tells
  <2> QED
    BY <1>2, <2>1 DEF Precedes
<1>9. Tells(FirstDecides(signs, Sign(Len(a), Len(b))),
            Precedes(a, b, signs, -1), Precedes(b, a, signs, 1), a = b)
  BY <1>1, <1>6, ListOrder
<1>10. Tells(FirstDecides(signs, Sign(Len(a), Len(b))), PreBefore(v, w), PreBefore(w, v), a = b)
  BY <1>7, <1>8, <1>9 DEF Tells
<1> QED
  BY <1>10 DEF a, b, signs

\* CompareVersions is the precedence of Semantic Versioning, for any two versions that
\* parse, whatever the length of their numbers and lists.
LEMMA VersionOrder ==
  ASSUME NEW v \in Version, Parses(v), NEW w \in Version, Parses(w)
  PROVE  CompareVersions(v, w) = IF Before(v, w) THEN -1 ELSE IF Before(w, v) THEN 1 ELSE 0
<1> DEFINE cores == [i \in 1..3 |-> compareNumericIdentifier(v.core[i], w.core[i])]
           core == FirstDecides(cores, 0)
           signs == [i \in Common(v.pre, w.pre) |-> CompareIdentifiers(v.pre[i], w.pre[i])]
           pre == IF v.pre = <<>> \/ w.pre = <<>> THEN Sign(Len(w.pre), Len(v.pre))
                  ELSE FirstDecides(signs, Sign(Len(v.pre), Len(w.pre)))
<1>1. CompareVersions(v, w) = IF core # 0 THEN core ELSE pre
  BY DEF CompareVersions
<1>2. Tells(core, CoreBefore(v, w), CoreBefore(w, v), SameCore(v, w))
  BY CoreOrder
<1>3. SameCore(w, v) <=> SameCore(v, w)
  BY DEF SameCore
<1>4. pre \in Signs /\ (pre = -1 <=> PreBefore(v, w)) /\ (pre = 1 <=> PreBefore(w, v))
  <2>1. CASE v.pre # <<>> /\ w.pre # <<>>
    <3>1. Tells(FirstDecides(signs, Sign(Len(v.pre), Len(w.pre))),
                PreBefore(v, w), PreBefore(w, v), v.pre = w.pre)
      BY <2>1, PreOrder
    <3> HIDE DEF signs
    <3> QED
      BY <2>1, <3>1 DEF Tells
  <2>2. CASE v.pre = <<>> \/ w.pre = <<>>
    <3>1. v.pre \in Seq(Identifier) /\ w.pre \in Seq(Identifier)
      BY DEF Version
    <3>2. /\ Len(v.pre) \in Nat /\ Len(w.pre) \in Nat
          /\ v.pre = <<>> <=> Len(v.pre) = 0
          /\ w.pre = <<>> <=> Len(w.pre) = 0
      BY <3>1
    <3>3. pre = Sign(Len(w.pre), Len(v.pre))
      BY <2>2
    <3>4. /\ PreBefore(v, w) <=> v.pre # <<>> /\ w.pre = <<>>
          /\ PreBefore(w, v) <=> w.pre # <<>> /\ v.pre = <<>>
      BY <2>2, <3>2 DEF PreBefore
    <3> HIDE DEF pre
    <3> QED
      BY <2>2, <3>2, <3>3, <3>4 DEF Sign, Signs
  <2> QED
    BY <2>1, <2>2
<1> HIDE DEF core, pre
<1> QED
  BY <1>1, <1>2, <1>3, <1>4 DEF Tells, Signs, Before

\* The comparison by which the updater tells a newer version is the precedence of Semantic
\* Versioning: for any two versions that parse, whatever the length of their numbers and of
\* their pre-releases.
THEOREM ComparisonCorrect == Spec => []ComparisonIsPrecedence
<1>1. ComparisonIsPrecedence
  <2> SUFFICES ASSUME NEW a \in Versions, NEW b \in Versions
               PROVE  CompareVersions(a, b) = IF Before(a, b) THEN -1
                                              ELSE IF Before(b, a) THEN 1 ELSE 0
    BY DEF ComparisonIsPrecedence
  <2> QED
    BY VersionAssumption, VersionOrder
<1> QED
  BY <1>1, PTL

\* So an updater that is alone, without --allow-downgrade, moves the link to a release of
\* a higher precedence only: never to another build of the same version.
THEOREM SwitchRaisesPrecedence ==
  ASSUME NEW CONSTANT only, Updaters = {only}
  PROVE  Spec => [][\A u \in Updaters : At(u, "switch") /\ At(u, "restart")' /\ ~forced[u]
                      => Before(VersionOf[current], VersionOf[current'])]_vars
<1> DEFINE Forward == \A u \in Updaters : At(u, "switch") /\ At(u, "restart")' /\ ~forced[u]
                         => Newer(current, current')
           Higher == \A u \in Updaters : At(u, "switch") /\ At(u, "restart")' /\ ~forced[u]
                         => Before(VersionOf[current], VersionOf[current'])
<1>1. Inv /\ Inv' /\ [Forward]_vars => [Higher]_vars
  <2>1. ASSUME NEW r \in Releases, NEW q \in Releases, Newer(r, q)
        PROVE  Before(VersionOf[r], VersionOf[q])
    <3>1. CompareVersions(VersionOf[r], VersionOf[q]) = -1
      BY <2>1 DEF Newer, Upgrades
    <3>2. /\ VersionOf[r] \in Version /\ Parses(VersionOf[r])
          /\ VersionOf[q] \in Version /\ Parses(VersionOf[q])
      BY VersionAssumption
    <3> QED
      BY <3>1, <3>2, VersionOrder
  <2>2. Inv /\ Inv' => current \in Releases /\ current' \in Releases
    BY DEF Inv, TypeOK
  <2> QED
    BY <2>1, <2>2
<1>2. Spec => [][Forward]_vars
  BY NoDowngradeAlone DEF NoSilentDowngrade
<1> QED
  BY <1>1, <1>2, UpdaterInvariant, PTL

-----------------------------------------------------------------------------
(***************************************************************************)
(* Versions that follow each other: the precedence is a strict order.      *)
(***************************************************************************)
\* As Precedes, L the positions where the element of a is the smaller one.
Leads(a, b, L) == \E i \in 1..Len(b) : /\ \A j \in 1..(i - 1) : j <= Len(a) /\ a[j] = b[j]
                                       /\ i > Len(a) \/ i \in L

\* The earlier of the two positions that decide is the one that decides for the ends.
LEMMA LeadsOn ==
  ASSUME NEW a, NEW b, NEW c, Len(a) \in Nat, Len(b) \in Nat, Len(c) \in Nat,
         NEW L, NEW M, NEW K, Leads(a, b, L), Leads(b, c, M),
         \A i \in Nat : i \in 1..Len(a) /\ i \in 1..Len(b) /\ i \in 1..Len(c) =>
           /\ i \in L /\ (i \in M \/ b[i] = c[i]) => i \in K
           /\ a[i] = b[i] /\ i \in M => i \in K
  PROVE  Leads(a, c, K)
<1>1. PICK i \in 1..Len(b) : /\ \A j \in 1..(i - 1) : j <= Len(a) /\ a[j] = b[j]
                             /\ i > Len(a) \/ i \in L
  BY DEF Leads
<1>2. PICK k \in 1..Len(c) : /\ \A j \in 1..(k - 1) : j <= Len(b) /\ b[j] = c[j]
                             /\ k > Len(b) \/ k \in M
  BY DEF Leads
<1>3. i \in Nat /\ k \in Nat
  OBVIOUS
<1>4. CASE i < k
  <2>1. i \in 1..Len(c) /\ i \in 1..(k - 1) /\ \A j \in 1..(i - 1) : j \in 1..(k - 1)
    BY <1>4
  <2>2. \A j \in 1..(i - 1) : j <= Len(a) /\ a[j] = c[j]
    BY <1>1, <1>2, <2>1
  <2>3. i > Len(a) \/ i \in K
    BY <1>1, <1>2, <2>1
  <2> QED
    BY <2>1, <2>2, <2>3 DEF Leads
<1>5. CASE k <= i
  <2>1. k <= Len(b) /\ \A j \in 1..(k - 1) : j \in 1..(i - 1)
    BY <1>5
  <2>2. \A j \in 1..(k - 1) : j <= Len(a) /\ a[j] = c[j]
    BY <1>1, <1>2, <2>1
  <2>3. k \in M
    BY <1>2, <2>1
  <2>4. k > Len(a) \/ k \in K
    <3>1. CASE k = i
      BY <1>1, <2>3, <3>1
    <3>2. CASE k < i
      <4>1. k \in 1..(i - 1)
        BY <3>2
      <4> QED
        BY <1>1, <2>3, <4>1
    <3> QED
      BY <1>5, <3>1, <3>2
  <2> QED
    BY <2>2, <2>4 DEF Leads
<1> QED
  BY <1>3, <1>4, <1>5

\* Texts: the order of their first different character, a beginning before what extends it.
LEMMA TextsFollow ==
  ASSUME NEW a \in Seq(Int), NEW b \in Seq(Int), NEW c \in Seq(Int),
         TextBefore(a, b), TextBefore(b, c)
  PROVE  TextBefore(a, c)
<1> DEFINE L == {i \in 1..Len(b) : a[i] < b[i]}
           M == {i \in 1..Len(c) : b[i] < c[i]}
           K == {i \in 1..Len(c) : a[i] < c[i]}
<1>1. /\ Len(a) \in Nat /\ Len(b) \in Nat /\ Len(c) \in Nat
      /\ \A i \in 1..Len(a) : a[i] \in Int
      /\ \A i \in 1..Len(b) : b[i] \in Int
      /\ \A i \in 1..Len(c) : c[i] \in Int
  OBVIOUS
<1>2. /\ TextBefore(a, b) <=> Leads(a, b, L)
      /\ TextBefore(b, c) <=> Leads(b, c, M)
      /\ TextBefore(a, c) <=> Leads(a, c, K)
  BY DEF TextBefore, Leads
<1>3. ASSUME NEW i \in Nat, i \in 1..Len(a), i \in 1..Len(b), i \in 1..Len(c)
      PROVE  /\ i \in L /\ (i \in M \/ b[i] = c[i]) => i \in K
             /\ a[i] = b[i] /\ i \in M => i \in K
  <2>1. a[i] \in Int /\ b[i] \in Int /\ c[i] \in Int
    BY <1>1, <1>3
  <2> QED
    BY <1>3, <2>1
<1> HIDE DEF L, M, K
<1> QED
  BY <1>1, <1>2, <1>3, LeadsOn

\* Identifiers of a pre-release: the numbers by value, the numbers before the others.
LEMMA NamesFollow ==
  ASSUME NEW a, Name(a), NEW b, Name(b), NEW c, Name(c),
         NameBefore(a, b), NameBefore(b, c)
  PROVE  NameBefore(a, c)
<1>1. CASE isDigits(a) /\ isDigits(b) /\ isDigits(c)
  <2>1. Value(a) \in Nat /\ Value(b) \in Nat /\ Value(c) \in Nat
    BY <1>1, NumberType DEF Name
  <2>2. Value(a) < Value(b) /\ Value(b) < Value(c)
    BY <1>1 DEF NameBefore
  <2> QED
    BY <1>1, <2>1, <2>2 DEF NameBefore
<1>2. CASE isDigits(a) /\ ~isDigits(c)
  BY <1>2 DEF NameBefore
<1>3. CASE ~isDigits(a)
  <2>1. /\ ~isDigits(b) /\ ~isDigits(c) /\ TextBefore(a, b) /\ TextBefore(b, c)
    BY <1>3 DEF NameBefore
  <2>2. a \in Seq(Int) /\ b \in Seq(Int) /\ c \in Seq(Int)
    BY IdentifierType DEF Name
  <2>3. TextBefore(a, c)
    BY <2>1, <2>2, TextsFollow
  <2> QED
    BY <1>3, <2>1, <2>3 DEF NameBefore
<1>4. CASE isDigits(a) /\ ~isDigits(b) /\ isDigits(c)
  BY <1>4 DEF NameBefore
<1> QED
  BY <1>1, <1>2, <1>3, <1>4

\* Pre-releases: identifier by identifier, and any of them before none.
LEMMA PresFollow ==
  ASSUME NEW u \in Version, Parses(u), NEW v \in Version, Parses(v), NEW w \in Version, Parses(w),
         PreBefore(u, v), PreBefore(v, w)
  PROVE  PreBefore(u, w)
<1> DEFINE a == u.pre
           b == v.pre
           c == w.pre
<1>1. /\ a \in Seq(Identifier) /\ b \in Seq(Identifier) /\ c \in Seq(Identifier)
      /\ \A i \in 1..Len(a) : a[i] # <<>> /\ ~(isDigits(a[i]) /\ LeadingZero(a[i]))
      /\ \A i \in 1..Len(b) : b[i] # <<>> /\ ~(isDigits(b[i]) /\ LeadingZero(b[i]))
      /\ \A i \in 1..Len(c) : c[i] # <<>> /\ ~(isDigits(c[i]) /\ LeadingZero(c[i]))
  BY DEF Version, Parses
<1> DEFINE L == {i \in 1..Len(b) : NameBefore(a[i], b[i])}
           M == {i \in 1..Len(c) : NameBefore(b[i], c[i])}
           K == {i \in 1..Len(c) : NameBefore(a[i], c[i])}
<1>2. /\ PreBefore(u, v) <=> a # <<>> /\ (b = <<>> \/ Leads(a, b, L))
      /\ PreBefore(v, w) <=> b # <<>> /\ (c = <<>> \/ Leads(b, c, M))
      /\ PreBefore(u, w) <=> a # <<>> /\ (c = <<>> \/ Leads(a, c, K))
  BY DEF PreBefore, Leads
<1> HIDE DEF a, b, c
<1>3. /\ Len(a) \in Nat /\ Len(b) \in Nat /\ Len(c) \in Nat
      /\ \A i \in 1..Len(a) : Name(a[i])
      /\ \A i \in 1..Len(b) : Name(b[i])
      /\ \A i \in 1..Len(c) : Name(c[i])
  BY <1>1 DEF Name
<1>4. ASSUME NEW i \in Nat, i \in 1..Len(a), i \in 1..Len(b), i \in 1..Len(c)
      PROVE  /\ i \in L /\ (i \in M \/ b[i] = c[i]) => i \in K
             /\ a[i] = b[i] /\ i \in M => i \in K
  <2>1. Name(a[i]) /\ Name(b[i]) /\ Name(c[i])
    BY <1>3, <1>4
  <2>2. NameBefore(a[i], b[i]) /\ NameBefore(b[i], c[i]) => NameBefore(a[i], c[i])
    BY <2>1, NamesFollow
  <2> QED
    BY <1>4, <2>2
<1> HIDE DEF L, M, K
<1>5. CASE c = <<>>
  BY <1>2, <1>5
<1>6. CASE c # <<>>
  <2>1. a # <<>> /\ Leads(a, b, L) /\ Leads(b, c, M)
    BY <1>2, <1>6
  <2>2. Leads(a, c, K)
    BY <1>3, <1>4, <2>1, LeadsOn
  <2> QED
    BY <1>2, <2>1, <2>2
<1> QED
  BY <1>5, <1>6

\* Versions: the core by its three numbers, then the pre-release.
LEMMA VersionsFollow ==
  ASSUME NEW u \in Version, Parses(u), NEW v \in Version, Parses(v), NEW w \in Version, Parses(w),
         Before(u, v), Before(v, w)
  PROVE  Before(u, w)
<1> DEFINE x == [i \in 1..3 |-> Value(u.core[i])]
           y == [i \in 1..3 |-> Value(v.core[i])]
           z == [i \in 1..3 |-> Value(w.core[i])]
<1>1. ASSUME NEW i \in 1..3 PROVE x[i] \in Nat /\ y[i] \in Nat /\ z[i] \in Nat
  <2>1. /\ u.core[i] \in Identifier /\ isDigits(u.core[i])
        /\ v.core[i] \in Identifier /\ isDigits(v.core[i])
        /\ w.core[i] \in Identifier /\ isDigits(w.core[i])
    BY DEF Version, Parses
  <2> QED
    BY <2>1, NumberType
<1>2. /\ SameCore(u, v) <=> \A i \in 1..3 : x[i] = y[i]
      /\ SameCore(v, w) <=> \A i \in 1..3 : y[i] = z[i]
      /\ SameCore(u, w) <=> \A i \in 1..3 : x[i] = z[i]
      /\ CoreBefore(u, v) <=> \E i \in 1..3 : (\A j \in 1..(i - 1) : x[j] = y[j]) /\ x[i] < y[i]
      /\ CoreBefore(v, w) <=> \E i \in 1..3 : (\A j \in 1..(i - 1) : y[j] = z[j]) /\ y[i] < z[i]
      /\ CoreBefore(u, w) <=> \E i \in 1..3 : (\A j \in 1..(i - 1) : x[j] = z[j]) /\ x[i] < z[i]
  BY DEF SameCore, CoreBefore
<1> HIDE DEF x, y, z
<1>3. CASE SameCore(u, v) /\ SameCore(v, w)
  <2>1. SameCore(u, w) /\ ~CoreBefore(u, v) /\ ~CoreBefore(v, w)
    BY <1>1, <1>2, <1>3
  <2> QED
    BY <2>1, PresFollow DEF Before
<1>4. CASE SameCore(u, v) /\ CoreBefore(v, w)
  BY <1>2, <1>4 DEF Before
<1>5. CASE CoreBefore(u, v) /\ SameCore(v, w)
  BY <1>2, <1>5 DEF Before
<1>6. CASE CoreBefore(u, v) /\ CoreBefore(v, w)
  <2>1. PICK i \in 1..3 : (\A j \in 1..(i - 1) : x[j] = y[j]) /\ x[i] < y[i]
    BY <1>2, <1>6
  <2>2. PICK k \in 1..3 : (\A j \in 1..(k - 1) : y[j] = z[j]) /\ y[k] < z[k]
    BY <1>2, <1>6
  <2>3. CASE i < k
    BY <1>1, <1>2, <2>1, <2>2, <2>3 DEF Before
  <2>4. CASE k < i
    BY <1>1, <1>2, <2>1, <2>2, <2>4 DEF Before
  <2>5. CASE k = i
    BY <1>1, <1>2, <2>1, <2>2, <2>5 DEF Before
  <2> QED
    BY <2>3, <2>4, <2>5
<1> QED
  BY <1>3, <1>4, <1>5, <1>6 DEF Before

\* No version that parses precedes itself.
LEMMA NotBeforeItself ==
  ASSUME NEW v \in Version, Parses(v)
  PROVE  ~Before(v, v)
<1>1. ~CoreBefore(v, v)
  <2> SUFFICES ASSUME NEW i \in 1..3, Value(v.core[i]) < Value(v.core[i]) PROVE FALSE
    BY DEF CoreBefore
  <2>1. Value(v.core[i]) \in Nat
    BY NumberType DEF Version, Parses
  <2> QED
    BY <2>1
<1>2. ~PreBefore(v, v)
  <2>1. CASE v.pre = <<>>
    BY <2>1 DEF PreBefore
  <2>2. CASE v.pre # <<>>
    <3> DEFINE signs == [i \in Common(v.pre, v.pre) |-> CompareIdentifiers(v.pre[i], v.pre[i])]
               r == FirstDecides(signs, Sign(Len(v.pre), Len(v.pre)))
    <3>1. Tells(r, PreBefore(v, v), PreBefore(v, v), v.pre = v.pre)
      BY <2>2, PreOrder
    <3> HIDE DEF r
    <3> QED
      BY <3>1 DEF Tells
  <2> QED
    BY <2>1, <2>2
<1> QED
  BY <1>1, <1>2 DEF Before

\* No release is newer than itself, and what is newer than a newer one is newer: so
\* switches to newer versions never lead back to a version that the host has had.
THEOREM NewerIsStrictOrder ==
  /\ \A r \in Releases : ~Newer(r, r)
  /\ \A r, q, p \in Releases : Newer(r, q) /\ Newer(q, p) => Newer(r, p)
<1>1. \A r \in Releases : VersionOf[r] \in Version /\ Parses(VersionOf[r])
  BY VersionAssumption
<1>2. ASSUME NEW r \in Releases, NEW q \in Releases
      PROVE  Newer(r, q) <=> Before(VersionOf[r], VersionOf[q])
  <2>1. CompareVersions(VersionOf[r], VersionOf[q]) = -1 <=> Before(VersionOf[r], VersionOf[q])
    BY <1>1, VersionOrder
  <2> QED
    BY <2>1 DEF Newer, Upgrades
<1>3. \A r \in Releases : ~Newer(r, r)
  BY <1>1, <1>2, NotBeforeItself
<1>4. ASSUME NEW r \in Releases, NEW q \in Releases, NEW p \in Releases,
             Newer(r, q), Newer(q, p)
      PROVE  Newer(r, p)
  BY <1>1, <1>2, <1>4, VersionsFollow
<1> QED
  BY <1>3, <1>4
=============================================================================
