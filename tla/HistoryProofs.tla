--------------------------- MODULE HistoryProofs ---------------------------
(***************************************************************************)
(* Proofs about ContextHistory and what it is built from, for any Maps to  *)
(* start from and any number of edits, saves and kills: the order of the   *)
(* snapshots and what a diff compares with (ContextDiff), that the report  *)
(* leads from the one state to the other, that the Map a save renders      *)
(* reads as the nodes it was rendered from, that all who read a Map find   *)
(* the same hierarchy in it (ContextMap), and what a migration keeps       *)
(* (LegacyMigration).                                                      *)
(*                                                                         *)
(* The library's operators on sequences are defined by recursive functions *)
(* and by CHOOSE: Joins says where the parts of a joined sequence are,     *)
(* PickedAs what is picked of one, and Reads what is known at each line of *)
(* a Map.  Two facts about a Map carry the rest: IsDoc, that its lines are *)
(* headings and items, and IsMap, that its nodes come section by section,  *)
(* none more than one level below the one before it.                       *)
(***************************************************************************)
EXTENDS ContextHistory, FiniteSetTheorems, WellFoundedInduction, TLAPS

-----------------------------------------------------------------------------
(* Snapshots in the order of their times.                                  *)

Timed(S) ==
  /\ IsFiniteSet(S)
  /\ \A s \in S : s.at \in Int
  /\ \A s, t \in S : s.at = t.at => s = t
Earlier(S, s) == {t \in S : t.at < s.at}
Newest(S, m) == m \in S /\ \A s \in S : s.at <= m.at

\* A snapshot has fewer before it than one that is newer.
LEMMA EarlierCount ==
  ASSUME NEW S, Timed(S), NEW s \in S
  PROVE  /\ IsFiniteSet(Earlier(S, s))
         /\ Cardinality(Earlier(S, s)) \in Nat
         /\ Cardinality(Earlier(S, s)) < Cardinality(S)
         /\ \A t \in S : s.at < t.at =>
              Cardinality(Earlier(S, s)) < Cardinality(Earlier(S, t))
<1>1. IsFiniteSet(S) BY DEF Timed
<1>2. \A t \in S : Earlier(S, t) \in SUBSET S BY DEF Earlier
<1>3. \A t \in S : IsFiniteSet(Earlier(S, t)) /\ Cardinality(Earlier(S, t)) \in Nat
  BY <1>1, <1>2, FS_Subset, FS_CardinalityType
<1>4. Cardinality(S) \in Nat BY <1>1, FS_CardinalityType
<1>5. s \notin Earlier(S, s) BY DEF Earlier, Timed
<1>6. Cardinality(Earlier(S, s)) < Cardinality(S)
  <2>1. Cardinality(Earlier(S, s)) <= Cardinality(S) BY <1>1, <1>2, FS_Subset
  <2>2. Cardinality(S) = Cardinality(Earlier(S, s)) => S = Earlier(S, s)
    BY <1>1, <1>2, FS_Subset
  <2> QED BY <2>1, <2>2, <1>3, <1>4, <1>5
<1>7. ASSUME NEW t \in S, s.at < t.at
      PROVE  Cardinality(Earlier(S, s)) < Cardinality(Earlier(S, t))
  <2>1. Earlier(S, s) \in SUBSET Earlier(S, t)
    BY <1>7 DEF Earlier, Timed
  <2>2. s \in Earlier(S, t) BY <1>7 DEF Earlier
  <2>3. Cardinality(Earlier(S, s)) <= Cardinality(Earlier(S, t)) BY <2>1, <1>3, FS_Subset
  <2>4. Cardinality(Earlier(S, t)) = Cardinality(Earlier(S, s))
          => Earlier(S, t) = Earlier(S, s)
    BY <2>1, <1>3, FS_Subset
  <2> QED BY <2>2, <2>3, <2>4, <1>3, <1>5
<1> QED BY <1>3, <1>6, <1>7

\* Two snapshots with as many before them are one.
LEMMA CountIsPlace ==
  ASSUME NEW S, Timed(S), NEW s \in S, NEW t \in S,
         Cardinality(Earlier(S, s)) = Cardinality(Earlier(S, t))
  PROVE  s = t
<1>1. s.at \in Int /\ t.at \in Int /\ (s.at = t.at => s = t) BY DEF Timed
<1>2. Cardinality(Earlier(S, s)) \in Nat BY EarlierCount
<1>3. ~(s.at < t.at) /\ ~(t.at < s.at) BY <1>2, EarlierCount
<1> QED BY <1>1, <1>3

\* The order has every snapshot, each at the place its time gives it.
LEMMA OrderIs ==
  ASSUME NEW S, Timed(S)
  PROVE  /\ Cardinality(S) \in Nat
         /\ InOrder(S) \in Seq(S)
         /\ Len(InOrder(S)) = Cardinality(S)
         /\ \A r \in 1..Cardinality(S) : Cardinality(Earlier(S, InOrder(S)[r])) = r - 1
         /\ \A s \in S : InOrder(S)[Cardinality(Earlier(S, s)) + 1] = s
<1> DEFINE n == Cardinality(S)
           count == [s \in S |-> Cardinality(Earlier(S, s)) + 1]
<1>1. IsFiniteSet(S) /\ n \in Nat BY FS_CardinalityType DEF Timed
<1>2. IsFiniteSet(1..n) /\ Cardinality(1..n) = n BY <1>1, FS_Interval
<1>3. count \in [S -> 1..n] BY <1>1, EarlierCount
<1>4. \A s, t \in S : count[s] = count[t] => s = t
  <2> SUFFICES ASSUME NEW s \in S, NEW t \in S, count[s] = count[t] PROVE s = t OBVIOUS
  <2>1. Cardinality(Earlier(S, s)) = Cardinality(Earlier(S, t)) BY EarlierCount
  <2> QED BY <2>1, CountIsPlace
<1>5. count \in Injection(S, 1..n) BY <1>3, <1>4 DEF Injection, IsInjective
<1>6. count \in Surjection(S, 1..n) BY <1>2, <1>5, FS_Injection
<1>7. \A r \in 1..n : \E s \in S : Cardinality(Earlier(S, s)) = r - 1
  <2> SUFFICES ASSUME NEW r \in 1..n PROVE \E s \in S : Cardinality(Earlier(S, s)) = r - 1
    OBVIOUS
  <2>1. PICK s \in S : count[s] = r BY <1>6 DEF Surjection
  <2>2. Cardinality(Earlier(S, s)) + 1 = r BY <2>1
  <2> QED BY <2>2, EarlierCount
<1>8. InOrder(S) = [r \in 1..n |-> CHOOSE s \in S : Cardinality(Earlier(S, s)) = r - 1]
  BY DEF InOrder, Earlier
<1>9. \A r \in 1..n : InOrder(S)[r] \in S /\ Cardinality(Earlier(S, InOrder(S)[r])) = r - 1
  BY <1>7, <1>8
<1>10. InOrder(S) \in [1..n -> S] BY <1>8, <1>9
<1>11. InOrder(S) \in Seq(S) /\ Len(InOrder(S)) = n BY <1>1, <1>10
<1>12. ASSUME NEW s \in S PROVE InOrder(S)[Cardinality(Earlier(S, s)) + 1] = s
  <2> DEFINE r == Cardinality(Earlier(S, s)) + 1
  <2>1. r \in 1..n /\ Cardinality(Earlier(S, s)) = r - 1 BY <1>1, EarlierCount
  <2>2. InOrder(S)[r] \in S /\ Cardinality(Earlier(S, InOrder(S)[r])) = Cardinality(Earlier(S, s))
    BY <1>9, <2>1
  <2> QED BY <2>2, CountIsPlace
<1> QED BY <1>1, <1>9, <1>11, <1>12

\* The newest one is the last, and one that is second only to it the one before.
LEMMA LastInOrder ==
  ASSUME NEW S, Timed(S), NEW m, Newest(S, m)
  PROVE  /\ Len(InOrder(S)) \in Nat \ {0}
         /\ InOrder(S)[Len(InOrder(S))] = m
         /\ \A p : Newest(S \ {m}, p) =>
              Len(InOrder(S)) > 1 /\ InOrder(S)[Len(InOrder(S)) - 1] = p
<1>1. IsFiniteSet(S) /\ m \in S BY DEF Timed, Newest
<1>2. Cardinality(S) \in Nat /\ Len(InOrder(S)) = Cardinality(S) BY OrderIs
<1>3. Earlier(S, m) = S \ {m}
  <2>1. \A s \in S : s # m <=> s.at < m.at BY <1>1 DEF Timed, Newest
  <2> QED BY <2>1 DEF Earlier
<1>4. Cardinality(Earlier(S, m)) = Cardinality(S) - 1 BY <1>1, <1>3, FS_RemoveElement
<1>5. InOrder(S)[Cardinality(S)] = m
  BY <1>1, <1>2, <1>4, OrderIs
<1>6. Cardinality(S) # 0 BY <1>1, FS_EmptySet
<1>7. ASSUME NEW p, Newest(S \ {m}, p)
      PROVE  Len(InOrder(S)) > 1 /\ InOrder(S)[Len(InOrder(S)) - 1] = p
  <2>1. p \in S /\ p # m /\ \A s \in S : s # m => s.at <= p.at BY <1>7 DEF Newest
  <2>2. Earlier(S, p) = (S \ {m}) \ {p}
    <3>1. p.at < m.at BY <2>1, <1>1 DEF Timed, Newest
    <3>2. \A s \in S : (s # m /\ s # p) <=> s.at < p.at
      BY <2>1, <3>1, <1>1 DEF Timed
    <3> QED BY <3>2 DEF Earlier
  <2>3. IsFiniteSet(S \ {m}) /\ Cardinality(S \ {m}) = Cardinality(S) - 1
    BY <1>1, FS_RemoveElement
  <2>4. Cardinality(Earlier(S, p)) = Cardinality(S) - 2
    <3>1. Cardinality((S \ {m}) \ {p}) = Cardinality(S \ {m}) - 1
      BY <2>1, <2>3, FS_RemoveElement
    <3> QED BY <3>1, <2>2, <2>3, <1>2
  <2>5. Cardinality(Earlier(S, p)) \in Nat BY <2>1, EarlierCount
  <2>6. Cardinality(S) > 1 BY <2>4, <2>5, <1>2
  <2>7. InOrder(S)[Cardinality(Earlier(S, p)) + 1] = p BY <2>1, OrderIs
  <2> QED BY <2>4, <2>6, <2>7, <1>2
<1> QED BY <1>2, <1>5, <1>6, <1>7

\* One of several is the newest.
LEMMA NewestExists ==
  ASSUME NEW S, Timed(S), S # {}
  PROVE  \E m : Newest(S, m)
<1> DEFINE n == Cardinality(S)
           m == InOrder(S)[n]
<1>1. IsFiniteSet(S) /\ n \in Nat /\ n # 0 BY FS_CardinalityType, FS_EmptySet DEF Timed
<1>2. n \in 1..n BY <1>1
<1>3. m \in S BY <1>1, <1>2, OrderIs
<1>4. Cardinality(Earlier(S, m)) = n - 1 BY <1>2, OrderIs
<1>5. ASSUME NEW s \in S, m.at < s.at PROVE FALSE
  <2>1. Cardinality(Earlier(S, m)) < Cardinality(Earlier(S, s)) BY <1>3, <1>5, EarlierCount
  <2>2. Cardinality(Earlier(S, s)) < n /\ Cardinality(Earlier(S, s)) \in Nat BY EarlierCount
  <2> QED BY <1>1, <1>4, <2>1, <2>2
<1>6. \A s \in S : s.at \in Int BY DEF Timed
<1> QED BY <1>3, <1>5, <1>6 DEF Newest

\* Of the files that go, none is the newest one or the one before it.
LEMMA NewestAreKept ==
  ASSUME NEW S, Timed(S), NEW m, Newest(S, m), HistoryAssumption
  PROVE  LET stale == {InOrder(S)[r] : r \in 1..Len(InOrder(S)) - Retention}
         IN  m \notin stale /\ \A p : Newest(S \ {m}, p) => p \notin stale
<1> DEFINE n == Len(InOrder(S))
<1>1. n \in Nat /\ n = Cardinality(S) BY OrderIs
<1>2. Retention \in Nat /\ Retention >= 2 BY DEF HistoryAssumption
<1>3. \A r \in 1..n - Retention : r \in 1..n /\ r < n - 1 BY <1>1, <1>2
<1>4. \A j, r \in 1..n : InOrder(S)[j] = InOrder(S)[r] => j = r
  <2> SUFFICES ASSUME NEW j \in 1..n, NEW r \in 1..n, InOrder(S)[j] = InOrder(S)[r]
               PROVE  j = r
    OBVIOUS
  <2>1. \A x \in 1..n : Cardinality(Earlier(S, InOrder(S)[x])) = x - 1 BY <1>1, OrderIs
  <2>2. j - 1 = r - 1 BY <2>1
  <2> QED BY <2>2, <1>1
<1>5. n \in Nat \ {0} /\ InOrder(S)[n] = m BY LastInOrder
<1>6. \A p : Newest(S \ {m}, p) => n > 1 /\ InOrder(S)[n - 1] = p BY LastInOrder
<1>7. n \in 1..n BY <1>5
<1>8. m \notin {InOrder(S)[r] : r \in 1..n - Retention}
  BY <1>1, <1>3, <1>4, <1>5, <1>7
<1>9. ASSUME NEW p, Newest(S \ {m}, p)
      PROVE  p \notin {InOrder(S)[r] : r \in 1..n - Retention}
  <2>1. n - 1 \in 1..n /\ InOrder(S)[n - 1] = p BY <1>1, <1>6, <1>9
  <2> QED BY <1>1, <1>3, <1>4, <2>1
<1> QED BY <1>8, <1>9

-----------------------------------------------------------------------------
(* What a diff compares with.                                              *)

\* The states recorded are a sequence.
Recorded == \E S : recorded \in Seq(S)

\* The clock goes forward.
InTime ==
  /\ clock \in Int
  /\ Timed(snapshots)
  /\ \A s \in snapshots : s.at <= clock

\* The newest snapshot that can be read is of the state recorded last.
LastIsNewest ==
  IF recorded = <<>> THEN Readable = {}
  ELSE \E m : Newest(Readable, m) /\ m.state = recorded[Len(recorded)]

\* While no snapshot was torn, those of an older layout come first, and the one
\* before the newest is of the state recorded before the last.
PreviousIsKept ==
  /\ \A s \in snapshots \ Readable, t \in Readable : s.at < t.at
  /\ Len(recorded) = 1 => \A s, t \in Readable : s = t
  /\ Len(recorded) > 1 =>
       \E m, p : /\ Newest(Readable, m) /\ Newest(Readable \ {m}, p)
                 /\ p.state = recorded[Len(recorded) - 1]

HistoryInv ==
  /\ Recorded
  /\ "setBack" \notin trouble =>
       /\ InTime
       /\ LastIsNewest
       /\ trouble = {} => PreviousIsKept

LEMMA TimedSubset ==
  ASSUME NEW S, Timed(S), NEW T \in SUBSET S
  PROVE  Timed(T)
<1>1. IsFiniteSet(T) BY FS_Subset DEF Timed
<1> QED BY <1>1 DEF Timed

LEMMA ReadableIn == Readable \in SUBSET snapshots
BY DEF Readable

LEMMA HistoryInitInv == ASSUME HistoryAssumption, HistoryInit PROVE HistoryInv
<1>1. PICK start \in Starts :
        snapshots = {[at |-> 0, layout |-> "v2", state |-> s] : s \in start.snapshots}
  BY DEF HistoryInit
<1>2. \A s, t \in start.snapshots : s = t BY DEF HistoryAssumption
<1>3. snapshots = {} \/ \E x : snapshots = {x}
  <2>1. CASE start.snapshots = {} BY <1>1, <2>1
  <2>2. CASE start.snapshots # {}
    <3>1. PICK x : start.snapshots = {x} BY <1>2, <2>2
    <3> QED BY <1>1, <3>1
  <2> QED BY <2>1, <2>2
<1>4. IsFiniteSet(snapshots)
  <2>1. CASE snapshots = {} BY <2>1, FS_EmptySet
  <2>2. CASE \E x : snapshots = {x}
    <3>1. PICK x : snapshots = {x} BY <2>2
    <3> QED BY <3>1, FS_Singleton
  <2> QED BY <1>3, <2>1, <2>2
<1>5. \A s \in snapshots : s.at = 0 /\ s.layout = "v2" BY <1>1
<1>6. clock = 0 /\ recorded = <<>> BY DEF HistoryInit
<1>7. Timed(snapshots) BY <1>3, <1>4, <1>5 DEF Timed
<1>8. InTime BY <1>5, <1>6, <1>7 DEF InTime
<1>9. Readable = {} BY <1>5 DEF Readable
<1>10. Recorded BY <1>6 DEF Recorded
<1>11. LastIsNewest BY <1>6, <1>9 DEF LastIsNewest
<1>12. PreviousIsKept BY <1>6, <1>9 DEF PreviousIsKept
<1> QED BY <1>8, <1>10, <1>11, <1>12 DEF HistoryInv

\* What happens to the files alone.
LEMMA QuietHistory ==
  ASSUME HistoryInv, UNCHANGED <<snapshots, clock, recorded, trouble>>
  PROVE  HistoryInv'
BY DEF HistoryInv, Recorded, InTime, LastIsNewest, PreviousIsKept, Readable, Timed, Newest

LEMMA SetBackInv == ASSUME HistoryInv, SetBack PROVE HistoryInv'
BY DEF HistoryInv, SetBack, Recorded

LEMMA TimedAdd ==
  ASSUME NEW S, Timed(S), NEW new, new.at \in Int, \A s \in S : s.at < new.at
  PROVE  Timed(S \cup {new}) /\ Newest(S \cup {new}, new) /\ new \notin S
<1>1. IsFiniteSet(S \cup {new}) BY FS_AddElement DEF Timed
<1> QED BY <1>1 DEF Timed, Newest

LEMMA TearRecordInv == ASSUME HistoryInv, TearRecord PROVE HistoryInv'
<1> DEFINE torn == [at |-> clock + 2, layout |-> "torn", state |-> <<>>]
<1>1. /\ snapshots' = snapshots \cup {torn} /\ clock' = clock + 2
      /\ trouble' = trouble \cup {"torn"} /\ recorded' = recorded
  BY DEF TearRecord
<1>2. Recorded' BY <1>1 DEF HistoryInv, Recorded
<1>3. SUFFICES ASSUME "setBack" \notin trouble PROVE InTime' /\ LastIsNewest'
  BY <1>1, <1>2 DEF HistoryInv
<1>4. InTime /\ LastIsNewest BY <1>3 DEF HistoryInv
<1>5. torn.at \in Int /\ \A s \in snapshots : s.at < torn.at BY <1>4 DEF InTime, Timed
<1>6. Timed(snapshots') BY <1>1, <1>4, <1>5, TimedAdd DEF InTime
<1>7. InTime' BY <1>1, <1>4, <1>5, <1>6 DEF InTime, Timed
<1>8. Readable' = Readable BY <1>1 DEF Readable
<1> QED BY <1>1, <1>4, <1>7, <1>8 DEF LastIsNewest, Newest

\* A snapshot that is not written again is of the state recorded last.
LEMMA UnchangedIsLast ==
  ASSUME HistoryInv, "setBack" \notin trouble, NEW state, Unchanged(state)
  PROVE  recorded # <<>> /\ recorded[Len(recorded)] = state
<1>1. InTime /\ LastIsNewest BY DEF HistoryInv
<1>2. PICK m : Newest(snapshots, m) BY <1>1, NewestExists DEF Unchanged, InTime
<1>3. Len(InOrder(snapshots)) \in Nat \ {0} /\ InOrder(snapshots)[Len(InOrder(snapshots))] = m
  BY <1>1, <1>2, LastInOrder DEF InTime
<1>4. m.layout = "v3" /\ m.state = state BY <1>3 DEF Unchanged, Last
<1>5. Newest(Readable, m) BY <1>2, <1>4 DEF Readable, Newest
<1>6. recorded # <<>> BY <1>1, <1>5 DEF LastIsNewest, Newest
<1>7. PICK l : Newest(Readable, l) /\ l.state = recorded[Len(recorded)]
  BY <1>1, <1>6 DEF LastIsNewest
<1>8. l = m BY <1>1, <1>5, <1>7 DEF Newest, Readable, InTime, Timed
<1> QED BY <1>4, <1>6, <1>7, <1>8

\* While nothing has happened to snapshots, the newest one is of that state.
LEMMA NewestIsReadable ==
  ASSUME HistoryInv, trouble = {}, NEW m, Newest(snapshots, m), recorded # <<>>
  PROVE  Newest(Readable, m) /\ m.state = recorded[Len(recorded)]
<1>1. InTime /\ LastIsNewest /\ PreviousIsKept BY DEF HistoryInv
<1>2. PICK l : Newest(Readable, l) /\ l.state = recorded[Len(recorded)]
  BY <1>1 DEF LastIsNewest
<1>3. l \in snapshots /\ l \in Readable BY <1>2 DEF Newest, Readable
<1>4. m \in Readable
  <2>1. SUFFICES ASSUME m \in snapshots \ Readable PROVE FALSE BY DEF Newest
  <2>2. m.at < l.at BY <1>1, <1>3, <2>1 DEF PreviousIsKept
  <2> QED BY <1>1, <1>3, <2>2 DEF Newest, InTime, Timed
<1>5. Newest(Readable, m) BY <1>4 DEF Newest, Readable
<1>6. l = m BY <1>1, <1>2, <1>5 DEF Newest, Readable, InTime, Timed
<1> QED BY <1>2, <1>5, <1>6

LEMMA AppendIs ==
  ASSUME NEW S, NEW s \in Seq(S), NEW x
  PROVE  /\ Append(s, x) \in Seq(S \cup {x})
         /\ Append(s, x) # <<>>
         /\ Len(Append(s, x)) = Len(s) + 1
         /\ Append(s, x)[Len(s) + 1] = x
         /\ Len(s) \in Nat
         /\ s # <<>> => Len(s) > 0 /\ Append(s, x)[Len(s)] = s[Len(s)]
<1>1. s \in Seq(S \cup {x}) /\ x \in S \cup {x} OBVIOUS
<1>2. Append(s, x) \in Seq(S \cup {x}) /\ Len(Append(s, x)) = Len(s) + 1 /\ Len(s) \in Nat
  BY <1>1
<1>3. Append(s, x)[Len(s) + 1] = x BY <1>1
<1>4. Append(s, x) # <<>> BY <1>2
<1>5. s # <<>> => Len(s) > 0 /\ Append(s, x)[Len(s)] = s[Len(s)] BY <1>1, <1>2
<1> QED BY <1>2, <1>3, <1>4, <1>5

LEMMA RecordInv == ASSUME HistoryAssumption, HistoryInv, Record PROVE HistoryInv'
<1> DEFINE state == pending[1]
           new   == [at |-> clock + 2, layout |-> "v3", state |-> state]
           S     == snapshots \cup {new}
           stale == {InOrder(S)[r] : r \in 1..Len(InOrder(S)) - Retention}
<1>1. /\ recorded' = IF recorded # <<>> /\ recorded[Len(recorded)] = state
                       THEN recorded ELSE Append(recorded, state)
      /\ trouble' = trouble
      /\ Unchanged(state) => UNCHANGED <<snapshots, clock>>
      /\ ~Unchanged(state) => /\ clock' = clock + 2
                              /\ snapshots' = S \ stale \/ snapshots' = S
  BY DEF Record, Last
<1>2. PICK T : recorded \in Seq(T) BY DEF HistoryInv, Recorded
<1>3. Recorded' BY <1>1, <1>2, AppendIs DEF Recorded
<1>4. SUFFICES ASSUME "setBack" \notin trouble
               PROVE  InTime' /\ LastIsNewest' /\ (trouble = {} => PreviousIsKept')
  BY <1>1, <1>3 DEF HistoryInv
<1>5. InTime /\ LastIsNewest /\ (trouble = {} => PreviousIsKept) BY <1>4 DEF HistoryInv
<1>6. CASE Unchanged(state)
  <2>1. UNCHANGED <<snapshots, clock, recorded, trouble>> BY <1>1, <1>4, <1>6, UnchangedIsLast
  <2>2. HistoryInv' BY <2>1, QuietHistory
  <2> QED BY <1>1, <1>4, <2>2 DEF HistoryInv
<1>7. CASE ~Unchanged(state)
  <2> DEFINE K == snapshots'
  <2>1. new.at \in Int /\ new.at = clock + 2 /\ new.layout = "v3" /\ new.state = state
        /\ \A s \in snapshots : s.at < new.at
    BY <1>5 DEF InTime, Timed
  <2> HIDE DEF new
  <2>2. Timed(S) /\ Newest(S, new) /\ new \notin snapshots BY <1>5, <2>1, TimedAdd DEF InTime
  <2>3. S \ {new} = snapshots BY <2>2
  <2>4. new \notin stale /\ \A p : Newest(snapshots, p) => p \notin stale
    <3>1. new \notin stale /\ \A p : Newest(S \ {new}, p) => p \notin stale
      BY <2>2, NewestAreKept
    <3> HIDE DEF stale
    <3> QED BY <2>3, <3>1
  <2>5. K \in SUBSET S /\ new \in K /\ \A p : Newest(snapshots, p) => p \in K
    <3>1. K = S \ stale \/ K = S BY <1>1, <1>7
    <3> HIDE DEF stale
    <3> QED BY <2>4, <3>1 DEF Newest
  <2> HIDE DEF stale
  <2>6. InTime'
    <3>1. Timed(K) BY <2>2, <2>5, TimedSubset
    <3>2. \A s \in K : s.at <= clock'
      BY <1>1, <1>7, <2>1, <2>2, <2>5 DEF Newest
    <3> QED BY <1>1, <1>5, <1>7, <3>1, <3>2 DEF InTime, Timed
  <2>7. Readable' = {s \in K : s.layout = "v3"} BY DEF Readable
  <2>8. Newest(Readable', new) BY <2>1, <2>2, <2>5, <2>7 DEF Newest
  <2>9. recorded' # <<>> /\ recorded'[Len(recorded')] = state BY <1>1, <1>2, AppendIs
  <2>10. LastIsNewest' BY <2>1, <2>8, <2>9 DEF LastIsNewest, Newest
  <2>11. ASSUME trouble = {} PROVE PreviousIsKept'
    <3>1. PreviousIsKept BY <1>5, <2>11
    <3>2. \A s \in K \ Readable', t \in Readable' : s.at < t.at
      <4> SUFFICES ASSUME NEW s \in K \ Readable', NEW t \in Readable' PROVE s.at < t.at
        OBVIOUS
      <4>1. s \in snapshots \ Readable BY <2>1, <2>5, <2>7 DEF Readable
      <4>2. t = new \/ t \in Readable BY <2>5, <2>7 DEF Readable
      <4> QED BY <2>1, <3>1, <4>1, <4>2 DEF PreviousIsKept
    <3>3. CASE recorded = <<>>
      <4>1. Readable' \in SUBSET {new}
        BY <1>5, <2>5, <2>7, <3>3 DEF LastIsNewest, Readable
      <4>2. Len(recorded') = 1 BY <1>1, <1>2, <3>3, AppendIs
      <4> QED BY <3>2, <4>1, <4>2 DEF PreviousIsKept
    <3>4. CASE recorded # <<>>
      <4>1. snapshots # {} BY <1>5, <3>4 DEF LastIsNewest, Newest, Readable
      <4>2. PICK p : Newest(snapshots, p) BY <1>5, <4>1, NewestExists DEF InTime
      <4>3. Newest(Readable, p) /\ p.state = recorded[Len(recorded)]
        BY <2>11, <3>4, <4>2, NewestIsReadable
      <4>4. p.layout = "v3" /\ p \in snapshots BY <4>2, <4>3 DEF Newest, Readable
      <4>5. Last(InOrder(snapshots)) = p BY <1>5, <4>2, LastInOrder DEF InTime, Last
      <4>6. recorded[Len(recorded)] # state BY <1>7, <4>1, <4>3, <4>4, <4>5 DEF Unchanged
      <4>7. /\ Len(recorded') - 1 = Len(recorded) /\ Len(recorded) > 0 /\ Len(recorded) \in Nat
            /\ Len(recorded') = Len(recorded) + 1
            /\ recorded'[Len(recorded)] = recorded[Len(recorded)]
        BY <1>1, <1>2, <3>4, <4>6, AppendIs
      <4>8. p \in K /\ p # new BY <2>2, <2>5, <4>2, <4>4
      <4>9. Newest(Readable' \ {new}, p)
        <5>1. Readable' \ {new} \in SUBSET Readable BY <2>5, <2>7 DEF Readable
        <5>2. p \in Readable' \ {new} BY <2>7, <4>4, <4>8
        <5> QED BY <4>3, <5>1, <5>2 DEF Newest
      <4>10. Len(recorded') # 1 BY <4>7
      <4>11. \E m, q : /\ Newest(Readable', m) /\ Newest(Readable' \ {m}, q)
                       /\ q.state = recorded'[Len(recorded') - 1]
        BY <2>8, <4>3, <4>7, <4>9
      <4> QED BY <3>2, <4>10, <4>11 DEF PreviousIsKept, Newest
    <3> QED BY <3>3, <3>4
  <2> QED BY <2>6, <2>10, <2>11
<1> QED BY <1>6, <1>7

LEMMA HistoryStep ==
  ASSUME HistoryAssumption, HistoryInv, [HistoryNext]_historyVars
  PROVE  HistoryInv'
<1>1. CASE UNCHANGED historyVars BY <1>1, QuietHistory DEF historyVars
<1>2. CASE EditItem BY <1>2, QuietHistory DEF EditItem, Edit
<1>3. CASE AddItem BY <1>3, QuietHistory DEF AddItem, Edit
<1>4. CASE EditBody BY <1>4, QuietHistory DEF EditBody, Edit
<1>5. CASE EditExtra BY <1>5, QuietHistory DEF EditExtra, Edit
<1>6. CASE SetBack BY <1>6, SetBackInv
<1>7. CASE Save BY <1>7, QuietHistory DEF Save, SaveAs, MigrateAs
<1>8. CASE Record BY <1>8, RecordInv
<1>9. CASE SkipRecord BY <1>9, QuietHistory DEF SkipRecord
<1>10. CASE TearRecord BY <1>10, TearRecordInv
<1> QED BY <1>1, <1>2, <1>3, <1>4, <1>5, <1>6, <1>7, <1>8, <1>9, <1>10 DEF HistoryNext

\* The newest snapshot is of the state recorded last, and the one before it of
\* the one before.
LEMMA BaselineIs == ASSUME HistoryInv PROVE BaselineIsPrevious
<1> DEFINE n     == Len(recorded)
           order == InOrder(Readable)
<1>1. SUFFICES ASSUME "setBack" \notin trouble
               PROVE  /\ n > 0 /\ recorded[n] # Current => Baseline = recorded[n]
                      /\ n > 0 /\ recorded[n] = Current /\ trouble = {} =>
                           Baseline = IF n = 1 THEN None ELSE recorded[n - 1]
                      /\ n = 0 => Baseline = None
  BY DEF BaselineIsPrevious
<1>2. InTime /\ LastIsNewest /\ (trouble = {} => PreviousIsKept) BY <1>1 DEF HistoryInv
<1>3. Timed(Readable) BY <1>2, ReadableIn, TimedSubset DEF InTime
<1>4. n \in Nat /\ (n = 0 <=> recorded = <<>>) BY DEF HistoryInv, Recorded
<1>5. CASE n = 0
  <2>1. Readable = {} BY <1>2, <1>4, <1>5 DEF LastIsNewest
  <2>2. Len(order) = 0 BY <1>3, <2>1, OrderIs, FS_EmptySet
  <2>3. Baseline = None BY <2>2 DEF Baseline
  <2> QED BY <1>5, <2>3
<1>6. CASE n # 0
  <2>1. PICK m : Newest(Readable, m) /\ m.state = recorded[n]
    BY <1>2, <1>4, <1>6 DEF LastIsNewest
  <2>2. Len(order) \in Nat \ {0} /\ order[Len(order)] = m BY <1>3, <2>1, LastInOrder
  <2>3. order # <<>> BY <2>2
  <2>4. CASE recorded[n] # Current
    <3>1. Baseline = order[Len(order)].state
      BY <2>1, <2>2, <2>4 DEF Baseline, Last
    <3> QED BY <1>6, <2>1, <2>2, <2>4, <3>1
  <2>5. CASE recorded[n] = Current /\ trouble = {}
    <3>1. Baseline = IF Len(order) - 1 < 1 THEN None ELSE order[Len(order) - 1].state
      BY <2>1, <2>2, <2>3, <2>5 DEF Baseline, Last
    <3>2. CASE n = 1
      <4>1. \A s, t \in Readable : s = t BY <1>2, <2>5, <3>2 DEF PreviousIsKept
      <4>2. Readable = {m} BY <2>1, <4>1 DEF Newest
      <4>3. Len(order) = 1 BY <1>3, <4>2, OrderIs, FS_Singleton
      <4> QED BY <2>5, <3>1, <3>2, <4>3
    <3>3. CASE n # 1
      <4>1. PICK l, p : /\ Newest(Readable, l) /\ Newest(Readable \ {l}, p)
                        /\ p.state = recorded[n - 1]
        <5>1. n \in Nat BY <1>4
        <5>2. n > 1
          <6> HIDE DEF n
          <6> QED BY <1>6, <3>3, <5>1
        <5> QED BY <1>2, <2>5, <5>2 DEF PreviousIsKept
      <4>2. Len(order) > 1 /\ order[Len(order) - 1] = p BY <1>3, <4>1, LastInOrder
      <4> QED BY <1>6, <2>2, <2>5, <3>1, <3>3, <4>1, <4>2
    <3> QED BY <3>2, <3>3
  <2>6. CASE recorded[n] = Current /\ trouble # {} BY <1>6, <2>6
  <2> QED BY <2>4, <2>5, <2>6
<1> QED BY <1>4, <1>5, <1>6

\* In every reachable state a diff compares with the state saved last, or with
\* the one before it if the files still say what was saved last: for any number
\* of edits and saves, any retention, and saves killed at their snapshots.
THEOREM BaselineIsPreviousAlways ==
  ASSUME HistoryAssumption
  PROVE  HistorySpec => []BaselineIsPrevious
<1>1. HistoryInit => HistoryInv BY HistoryInitInv
<1>2. HistoryInv /\ [HistoryNext]_historyVars => HistoryInv' BY HistoryStep
<1>3. HistoryInv => BaselineIsPrevious BY BaselineIs
<1> QED BY <1>1, <1>2, <1>3, PTL DEF HistorySpec

-----------------------------------------------------------------------------
(* What a report says.                                                     *)

\* Indices of nodes.
Indices(I) == IsFiniteSet(I) /\ I \in SUBSET Int

\* No node is in two pairs.
OneToOne(pairs, B, A) ==
  /\ pairs \in SUBSET (B \X A)
  /\ \A p, q \in pairs : p[1] = q[1] <=> p[2] = q[2]

Ends(pairs, side) == {p[side] : p \in pairs}

\* Of the nodes of a kind, each has its own number of others before it.
LEMMA NthDiffers ==
  ASSUME NEW pool, Indices(pool), NEW kindOf,
         NEW i \in pool, NEW j \in pool, kindOf[i] = kindOf[j], Nth(kindOf, pool, i) = Nth(kindOf, pool, j)
  PROVE  i = j
<1> DEFINE earlier(x) == {r \in pool : r < x /\ kindOf[r] = kindOf[x]}
<1>1. \A x \in pool : earlier(x) \in SUBSET pool /\ IsFiniteSet(earlier(x))
  <2> SUFFICES ASSUME NEW x \in pool PROVE earlier(x) \in SUBSET pool /\ IsFiniteSet(earlier(x))
    OBVIOUS
  <2>1. earlier(x) \in SUBSET pool OBVIOUS
  <2> QED BY <2>1, FS_Subset DEF Indices
<1>2. ASSUME NEW x \in pool, NEW y \in pool, x < y, kindOf[x] = kindOf[y],
             Nth(kindOf, pool, x) = Nth(kindOf, pool, y)
      PROVE  FALSE
  <2>1. \A r \in pool : r \in Int BY DEF Indices
  <2>2. earlier(x) \in SUBSET earlier(y)
    <3> SUFFICES ASSUME NEW r \in pool, r < x, kindOf[r] = kindOf[x] PROVE r < y /\ kindOf[r] = kindOf[y]
      OBVIOUS
    <3> QED BY <1>2, <2>1
  <2>3. x \in earlier(y) /\ x \notin earlier(x) BY <1>2, <2>1
  <2>4. IsFiniteSet(earlier(y)) BY <1>1
  <2>5. Cardinality(earlier(x)) = Cardinality(earlier(y)) BY <1>2 DEF Nth
  <2> HIDE DEF earlier
  <2>6. earlier(y) = earlier(x) BY <2>2, <2>4, <2>5, FS_Subset
  <2> QED BY <2>3, <2>6
<1>3. ~(i < j) /\ ~(j < i) BY <1>2
<1> QED BY <1>3 DEF Indices

LEMMA FirstFreeIs ==
  ASSUME NEW B, Indices(B), NEW A, Indices(A), NEW of, NEW as
  PROVE  /\ OneToOne(FirstFree(of, B, as, A), B, A)
         /\ \A p \in FirstFree(of, B, as, A) : of[p[1]] = as[p[2]]
<1> DEFINE M == FirstFree(of, B, as, A)
<1>1. ASSUME NEW p \in M, NEW q \in M PROVE p[1] = q[1] <=> p[2] = q[2]
  <2>1. /\ p[1] \in B /\ p[2] \in A /\ q[1] \in B /\ q[2] \in A
        /\ of[p[1]] = as[p[2]] /\ of[q[1]] = as[q[2]]
        /\ Nth(of, B, p[1]) = Nth(as, A, p[2]) /\ Nth(of, B, q[1]) = Nth(as, A, q[2])
    BY DEF FirstFree
  <2>2. ASSUME p[1] = q[1] PROVE p[2] = q[2]
    <3>1. as[p[2]] = as[q[2]] /\ Nth(as, A, p[2]) = Nth(as, A, q[2]) BY <2>1, <2>2
    <3> QED BY <2>1, <3>1, NthDiffers
  <2>3. ASSUME p[2] = q[2] PROVE p[1] = q[1]
    <3>1. of[p[1]] = of[q[1]] /\ Nth(of, B, p[1]) = Nth(of, B, q[1]) BY <2>1, <2>3
    <3> QED BY <2>1, <3>1, NthDiffers
  <2> QED BY <2>2, <2>3
<1>2. M \in SUBSET (B \X A) /\ \A p \in M : of[p[1]] = as[p[2]] BY DEF FirstFree
<1> QED BY <1>1, <1>2 DEF OneToOne

\* What is still there when the pairs are gone.
LEMMA LeftIs ==
  ASSUME NEW B, Indices(B), NEW A, Indices(A), NEW pairs, OneToOne(pairs, B, A)
  PROVE  /\ Left(B, pairs, 1) = B \ Ends(pairs, 1) /\ Left(A, pairs, 2) = A \ Ends(pairs, 2)
         /\ Ends(pairs, 1) \in SUBSET B /\ Ends(pairs, 2) \in SUBSET A
         /\ Indices(Left(B, pairs, 1)) /\ Indices(Left(A, pairs, 2))
<1>1. Left(B, pairs, 1) = B \ Ends(pairs, 1) /\ Left(A, pairs, 2) = A \ Ends(pairs, 2)
  BY DEF Left, Ends
<1>2. Ends(pairs, 1) \in SUBSET B /\ Ends(pairs, 2) \in SUBSET A BY DEF Ends, OneToOne
<1>3. IsFiniteSet(B \ Ends(pairs, 1)) /\ IsFiniteSet(A \ Ends(pairs, 2))
  BY FS_Difference DEF Indices
<1> QED BY <1>1, <1>2, <1>3 DEF Indices

\* Pairs of what other pairs have left are one-to-one with them.
LEMMA TwoPasses ==
  ASSUME NEW B, Indices(B), NEW A, Indices(A), NEW first, OneToOne(first, B, A),
         NEW second, OneToOne(second, Left(B, first, 1), Left(A, first, 2))
  PROVE  OneToOne(first \cup second, B, A)
<1>1. Left(B, first, 1) = B \ Ends(first, 1) /\ Left(A, first, 2) = A \ Ends(first, 2)
  BY LeftIs
<1>2. first \cup second \in SUBSET (B \X A) BY <1>1 DEF OneToOne
<1>3. ASSUME NEW p \in first, NEW q \in second PROVE p[1] # q[1] /\ p[2] # q[2]
  BY <1>1 DEF OneToOne, Ends
<1> QED BY <1>2, <1>3 DEF OneToOne

LEMMA ExactPairsAre ==
  ASSUME NEW earlier, Indices(DOMAIN earlier), NEW later, Indices(DOMAIN later)
  PROVE  /\ OneToOne(ExactPairs(earlier, later), DOMAIN earlier, DOMAIN later)
         /\ \A p \in ExactPairs(earlier, later) : earlier[p[1]].text = later[p[2]].text
<1> DEFINE B == DOMAIN earlier
           A == DOMAIN later
           home == FirstFree(ByHome(earlier), B, ByHome(later), A)
           away == FirstFree(ByText(earlier), Left(B, home, 1), ByText(later), Left(A, home, 2))
<1>1. ExactPairs(earlier, later) = home \cup away BY DEF ExactPairs
<1>2. OneToOne(home, B, A) /\ \A p \in home : ByHome(earlier)[p[1]] = ByHome(later)[p[2]]
  BY FirstFreeIs
<1>3. Indices(Left(B, home, 1)) /\ Indices(Left(A, home, 2)) BY <1>2, LeftIs
<1>4. /\ OneToOne(away, Left(B, home, 1), Left(A, home, 2))
      /\ \A p \in away : ByText(earlier)[p[1]] = ByText(later)[p[2]]
  BY <1>3, FirstFreeIs
<1> HIDE DEF home, away
<1>5. OneToOne(home \cup away, B, A) BY <1>2, <1>4, TwoPasses
<1>6. ASSUME NEW p \in home \cup away PROVE earlier[p[1]].text = later[p[2]].text
  <2>1. p[1] \in B /\ p[2] \in A BY <1>5 DEF OneToOne
  <2>2. CASE p \in home
    <3>1. ByHome(earlier)[p[1]] = ByHome(later)[p[2]] BY <1>2, <2>2
    <3> QED BY <2>1, <3>1 DEF ByHome
  <2>3. CASE p \in away
    <3>1. ByText(earlier)[p[1]] = ByText(later)[p[2]] BY <1>4, <2>3
    <3> QED BY <2>1, <3>1 DEF ByText
  <2> QED BY <2>2, <2>3
<1> QED BY <1>1, <1>5, <1>6

\* A pair counts for each of its ends.
LEMMA PairsAreEnds ==
  ASSUME NEW B, Indices(B), NEW A, Indices(A), NEW pairs, OneToOne(pairs, B, A)
  PROVE  /\ IsFiniteSet(pairs)
         /\ IsFiniteSet(Ends(pairs, 1)) /\ IsFiniteSet(Ends(pairs, 2))
         /\ Cardinality(Ends(pairs, 1)) = Cardinality(pairs)
         /\ Cardinality(Ends(pairs, 2)) = Cardinality(pairs)
<1>1. IsFiniteSet(pairs) BY FS_Product, FS_Subset DEF OneToOne, Indices
<1>2. \A p, q \in pairs : p[1] = q[1] <=> p = q BY DEF OneToOne
<1>3. \A p, q \in pairs : p[2] = q[2] <=> p = q BY DEF OneToOne
<1>4. [p \in pairs |-> p[1]] \in Bijection(pairs, Ends(pairs, 1))
  BY <1>2 DEF Bijection, Injection, Surjection, IsInjective, Ends
<1>5. [p \in pairs |-> p[2]] \in Bijection(pairs, Ends(pairs, 2))
  BY <1>3 DEF Bijection, Injection, Surjection, IsInjective, Ends
<1>6. ExistsBijection(pairs, Ends(pairs, 1)) /\ ExistsBijection(pairs, Ends(pairs, 2))
  BY <1>4, <1>5 DEF ExistsBijection
<1> QED BY <1>1, <1>6, FS_Bijection

LEMMA FewerPairs ==
  ASSUME NEW B, NEW A, NEW pairs, OneToOne(pairs, B, A), NEW some \in SUBSET pairs
  PROVE  OneToOne(some, B, A)
BY DEF OneToOne

\* The nodes of I that say t in section s.
Saying(nodes, I, s, t) == {i \in I : nodes[i].section = s /\ nodes[i].text = t}

Apart(I, J) == I \cap J = {}

LEMMA TextsOfUnion ==
  ASSUME NEW I, Indices(I), NEW J, Indices(J), Apart(I, J), NEW nodes, NEW s, NEW t
  PROVE  /\ Texts(nodes, I \cup J, s, t) = Texts(nodes, I, s, t) + Texts(nodes, J, s, t)
         /\ Texts(nodes, I, s, t) \in Nat /\ Texts(nodes, J, s, t) \in Nat
<1> DEFINE X == Saying(nodes, I, s, t)
           Y == Saying(nodes, J, s, t)
<1>1. X \in SUBSET I /\ Y \in SUBSET J BY DEF Saying
<1>2. IsFiniteSet(X) /\ IsFiniteSet(Y) BY <1>1, FS_Subset DEF Indices
<1>3. X \cup Y = Saying(nodes, I \cup J, s, t) /\ X \cap Y = {} BY DEF Saying, Apart
<1> HIDE DEF X, Y
<1>4. Cardinality(X \cap Y) = 0 BY <1>3, FS_EmptySet
<1>5. Cardinality(X) \in Nat /\ Cardinality(Y) \in Nat BY <1>2, FS_CardinalityType
<1>6. Cardinality(X \cup Y) = Cardinality(X) + Cardinality(Y)
  <2>1. Cardinality(X \cup Y) = Cardinality(X) + Cardinality(Y) - Cardinality(X \cap Y)
    BY <1>2, FS_Union
  <2> QED BY <2>1, <1>4, <1>5
<1>7. /\ Texts(nodes, I, s, t) = Cardinality(X) /\ Texts(nodes, J, s, t) = Cardinality(Y)
      /\ Texts(nodes, I \cup J, s, t) = Cardinality(X \cup Y)
  BY <1>3 DEF Texts, Saying, X, Y
<1> QED BY <1>5, <1>6, <1>7

\* The pairs whose ends say t in section s are as many as these ends.
PairsSaying(nodes, pairs, side, s, t) ==
  {p \in pairs : nodes[p[side]].section = s /\ nodes[p[side]].text = t}

LEMMA TextsOfEnds ==
  ASSUME NEW B, Indices(B), NEW A, Indices(A), NEW pairs, OneToOne(pairs, B, A),
         NEW nodes, NEW s, NEW t
  PROVE  /\ Cardinality(PairsSaying(nodes, pairs, 1, s, t)) = Texts(nodes, Ends(pairs, 1), s, t)
         /\ Cardinality(PairsSaying(nodes, pairs, 2, s, t)) = Texts(nodes, Ends(pairs, 2), s, t)
<1> DEFINE one == PairsSaying(nodes, pairs, 1, s, t)
           two == PairsSaying(nodes, pairs, 2, s, t)
<1>1. OneToOne(one, B, A) /\ OneToOne(two, B, A) BY FewerPairs DEF PairsSaying
<1>2. Ends(one, 1) = Saying(nodes, Ends(pairs, 1), s, t) BY DEF Ends, Saying, PairsSaying
<1>3. Ends(two, 2) = Saying(nodes, Ends(pairs, 2), s, t) BY DEF Ends, Saying, PairsSaying
<1> HIDE DEF one, two
<1>4. Cardinality(Ends(one, 1)) = Cardinality(one) /\ Cardinality(Ends(two, 2)) = Cardinality(two)
  BY <1>1, PairsAreEnds
<1> QED BY <1>2, <1>3, <1>4 DEF Texts, Saying, one, two

\* Each node is in one of four sets, and in one only.
Parts(D, I, J, K, L) ==
  /\ D = I \cup J \cup K \cup L
  /\ I \cap J = {} /\ (I \cup J) \cap K = {} /\ (I \cup J \cup K) \cap L = {}

LEMMA TextsOfParts ==
  ASSUME NEW I, Indices(I), NEW J, Indices(J), NEW K, Indices(K), NEW L, Indices(L),
         NEW D, Parts(D, I, J, K, L), NEW nodes, NEW s, NEW t
  PROVE  /\ Texts(nodes, D, s, t)
              = Texts(nodes, I, s, t) + Texts(nodes, J, s, t)
                + Texts(nodes, K, s, t) + Texts(nodes, L, s, t)
         /\ Texts(nodes, I, s, t) \in Nat /\ Texts(nodes, J, s, t) \in Nat
         /\ Texts(nodes, K, s, t) \in Nat /\ Texts(nodes, L, s, t) \in Nat
<1> DEFINE IJ  == I \cup J
           IJK == IJ \cup K
           count(X) == Texts(nodes, X, s, t)
           sums(X, Y) == /\ count(X \cup Y) = count(X) + count(Y)
                         /\ count(X) \in Nat /\ count(Y) \in Nat
<1>1. Apart(I, J) /\ Apart(IJ, K) /\ Apart(IJK, L) /\ D = IJK \cup L BY DEF Apart, Parts
<1>2. Indices(IJ) /\ Indices(IJK) BY FS_Union DEF Indices
<1>3. \A X, Y : Indices(X) /\ Indices(Y) /\ Apart(X, Y) => sums(X, Y) BY TextsOfUnion
<1> HIDE DEF sums
<1>4. sums(I, J) /\ sums(IJ, K) /\ sums(IJK, L)
  <2> HIDE DEF IJ, IJK
  <2> QED BY <1>1, <1>2, <1>3
<1> QED
  <2> HIDE DEF count
  <2>1. count(D) = count(I) + count(J) + count(K) + count(L)
        /\ count(I) \in Nat /\ count(J) \in Nat /\ count(K) \in Nat /\ count(L) \in Nat
    <3>1. count(IJ) = count(I) + count(J) /\ count(I) \in Nat /\ count(J) \in Nat
      BY <1>4 DEF sums
    <3>2. count(IJK) = count(IJ) + count(K) /\ count(K) \in Nat BY <1>4 DEF sums
    <3>3. count(D) = count(IJK) + count(L) /\ count(L) \in Nat BY <1>1, <1>4 DEF sums
    <3> QED BY <3>1, <3>2, <3>3
  <2> QED BY <2>1 DEF count

\* A report d is whole: its pairs are one-to-one, those not moved say the same
\* in the same section, and each node is removed or added, edited, moved or stays.
WholeReport(earlier, later, d, stays) ==
  /\ d.before = earlier /\ d.after = later
  /\ OneToOne(d.edited, DOMAIN earlier, DOMAIN later)
  /\ OneToOne(d.moved, DOMAIN earlier, DOMAIN later)
  /\ OneToOne(stays, DOMAIN earlier, DOMAIN later)
  /\ \A p \in stays : /\ earlier[p[1]].section = later[p[2]].section
                     /\ earlier[p[1]].text = later[p[2]].text
  /\ Parts(DOMAIN earlier, d.removed, Ends(d.edited, 1), Ends(d.moved, 1), Ends(stays, 1))
  /\ Parts(DOMAIN later, d.added, Ends(d.edited, 2), Ends(d.moved, 2), Ends(stays, 2))

LEMMA ReportIs ==
  ASSUME NEW earlier, Indices(DOMAIN earlier), NEW later, Indices(DOMAIN later)
  PROVE  WholeReport(earlier, later, ReportV2(earlier, later),
               ExactPairs(earlier, later) \ ReportV2(earlier, later).moved)
<1> DEFINE d     == ReportV2(earlier, later)
           exact == ExactPairs(earlier, later)
           stays  == exact \ d.moved
           B     == DOMAIN earlier
           A     == DOMAIN later
           restB == Left(B, exact, 1)
           restA == Left(A, exact, 2)
           place(n) == <<n.section, n.path>>
<1>1. OneToOne(exact, B, A) /\ \A p \in exact : earlier[p[1]].text = later[p[2]].text
  BY ExactPairsAre
<1>2. /\ restB = B \ Ends(exact, 1) /\ restA = A \ Ends(exact, 2)
      /\ Ends(exact, 1) \in SUBSET B /\ Ends(exact, 2) \in SUBSET A
      /\ Indices(restB) /\ Indices(restA)
  BY <1>1, LeftIs
<1>3. /\ d.before = earlier /\ d.after = later
      /\ d.edited = FirstFree(ByLevel(earlier), restB, ByLevel(later), restA)
      /\ d.removed = Left(restB, d.edited, 1) /\ d.added = Left(restA, d.edited, 2)
      /\ d.moved = {p \in exact : place(earlier[p[1]]) # place(later[p[2]])}
  BY DEF ReportV2, Report
<1>4. OneToOne(d.edited, restB, restA) BY <1>2, <1>3, FirstFreeIs
<1> HIDE DEF d, exact, restB, restA
<1>5. /\ d.removed = restB \ Ends(d.edited, 1) /\ d.added = restA \ Ends(d.edited, 2)
      /\ Ends(d.edited, 1) \in SUBSET restB /\ Ends(d.edited, 2) \in SUBSET restA
  <2>1. /\ Left(restB, d.edited, 1) = restB \ Ends(d.edited, 1)
        /\ Left(restA, d.edited, 2) = restA \ Ends(d.edited, 2)
        /\ Ends(d.edited, 1) \in SUBSET restB /\ Ends(d.edited, 2) \in SUBSET restA
    BY <1>2, <1>4, LeftIs
  <2> QED BY <1>3, <2>1
<1>6. OneToOne(d.edited, B, A) BY <1>2, <1>4 DEF OneToOne
<1>7. d.moved \in SUBSET exact BY <1>3
<1>8. OneToOne(d.moved, B, A) /\ OneToOne(stays, B, A) BY <1>1, <1>7, FewerPairs
<1>9. /\ Ends(exact, 1) = Ends(d.moved, 1) \cup Ends(stays, 1)
      /\ Ends(exact, 2) = Ends(d.moved, 2) \cup Ends(stays, 2)
  BY <1>7 DEF Ends
<1>10. Ends(d.moved, 1) \cap Ends(stays, 1) = {} /\ Ends(d.moved, 2) \cap Ends(stays, 2) = {}
  BY <1>1, <1>7 DEF Ends, OneToOne
<1>11. \A p \in stays : /\ earlier[p[1]].section = later[p[2]].section
                       /\ earlier[p[1]].text = later[p[2]].text
  BY <1>1, <1>3
<1>12. Parts(B, d.removed, Ends(d.edited, 1), Ends(d.moved, 1), Ends(stays, 1))
  BY <1>2, <1>5, <1>9, <1>10 DEF Parts
<1>13. Parts(A, d.added, Ends(d.edited, 2), Ends(d.moved, 2), Ends(stays, 2))
  BY <1>2, <1>5, <1>9, <1>10 DEF Parts
<1>14. WholeReport(earlier, later, d, stays) BY <1>3, <1>6, <1>8, <1>11, <1>12, <1>13 DEF WholeReport
<1> QED BY <1>14 DEF d, exact

\* What the report makes of the texts of the old state is what the new one has.
LEMMA ReportCounts ==
  ASSUME NEW earlier, Indices(DOMAIN earlier), NEW later, Indices(DOMAIN later), NEW s, NEW t
  PROVE  Replayed(ReportV2(earlier, later), s, t) = Texts(later, DOMAIN later, s, t)
<1> DEFINE d    == ReportV2(earlier, later)
           stays == ExactPairs(earlier, later) \ d.moved
           B    == DOMAIN earlier
           A    == DOMAIN later
           count(pairs, side, nodes) == Cardinality(PairsSaying(nodes, pairs, side, s, t))
<1>1. WholeReport(earlier, later, d, stays) BY ReportIs
<1>2. Replayed(d, s, t) =
        Texts(d.before, DOMAIN d.before, s, t)
        - Texts(d.before, d.removed, s, t) - count(d.edited, 1, d.before) - count(d.moved, 1, d.before)
        + Texts(d.after, d.added, s, t) + count(d.edited, 2, d.after) + count(d.moved, 2, d.after)
  BY DEF Replayed, PairsSaying
<1> HIDE DEF d, stays
<1>3. \A I, D : I \in SUBSET D /\ Indices(D) => Indices(I)
  <2> SUFFICES ASSUME NEW I, NEW D, I \in SUBSET D, Indices(D) PROVE Indices(I) OBVIOUS
  <2>1. IsFiniteSet(I) BY FS_Subset DEF Indices
  <2> QED BY <2>1 DEF Indices
<1>4. /\ Indices(d.removed) /\ Indices(Ends(d.edited, 1))
      /\ Indices(Ends(d.moved, 1)) /\ Indices(Ends(stays, 1))
  <2>1. /\ d.removed \in SUBSET B /\ Ends(d.edited, 1) \in SUBSET B
        /\ Ends(d.moved, 1) \in SUBSET B /\ Ends(stays, 1) \in SUBSET B
    BY <1>1 DEF WholeReport, Parts
  <2> QED BY <1>3, <2>1
<1>5. /\ Indices(d.added) /\ Indices(Ends(d.edited, 2))
      /\ Indices(Ends(d.moved, 2)) /\ Indices(Ends(stays, 2))
  <2>1. /\ d.added \in SUBSET A /\ Ends(d.edited, 2) \in SUBSET A
        /\ Ends(d.moved, 2) \in SUBSET A /\ Ends(stays, 2) \in SUBSET A
    BY <1>1 DEF WholeReport, Parts
  <2> QED BY <1>3, <2>1
<1>6. /\ Texts(earlier, B, s, t)
           = Texts(earlier, d.removed, s, t) + Texts(earlier, Ends(d.edited, 1), s, t)
             + Texts(earlier, Ends(d.moved, 1), s, t) + Texts(earlier, Ends(stays, 1), s, t)
      /\ Texts(earlier, d.removed, s, t) \in Nat /\ Texts(earlier, Ends(d.edited, 1), s, t) \in Nat
      /\ Texts(earlier, Ends(d.moved, 1), s, t) \in Nat /\ Texts(earlier, Ends(stays, 1), s, t) \in Nat
  <2>1. Parts(B, d.removed, Ends(d.edited, 1), Ends(d.moved, 1), Ends(stays, 1))
    BY <1>1 DEF WholeReport
  <2> QED BY <1>4, <2>1, TextsOfParts
<1>7. /\ Texts(later, A, s, t)
           = Texts(later, d.added, s, t) + Texts(later, Ends(d.edited, 2), s, t)
             + Texts(later, Ends(d.moved, 2), s, t) + Texts(later, Ends(stays, 2), s, t)
      /\ Texts(later, d.added, s, t) \in Nat /\ Texts(later, Ends(d.edited, 2), s, t) \in Nat
      /\ Texts(later, Ends(d.moved, 2), s, t) \in Nat /\ Texts(later, Ends(stays, 2), s, t) \in Nat
  <2>1. Parts(A, d.added, Ends(d.edited, 2), Ends(d.moved, 2), Ends(stays, 2))
    BY <1>1 DEF WholeReport
  <2> QED BY <1>5, <2>1, TextsOfParts
<1>8. OneToOne(d.edited, B, A) /\ OneToOne(d.moved, B, A) /\ OneToOne(stays, B, A)
  BY <1>1 DEF WholeReport
<1>9. /\ count(d.edited, 1, earlier) = Texts(earlier, Ends(d.edited, 1), s, t)
      /\ count(d.edited, 2, later) = Texts(later, Ends(d.edited, 2), s, t)
      /\ count(d.moved, 1, earlier) = Texts(earlier, Ends(d.moved, 1), s, t)
      /\ count(d.moved, 2, later) = Texts(later, Ends(d.moved, 2), s, t)
      /\ count(stays, 1, earlier) = Texts(earlier, Ends(stays, 1), s, t)
      /\ count(stays, 2, later) = Texts(later, Ends(stays, 2), s, t)
  BY <1>8, TextsOfEnds
<1>10. PairsSaying(earlier, stays, 1, s, t) = PairsSaying(later, stays, 2, s, t)
  BY <1>1 DEF WholeReport, PairsSaying
<1>11. Texts(earlier, Ends(stays, 1), s, t) = Texts(later, Ends(stays, 2), s, t) BY <1>9, <1>10
<1>12. d.before = earlier /\ d.after = later BY <1>1 DEF WholeReport
<1>13. Replayed(d, s, t) =
         Texts(earlier, B, s, t) - Texts(earlier, d.removed, s, t)
         - Texts(earlier, Ends(d.edited, 1), s, t) - Texts(earlier, Ends(d.moved, 1), s, t)
         + Texts(later, d.added, s, t) + Texts(later, Ends(d.edited, 2), s, t)
         + Texts(later, Ends(d.moved, 2), s, t)
  BY <1>2, <1>9, <1>12
<1>14. Replayed(d, s, t) = Texts(later, A, s, t) BY <1>6, <1>7, <1>11, <1>13
<1> QED BY <1>14 DEF d

\* A report that says nothing is about one state.
LEMMA EmptyReport ==
  ASSUME NEW earlier, Indices(DOMAIN earlier), NEW later, Indices(DOMAIN later),
         \A r \in DiffKeys : ReportV2(earlier, later)[r] = {},
         \A n \in Range(earlier) \cup Range(later) : n.section # "tasks" => n.checked = FALSE
  PROVE  {<<n.section, n.path, n.checked>> : n \in Range(earlier)}
           = {<<n.section, n.path, n.checked>> : n \in Range(later)}
<1> DEFINE d     == ReportV2(earlier, later)
           exact == ExactPairs(earlier, later)
           B     == DOMAIN earlier
           A     == DOMAIN later
           says(n) == <<n.section, n.path, n.checked>>
           place(n) == <<n.section, n.path>>
<1>1. d.added = {} /\ d.removed = {} /\ d.edited = {} /\ d.moved = {} /\ d.taskStateChanged = {}
  BY DEF DiffKeys
<1>2. WholeReport(earlier, later, d, exact \ d.moved) BY ReportIs
<1>3. /\ d.moved = {p \in exact : place(earlier[p[1]]) # place(later[p[2]])}
      /\ d.taskStateChanged =
           {p \in exact \cup d.edited :
              /\ earlier[p[1]].section = "tasks" /\ later[p[2]].section = "tasks"
              /\ earlier[p[1]].checked # later[p[2]].checked}
  BY DEF ReportV2, Report
<1> HIDE DEF d, exact
<1>4. exact \ d.moved = exact BY <1>1
<1>5. /\ B = Ends(exact, 1) /\ A = Ends(exact, 2) /\ OneToOne(exact, B, A)
  <2>1. Ends(d.edited, 1) = {} /\ Ends(d.moved, 1) = {} /\ Ends(d.edited, 2) = {}
        /\ Ends(d.moved, 2) = {}
    BY <1>1 DEF Ends
  <2> QED BY <1>1, <1>2, <1>4, <2>1 DEF WholeReport, Parts
<1>6. ASSUME NEW p \in exact PROVE says(earlier[p[1]]) = says(later[p[2]])
  <2> DEFINE m == earlier[p[1]]
             n == later[p[2]]
  <2>1. p[1] \in B /\ p[2] \in A BY <1>5 DEF OneToOne
  <2>2. m \in Range(earlier) /\ n \in Range(later) BY <2>1 DEF Range
  <2>3. m.section = n.section /\ m.path = n.path BY <1>1, <1>3
  <2>4. m.checked = n.checked
    <3>1. CASE m.section = "tasks" BY <1>1, <1>3, <2>3, <3>1
    <3>2. CASE m.section # "tasks"
      <4>1. m.checked = FALSE BY <2>2, <3>2
      <4>2. n.checked = FALSE BY <2>2, <2>3, <3>2
      <4> QED BY <4>1, <4>2
    <3> QED BY <3>1, <3>2
  <2> QED BY <2>3, <2>4
<1> HIDE DEF says
<1>7. ASSUME NEW i \in B PROVE \E j \in A : says(earlier[i]) = says(later[j])
  <2>1. PICK p \in exact : p[1] = i BY <1>5 DEF Ends
  <2>2. p[2] \in A BY <1>5 DEF OneToOne
  <2> QED BY <1>6, <2>1, <2>2
<1>8. ASSUME NEW j \in A PROVE \E i \in B : says(earlier[i]) = says(later[j])
  <2>1. PICK p \in exact : p[2] = j BY <1>5 DEF Ends
  <2>2. p[1] \in B BY <1>5 DEF OneToOne
  <2> QED BY <1>6, <2>1, <2>2
<1>9. \A n \in Range(earlier) : \E m \in Range(later) : says(n) = says(m) BY <1>7 DEF Range
<1>10. \A m \in Range(later) : \E n \in Range(earlier) : says(n) = says(m) BY <1>8 DEF Range
<1>11. {says(n) : n \in Range(earlier)} = {says(n) : n \in Range(later)} BY <1>9, <1>10
<1> QED BY <1>11 DEF says

-----------------------------------------------------------------------------

\* What a v3 snapshot says of a node.
IsRow(n) ==
  n = [id |-> n.id, section |-> n.section, parent |-> n.parent, order |-> n.order,
       label |-> n.label, origin |-> n.origin, summary |-> n.summary, body |-> n.body,
       taskState |-> n.taskState, high |-> n.high]
V3State(state) == Indices(DOMAIN state.nodes) /\ \A i \in DOMAIN state.nodes : IsRow(state.nodes[i])

\* The entry of an ID is one of the rows that have it.
LEMMA ByIdIs ==
  ASSUME NEW rows, Indices(DOMAIN rows), NEW id \in DOMAIN ById(rows)
  PROVE  \E k \in DOMAIN rows : rows[k].id = id /\ ById(rows)[id] = rows[k]
<1> DEFINE like == {i \in DOMAIN rows : rows[i].id = id}
<1>1. like # {} BY DEF ById, Range
<1>2. Indices(like)
  <2>1. like \in SUBSET DOMAIN rows OBVIOUS
  <2> QED BY <2>1, FS_Subset DEF Indices
<1>3. Max(like) \in like
  <2>1. PICK m \in like : \A i \in like : m >= i
    <3> DEFINE stamp == [i \in like |-> [at |-> i]]
               stamps == {stamp[i] : i \in like}
    <3>1. stamp \in Surjection(like, stamps) BY DEF Surjection
    <3>2. IsFiniteSet(stamps) BY <1>2, <3>1, FS_Surjection DEF Indices
    <3>3. \A s \in stamps : \E i \in like : s = [at |-> i] OBVIOUS
    <3>4. \A i \in like : [at |-> i] \in stamps OBVIOUS
    <3>5. \A i \in like : i \in Int BY <1>2 DEF Indices
    <3> HIDE DEF stamps, like
    <3>6. stamps # {} BY <1>1, <3>4
    <3>7. Timed(stamps) BY <3>2, <3>3, <3>5 DEF Timed
    <3>8. PICK n : Newest(stamps, n) BY <3>6, <3>7, NewestExists
    <3>9. PICK m \in like : n = [at |-> m] BY <3>3, <3>8 DEF Newest
    <3>10. ASSUME NEW i \in like PROVE m >= i
      <4>1. [at |-> i].at <= n.at BY <3>4, <3>8 DEF Newest
      <4> QED BY <3>5, <3>9, <4>1
    <3> QED BY <3>9, <3>10
  <2> QED BY <2>1 DEF Max
<1>4. ById(rows)[id] = rows[Max(like)] BY DEF ById
<1> QED BY <1>3, <1>4

\* A row that is alone with its ID is the entry.
LEMMA SingleIs ==
  ASSUME NEW state, V3State(state)
  PROVE  /\ DOMAIN ById(state.nodes) = IdsIn(Rows(state))
         /\ \A id \in IdsIn(Rows(state)) :
              ById(state.nodes)[id] \in Rows(state) /\ ById(state.nodes)[id].id = id
         /\ \A n \in Rows(state) : IsRow(n) /\ n.id \in IdsIn(Rows(state))
         /\ \A n \in Rows(state) : Single(state, n.id) => ById(state.nodes)[n.id] = n
<1>1. DOMAIN ById(state.nodes) = IdsIn(Rows(state)) BY DEF ById, IdsIn, Rows
<1>2. \A id \in IdsIn(Rows(state)) :
        \E k \in DOMAIN state.nodes :
          state.nodes[k].id = id /\ ById(state.nodes)[id] = state.nodes[k]
  BY <1>1, ByIdIs DEF V3State
<1>3. \A n \in Rows(state) : \E i \in DOMAIN state.nodes : n = state.nodes[i]
  BY DEF Rows, Range
<1>4. \A i \in DOMAIN state.nodes : state.nodes[i] \in Rows(state) BY DEF Rows, Range
<1>5. \A n \in Rows(state) : IsRow(n) BY <1>3 DEF V3State
<1>6. \A n \in Rows(state) : n.id \in IdsIn(Rows(state)) BY DEF IdsIn
<1>7. ASSUME NEW n \in Rows(state), Single(state, n.id) PROVE ById(state.nodes)[n.id] = n
  <2>1. PICK i \in DOMAIN state.nodes : n = state.nodes[i] BY <1>3
  <2>2. PICK k \in DOMAIN state.nodes :
          state.nodes[k].id = n.id /\ ById(state.nodes)[n.id] = state.nodes[k]
    BY <1>2, <1>6
  <2>3. i = k BY <1>7, <2>1, <2>2 DEF Single
  <2> QED BY <2>1, <2>2, <2>3
<1>8. \A id \in IdsIn(Rows(state)) :
        ById(state.nodes)[id] \in Rows(state) /\ ById(state.nodes)[id].id = id
  BY <1>2, <1>4
<1> QED BY <1>1, <1>5, <1>6, <1>7, <1>8

\* What a report tells of an aspect of the rows: of these it was this and is that.
Tells(entries, ids, was, is) ==
  entries = {[id |-> x, before |-> was[x], after |-> is[x]] : x \in ids}

\* The entries say one thing of an ID, and nothing of one they leave out.
LEMMA AfterIs ==
  ASSUME NEW ids, NEW was, NEW is, NEW entries, Tells(entries, ids, was, is)
  PROVE  /\ \A id \in ids : \A value : After(entries, id, value) = is[id]
         /\ \A id : id \notin ids => \A value : After(entries, id, value) = value
         /\ entries = {} => ids = {}
<1>1. ASSUME NEW id \in ids, NEW value PROVE After(entries, id, value) = is[id]
  <2> DEFINE entry == [id |-> id, before |-> was[id], after |-> is[id]]
  <2>1. entry \in entries /\ entry.id = id BY DEF Tells
  <2>2. \A e \in entries : e.id = id => e = entry BY DEF Tells
  <2> HIDE DEF entry
  <2>3. (CHOOSE e \in entries : e.id = id) = entry BY <2>1, <2>2
  <2>4. After(entries, id, value) = entry.after BY <2>1, <2>3 DEF After
  <2> QED BY <2>4 DEF entry
<1>2. ASSUME NEW id, id \notin ids, NEW value PROVE After(entries, id, value) = value
  <2>1. \A e \in entries : e.id # id BY <1>2 DEF Tells
  <2> QED BY <2>1 DEF After
<1>3. entries = {} => ids = {} BY DEF Tells
<1> QED BY <1>1, <1>2, <1>3

LEMMA ToldIs ==
  ASSUME NEW entries, NEW both, NEW was, NEW is, NEW differ, Tells(entries, differ, was, is),
         \A x \in both : x \notin differ => was[x] = is[x]
  PROVE  /\ \A id \in both : After(entries, id, was[id]) = is[id]
         /\ entries = {} => differ = {}
<1>1. /\ \A id \in differ : \A value : After(entries, id, value) = is[id]
      /\ \A id : id \notin differ => \A value : After(entries, id, value) = value
      /\ entries = {} => differ = {}
  BY AfterIs
<1>2. ASSUME NEW id \in both PROVE After(entries, id, was[id]) = is[id]
  <2>1. CASE id \in differ BY <1>1, <2>1
  <2>2. CASE id \notin differ
    <3>1. After(entries, id, was[id]) = was[id] BY <1>1, <2>2
    <3> QED BY <2>2, <3>1
  <2> QED BY <2>1, <2>2
<1> QED BY <1>1, <1>2

\* What the classes of a report are.
LEMMA ReportV3Is ==
  ASSUME NEW earlier, NEW later
  PROVE  LET d    == DiffV3States(earlier, later)
             old  == ById(earlier.nodes)
             new  == ById(later.nodes)
             both == DOMAIN old \cap DOMAIN new
             says(n) == [id |-> n.id, section |-> n.section, label |-> n.label]
         IN  /\ d.added = {says(new[id]) : id \in DOMAIN new \ DOMAIN old}
             /\ d.deleted = {says(old[id]) : id \in DOMAIN old \ DOMAIN new}
             /\ d.moved = {[id |-> x, before |-> Place(old[x]), after |-> Place(new[x])] :
                             x \in {y \in both : Place(old[y]) # Place(new[y])}}
             /\ d.labelEdited = {[id |-> x, before |-> old[x].label, after |-> new[x].label] :
                                   x \in {y \in both : old[y].label # new[y].label}}
             /\ d.summaryEdited = {[id |-> x, before |-> old[x].summary, after |-> new[x].summary] :
                                     x \in {y \in both : old[y].summary # new[y].summary}}
             /\ d.bodyEdited = {[id |-> x, before |-> old[x].body, after |-> new[x].body] :
                                  x \in {y \in both : old[y].body # new[y].body}}
             /\ d.taskStateChanged = {[id |-> x, before |-> IsDone(old[x]), after |-> IsDone(new[x])] :
                                        x \in {y \in both : old[y].taskState # new[y].taskState}}
             /\ d.attributesChanged = {[id |-> x, before |-> old[x].high, after |-> new[x].high] :
                                         x \in {y \in both : old[y].high # new[y].high}}
BY DEF DiffV3States

\* What the report tells of rows alone with their ID, before and after.
RowReplays(m, n, d) ==
  /\ After(d.moved, m.id, Place(m)) = Place(n)
  /\ After(d.labelEdited, m.id, m.label) = n.label
  /\ After(d.summaryEdited, m.id, m.summary) = n.summary
  /\ After(d.bodyEdited, m.id, m.body) = n.body
  /\ After(d.taskStateChanged, m.id, IsDone(m)) = IsDone(n)
  /\ After(d.attributesChanged, m.id, m.high) = n.high

\* Nothing that a report tells is different.
SameRow(m, n) ==
  /\ Place(m) = Place(n) /\ m.label = n.label /\ m.summary = n.summary /\ m.body = n.body
  /\ m.taskState = n.taskState /\ m.high = n.high

LEMMA RowsAreTold ==
  ASSUME NEW earlier, NEW later,
         NEW id \in DOMAIN ById(earlier.nodes) \cap DOMAIN ById(later.nodes),
         NEW m, m = ById(earlier.nodes)[id], m.id = id, NEW n, n = ById(later.nodes)[id]
  PROVE  LET d == DiffV3States(earlier, later)
         IN  /\ RowReplays(m, n, d)
             /\ (\A k \in V3DiffClasses : d[k] = {}) => SameRow(m, n)
<1> DEFINE d    == DiffV3States(earlier, later)
           old  == ById(earlier.nodes)
           new  == ById(later.nodes)
           both == DOMAIN old \cap DOMAIN new
<1>1. /\ d.moved = {[id |-> x, before |-> Place(old[x]), after |-> Place(new[x])] :
                      x \in {y \in both : Place(old[y]) # Place(new[y])}}
      /\ d.labelEdited = {[id |-> x, before |-> old[x].label, after |-> new[x].label] :
                            x \in {y \in both : old[y].label # new[y].label}}
      /\ d.summaryEdited = {[id |-> x, before |-> old[x].summary, after |-> new[x].summary] :
                              x \in {y \in both : old[y].summary # new[y].summary}}
      /\ d.bodyEdited = {[id |-> x, before |-> old[x].body, after |-> new[x].body] :
                           x \in {y \in both : old[y].body # new[y].body}}
      /\ d.taskStateChanged = {[id |-> x, before |-> IsDone(old[x]), after |-> IsDone(new[x])] :
                                 x \in {y \in both : old[y].taskState # new[y].taskState}}
      /\ d.attributesChanged = {[id |-> x, before |-> old[x].high, after |-> new[x].high] :
                                  x \in {y \in both : old[y].high # new[y].high}}
  BY ReportV3Is
<1> HIDE DEF d, old, new
<1>2. /\ After(d.moved, id, Place(old[id])) = Place(new[id])
      /\ d.moved = {} => Place(old[id]) = Place(new[id])
  <2> DEFINE was == [x \in both |-> Place(old[x])]
             is  == [x \in both |-> Place(new[x])]
             differ == {x \in both : Place(old[x]) # Place(new[x])}
  <2>1. \A x \in both : was[x] = Place(old[x]) /\ is[x] = Place(new[x]) OBVIOUS
  <2>2. d.moved = {[id |-> x, before |-> was[x], after |-> is[x]] : x \in differ} BY <1>1, <2>1
  <2>3. id \in both BY DEF old, new
  <2> HIDE DEF was, is
  <2>4. Tells(d.moved, differ, was, is) BY <2>2 DEF Tells
  <2>5. \A x \in both : x \notin differ => was[x] = is[x] BY <2>1
  <2> HIDE DEF both, differ
  <2>6. After(d.moved, id, was[id]) = is[id] BY <2>3, <2>4, <2>5, ToldIs
  <2>7. d.moved = {} => differ = {} BY <2>4, <2>5, ToldIs
  <2> QED BY <2>1, <2>3, <2>6, <2>7 DEF differ
<1>3. /\ After(d.labelEdited, id, old[id].label) = new[id].label
      /\ d.labelEdited = {} => old[id].label = new[id].label
  <2> DEFINE was == [x \in both |-> old[x].label]
             is  == [x \in both |-> new[x].label]
             differ == {x \in both : old[x].label # new[x].label}
  <2>1. \A x \in both : was[x] = old[x].label /\ is[x] = new[x].label OBVIOUS
  <2>2. d.labelEdited = {[id |-> x, before |-> was[x], after |-> is[x]] : x \in differ} BY <1>1, <2>1
  <2>3. id \in both BY DEF old, new
  <2> HIDE DEF was, is
  <2>4. Tells(d.labelEdited, differ, was, is) BY <2>2 DEF Tells
  <2>5. \A x \in both : x \notin differ => was[x] = is[x] BY <2>1
  <2> HIDE DEF both, differ
  <2>6. After(d.labelEdited, id, was[id]) = is[id] BY <2>3, <2>4, <2>5, ToldIs
  <2>7. d.labelEdited = {} => differ = {} BY <2>4, <2>5, ToldIs
  <2> QED BY <2>1, <2>3, <2>6, <2>7 DEF differ
<1>4. /\ After(d.summaryEdited, id, old[id].summary) = new[id].summary
      /\ d.summaryEdited = {} => old[id].summary = new[id].summary
  <2> DEFINE was == [x \in both |-> old[x].summary]
             is  == [x \in both |-> new[x].summary]
             differ == {x \in both : old[x].summary # new[x].summary}
  <2>1. \A x \in both : was[x] = old[x].summary /\ is[x] = new[x].summary OBVIOUS
  <2>2. d.summaryEdited = {[id |-> x, before |-> was[x], after |-> is[x]] : x \in differ} BY <1>1, <2>1
  <2>3. id \in both BY DEF old, new
  <2> HIDE DEF was, is
  <2>4. Tells(d.summaryEdited, differ, was, is) BY <2>2 DEF Tells
  <2>5. \A x \in both : x \notin differ => was[x] = is[x] BY <2>1
  <2> HIDE DEF both, differ
  <2>6. After(d.summaryEdited, id, was[id]) = is[id] BY <2>3, <2>4, <2>5, ToldIs
  <2>7. d.summaryEdited = {} => differ = {} BY <2>4, <2>5, ToldIs
  <2> QED BY <2>1, <2>3, <2>6, <2>7 DEF differ
<1>5. /\ After(d.bodyEdited, id, old[id].body) = new[id].body
      /\ d.bodyEdited = {} => old[id].body = new[id].body
  <2> DEFINE was == [x \in both |-> old[x].body]
             is  == [x \in both |-> new[x].body]
             differ == {x \in both : old[x].body # new[x].body}
  <2>1. \A x \in both : was[x] = old[x].body /\ is[x] = new[x].body OBVIOUS
  <2>2. d.bodyEdited = {[id |-> x, before |-> was[x], after |-> is[x]] : x \in differ} BY <1>1, <2>1
  <2>3. id \in both BY DEF old, new
  <2> HIDE DEF was, is
  <2>4. Tells(d.bodyEdited, differ, was, is) BY <2>2 DEF Tells
  <2>5. \A x \in both : x \notin differ => was[x] = is[x] BY <2>1
  <2> HIDE DEF both, differ
  <2>6. After(d.bodyEdited, id, was[id]) = is[id] BY <2>3, <2>4, <2>5, ToldIs
  <2>7. d.bodyEdited = {} => differ = {} BY <2>4, <2>5, ToldIs
  <2> QED BY <2>1, <2>3, <2>6, <2>7 DEF differ
<1>6. /\ After(d.taskStateChanged, id, IsDone(old[id])) = IsDone(new[id])
      /\ d.taskStateChanged = {} => old[id].taskState = new[id].taskState
  <2> DEFINE was == [x \in both |-> IsDone(old[x])]
             is  == [x \in both |-> IsDone(new[x])]
             differ == {x \in both : old[x].taskState # new[x].taskState}
  <2>1. \A x \in both : was[x] = IsDone(old[x]) /\ is[x] = IsDone(new[x]) OBVIOUS
  <2>2. d.taskStateChanged = {[id |-> x, before |-> was[x], after |-> is[x]] : x \in differ} BY <1>1, <2>1
  <2>3. id \in both BY DEF old, new
  <2> HIDE DEF was, is
  <2>4. Tells(d.taskStateChanged, differ, was, is) BY <2>2 DEF Tells
  <2>5. \A x \in both : x \notin differ => was[x] = is[x] BY <2>1 DEF IsDone
  <2> HIDE DEF both, differ
  <2>6. After(d.taskStateChanged, id, was[id]) = is[id] BY <2>3, <2>4, <2>5, ToldIs
  <2>7. d.taskStateChanged = {} => differ = {} BY <2>4, <2>5, ToldIs
  <2> QED BY <2>1, <2>3, <2>6, <2>7 DEF differ
<1>7. /\ After(d.attributesChanged, id, old[id].high) = new[id].high
      /\ d.attributesChanged = {} => old[id].high = new[id].high
  <2> DEFINE was == [x \in both |-> old[x].high]
             is  == [x \in both |-> new[x].high]
             differ == {x \in both : old[x].high # new[x].high}
  <2>1. \A x \in both : was[x] = old[x].high /\ is[x] = new[x].high OBVIOUS
  <2>2. d.attributesChanged = {[id |-> x, before |-> was[x], after |-> is[x]] : x \in differ} BY <1>1, <2>1
  <2>3. id \in both BY DEF old, new
  <2> HIDE DEF was, is
  <2>4. Tells(d.attributesChanged, differ, was, is) BY <2>2 DEF Tells
  <2>5. \A x \in both : x \notin differ => was[x] = is[x] BY <2>1
  <2> HIDE DEF both, differ
  <2>6. After(d.attributesChanged, id, was[id]) = is[id] BY <2>3, <2>4, <2>5, ToldIs
  <2>7. d.attributesChanged = {} => differ = {} BY <2>4, <2>5, ToldIs
  <2> QED BY <2>1, <2>3, <2>6, <2>7 DEF differ
<1>8. m = old[id] /\ n = new[id] BY DEF old, new
<1>9. RowReplays(m, n, d) BY <1>2, <1>3, <1>4, <1>5, <1>6, <1>7, <1>8 DEF RowReplays
<1>10. (\A k \in V3DiffClasses : d[k] = {}) => SameRow(m, n)
  BY <1>2, <1>3, <1>4, <1>5, <1>6, <1>7, <1>8 DEF SameRow, V3DiffClasses
<1> QED BY <1>9, <1>10 DEF d

\* The report of a v3 diff leads from the state before to the state after, row
\* by row, but for rows that share their ID; and if it is empty, the states are
\* one but for what no report tells (order, origin, unknown sections, and the
\* rows that share their ID): for any two v3 states.
THEOREM V3ReportReplays ==
  ASSUME NEW earlier, V3State(earlier), NEW later, V3State(later)
  PROVE  ReplaysV3(earlier, later, DiffV3States(earlier, later))
<1> DEFINE d   == DiffV3States(earlier, later)
           old == ById(earlier.nodes)
           new == ById(later.nodes)
           says(n) == [id |-> n.id, section |-> n.section, label |-> n.label]
<1>1. /\ d.added = {says(new[id]) : id \in DOMAIN new \ DOMAIN old}
      /\ d.deleted = {says(old[id]) : id \in DOMAIN old \ DOMAIN new}
  BY DEF DiffV3States
<1>2. /\ DOMAIN old = IdsIn(Rows(earlier)) /\ DOMAIN new = IdsIn(Rows(later))
      /\ \A id \in IdsIn(Rows(earlier)) : old[id] \in Rows(earlier) /\ old[id].id = id
      /\ \A id \in IdsIn(Rows(later)) : new[id] \in Rows(later) /\ new[id].id = id
      /\ \A n \in Rows(earlier) : IsRow(n) /\ n.id \in IdsIn(Rows(earlier))
      /\ \A n \in Rows(later) : IsRow(n) /\ n.id \in IdsIn(Rows(later))
      /\ \A n \in Rows(earlier) : Single(earlier, n.id) => old[n.id] = n
      /\ \A n \in Rows(later) : Single(later, n.id) => new[n.id] = n
  BY SingleIs
<1>3. ASSUME NEW m \in Rows(earlier), NEW n \in Rows(later), m.id = n.id,
             Single(earlier, m.id), Single(later, m.id)
      PROVE  RowReplays(m, n, d) /\ ((\A k \in V3DiffClasses : d[k] = {}) => SameRow(m, n))
  <2>1. m.id \in DOMAIN old \cap DOMAIN new /\ m = old[m.id] /\ n = new[m.id]
    BY <1>2, <1>3
  <2> QED BY <2>1, RowsAreTold
<1> HIDE DEF d, old, new
<1>4. IdsIn(Rows(later)) = (IdsIn(Rows(earlier)) \ IdsIn(d.deleted)) \cup IdsIn(d.added)
  <2>1. IdsIn(d.added) = DOMAIN new \ DOMAIN old
    <3>1. \A e \in d.added : \E id \in DOMAIN new \ DOMAIN old : e = says(new[id]) BY <1>1
    <3>2. \A id \in DOMAIN new \ DOMAIN old : says(new[id]) \in d.added BY <1>1
    <3>3. \A id \in DOMAIN new : says(new[id]).id = id BY <1>2
    <3> HIDE DEF says
    <3>4. \A e \in d.added : e.id \in DOMAIN new \ DOMAIN old BY <3>1, <3>3
    <3>5. \A id \in DOMAIN new \ DOMAIN old : \E e \in d.added : e.id = id BY <3>2, <3>3
    <3> QED BY <3>4, <3>5 DEF IdsIn
  <2>2. IdsIn(d.deleted) = DOMAIN old \ DOMAIN new
    <3>1. \A e \in d.deleted : \E id \in DOMAIN old \ DOMAIN new : e = says(old[id]) BY <1>1
    <3>2. \A id \in DOMAIN old \ DOMAIN new : says(old[id]) \in d.deleted BY <1>1
    <3>3. \A id \in DOMAIN old : says(old[id]).id = id BY <1>2
    <3> HIDE DEF says
    <3>4. \A e \in d.deleted : e.id \in DOMAIN old \ DOMAIN new BY <3>1, <3>3
    <3>5. \A id \in DOMAIN old \ DOMAIN new : \E e \in d.deleted : e.id = id BY <3>2, <3>3
    <3> QED BY <3>4, <3>5 DEF IdsIn
  <2> QED BY <1>2, <2>1, <2>2
<1>5. ASSUME NEW n \in Rows(later), NEW e \in d.added, n.id = e.id, Single(later, n.id)
      PROVE  n.section = e.section /\ n.label = e.label
  <2>1. PICK id \in DOMAIN new \ DOMAIN old : e = says(new[id]) BY <1>1
  <2>2. id = n.id /\ new[id] = n BY <1>2, <1>5, <2>1
  <2> QED BY <2>1, <2>2
<1>6. ASSUME \A k \in V3DiffClasses : d[k] = {}, ~Overlooked(earlier, later)
      PROVE  Rows(earlier) = Rows(later) /\ earlier.extras = later.extras
  <2>1. /\ earlier.extras = later.extras
        /\ \A n \in Rows(earlier) \cup Rows(later) : Single(earlier, n.id) /\ Single(later, n.id)
        /\ \A m \in Rows(earlier), n \in Rows(later) :
             m.id = n.id => m.order = n.order /\ m.origin = n.origin
    BY <1>6 DEF Overlooked
  <2>2. d.added = {} /\ d.deleted = {} BY <1>6 DEF V3DiffClasses
  <2>3. IdsIn(Rows(earlier)) = IdsIn(Rows(later)) BY <1>4, <2>2 DEF IdsIn
  <2>4. ASSUME NEW m \in Rows(earlier), NEW n \in Rows(later), m.id = n.id PROVE m = n
    <3>1. SameRow(m, n) BY <1>3, <1>6, <2>1, <2>4
    <3>2. m.section = n.section /\ m.parent = n.parent BY <3>1 DEF SameRow, Place
    <3>3. IsRow(m) /\ IsRow(n) BY <1>2
    <3> QED BY <2>1, <2>4, <3>1, <3>2, <3>3 DEF SameRow, IsRow
  <2>5. \A m \in Rows(earlier) : new[m.id] \in Rows(later) /\ new[m.id].id = m.id BY <1>2, <2>3
  <2>6. \A n \in Rows(later) : old[n.id] \in Rows(earlier) /\ old[n.id].id = n.id BY <1>2, <2>3
  <2>7. \A m \in Rows(earlier) : m \in Rows(later) BY <2>4, <2>5
  <2>8. \A n \in Rows(later) : n \in Rows(earlier) BY <2>4, <2>6
  <2> QED BY <2>1, <2>7, <2>8
<1>7. ReplaysV3(earlier, later, d)
  BY <1>3, <1>4, <1>5, <1>6 DEF ReplaysV3, RowReplays, Place, IsDone
<1> QED BY <1>7 DEF d

-----------------------------------------------------------------------------
(* Sequences.                                                              *)

\* What holds at 0 and is handed on from each number to the next.
LEMMA CountUp ==
  ASSUME NEW n \in Nat, NEW G, 0 \in G, \A i \in 1..n : i - 1 \in G => i \in G
  PROVE  \A i \in 0..n : i \in G
<1> DEFINE R   == OpToRel(<, Nat)
           Bad == {i \in 0..n : i \notin G}
<1>1. IsWellFoundedOn(R, Nat) BY NatLessThanWellFounded
<1>2. SUFFICES ASSUME Bad # {} PROVE FALSE OBVIOUS
<1>3. PICK m \in Bad : \A j \in Bad : <<j, m>> \notin R
  <2>1. Bad \subseteq Nat OBVIOUS
  <2> HIDE DEF Bad, R
  <2> QED BY <1>1, <1>2, <2>1, WFMin
<1>4. m \in 1..n /\ m - 1 \in 0..n /\ m - 1 \notin G OBVIOUS
<1>5. <<m - 1, m>> \in R BY <1>4 DEF OpToRel
<1> QED BY <1>3, <1>4, <1>5

\* What is defined from the value before it, is there.
Stepped(f, n, base, step) == f[0] = base /\ \A i \in 1..n : f[i] = step[<<i, f[i - 1]>>]

LEMMA StepsExist ==
  ASSUME NEW n \in Nat, NEW A, NEW base \in A, NEW step \in [(1..n) \X A -> A]
  PROVE  \E f \in [0..n -> A] : Stepped(f, n, base, step)
<1> DEFINE Runs(m, f) == f[0] = base /\ \A i \in 1..m : f[i] = step[<<i, f[i - 1]>>]
           Run(m) == \E f \in [0..m -> A] : Runs(m, f)
           G == {m \in 0..n : Run(m)}
<1>1. Run(0)
  <2> DEFINE f == [i \in 0..0 |-> base]
  <2>1. f \in [0..0 -> A] /\ Runs(0, f) OBVIOUS
  <2> HIDE DEF Runs, f
  <2> QED BY <2>1
<1>2. ASSUME NEW m \in 1..n, Run(m - 1) PROVE Run(m)
  <2>1. PICK f \in [0..m - 1 -> A] : Runs(m - 1, f) BY <1>2
  <2> DEFINE g == [i \in 0..m |-> IF i = m THEN step[<<m, f[m - 1]>>] ELSE f[i]]
  <2>2. f[m - 1] \in A /\ step[<<m, f[m - 1]>>] \in A BY <2>1
  <2>3. g \in [0..m -> A] BY <2>1, <2>2
  <2>4. g[m] = step[<<m, f[m - 1]>>] /\ \A i \in 0..m - 1 : g[i] = f[i] OBVIOUS
  <2> HIDE DEF g
  <2>5. g[0] = base BY <2>1, <2>4
  <2>6. ASSUME NEW i \in 1..m PROVE g[i] = step[<<i, g[i - 1]>>]
    <3>1. i - 1 \in 0..m - 1 /\ g[i - 1] = f[i - 1] BY <2>4
    <3>2. CASE i = m BY <2>4, <3>1, <3>2
    <3>3. CASE i # m
      <4>1. i \in 1..m - 1 BY <3>3
      <4>2. f[i] = step[<<i, f[i - 1]>>] BY <2>1, <4>1
      <4>3. g[i] = f[i] BY <2>4, <4>1
      <4> QED BY <3>1, <4>2, <4>3
    <3> QED BY <3>2, <3>3
  <2>7. Runs(m, g) BY <2>5, <2>6
  <2> HIDE DEF Runs
  <2> QED BY <2>3, <2>7
<1> HIDE DEF Run
<1>3. 0 \in G /\ \A m \in 1..n : m - 1 \in G => m \in G BY <1>1, <1>2
<1>4. n \in G
  <2> HIDE DEF G
  <2> QED BY <1>3, CountUp
<1> QED BY <1>4 DEF Run, Stepped

IsSeq(s) == \E S : s \in Seq(S)

LEMMA SeqIs ==
  ASSUME NEW s, IsSeq(s)
  PROVE  /\ Len(s) \in Nat /\ DOMAIN s = 1..Len(s) /\ IsFiniteSet(DOMAIN s)
         /\ s = [i \in 1..Len(s) |-> s[i]]
<1>1. PICK S : s \in Seq(S) BY DEF IsSeq
<1>2. Len(s) \in Nat /\ DOMAIN s = 1..Len(s) /\ s = [i \in 1..Len(s) |-> s[i]] BY <1>1
<1>3. IsFiniteSet(1..Len(s)) BY <1>2, FS_Interval
<1> QED BY <1>2, <1>3

LEMMA FunctionIsSeq ==
  ASSUME NEW n \in Nat, NEW f, f = [i \in 1..n |-> f[i]]
  PROVE  IsSeq(f) /\ Len(f) = n /\ \A T : (\A i \in 1..n : f[i] \in T) => f \in Seq(T)
<1>1. \A T : (\A i \in 1..n : f[i] \in T) => f \in Seq(T)
  <2> SUFFICES ASSUME NEW T, \A i \in 1..n : f[i] \in T PROVE f \in Seq(T) OBVIOUS
  <2>1. f \in [1..n -> T] OBVIOUS
  <2> QED BY <2>1
<1>2. f \in Seq({f[i] : i \in 1..n}) BY <1>1
<1> QED BY <1>1, <1>2 DEF IsSeq

LEMMA ConcatIs ==
  ASSUME NEW s, NEW t, IsSeq(s), IsSeq(t)
  PROVE  /\ IsSeq(s \o t) /\ Len(s \o t) = Len(s) + Len(t)
         /\ \A i \in 1..Len(s) : (s \o t)[i] = s[i]
         /\ \A i \in 1..Len(t) : (s \o t)[Len(s) + i] = t[i]
         /\ \A T : s \in Seq(T) /\ t \in Seq(T) => s \o t \in Seq(T)
<1>1. PICK S : s \in Seq(S) BY DEF IsSeq
<1>2. PICK T : t \in Seq(T) BY DEF IsSeq
<1>3. s \in Seq(S \cup T) /\ t \in Seq(S \cup T) BY <1>1, <1>2
<1>4. s \o t \in Seq(S \cup T) /\ Len(s \o t) = Len(s) + Len(t) BY <1>3
<1>5. \A i \in 1..Len(s) : (s \o t)[i] = s[i] BY <1>3
<1>6. \A i \in 1..Len(t) : (s \o t)[Len(s) + i] = t[i] BY <1>3
<1>7. \A U : s \in Seq(U) /\ t \in Seq(U) => s \o t \in Seq(U) OBVIOUS
<1> QED BY <1>4, <1>5, <1>6, <1>7 DEF IsSeq

\* The sequence s is the first n parts one after the other: part m is between
\* the places off[m - 1] and off[m].
Offsets(parts, n, off) ==
  /\ off[0] = 0 /\ \A m \in 0..n : off[m] \in Nat
  /\ \A m \in 1..n : off[m] = off[m - 1] + Len(parts[m])
Holds(parts, n, s, off) ==
  \A m \in 1..n : \A i \in 1..Len(parts[m]) : s[off[m - 1] + i] = parts[m][i]
Covered(parts, n, off) ==
  \A p \in 1..off[n] : \E m \in 1..n : p - off[m - 1] \in 1..Len(parts[m])
Joins(parts, n, s, off) ==
  /\ IsSeq(s) /\ Len(s) = off[n]
  /\ Offsets(parts, n, off) /\ Holds(parts, n, s, off) /\ Covered(parts, n, off)

LEMMA OffsetsGrow ==
  ASSUME NEW n \in Nat, NEW parts, NEW off, Offsets(parts, n, off),
         \A m \in 1..n : Len(parts[m]) \in Nat, NEW i \in 0..n
  PROVE  \A m \in i..n : off[i] <= off[m]
<1> DEFINE G == {m \in 0..n : i <= m => off[i] <= off[m]}
<1>1. 0 \in G BY DEF Offsets
<1>2. ASSUME NEW m \in 1..n, m - 1 \in G PROVE m \in G
  <2>1. /\ off[m] = off[m - 1] + Len(parts[m]) /\ Len(parts[m]) \in Nat
        /\ off[m] \in Nat /\ off[m - 1] \in Nat /\ off[i] \in Nat
    BY DEF Offsets
  <2>2. CASE i = m BY <2>1, <2>2
  <2>3. CASE i # m BY <1>2, <2>1, <2>3
  <2> QED BY <2>2, <2>3
<1>3. \A m \in 0..n : m \in G
  <2> HIDE DEF G
  <2> QED BY <1>1, <1>2, CountUp
<1> QED BY <1>3

LEMMA JoinOne ==
  ASSUME NEW n \in Nat, n # 0, NEW parts, NEW off, NEW s,
         \A m \in 1..n : IsSeq(parts[m]),
         Joins(parts, n - 1, s, off), off[n] = off[n - 1] + Len(parts[n])
  PROVE  Joins(parts, n, s \o parts[n], off)
<1> DEFINE new == s \o parts[n]
<1>1. n \in 1..n /\ n - 1 \in Nat /\ n - 1 \in 0..n - 1 OBVIOUS
<1>2. \A m \in 1..n : Len(parts[m]) \in Nat BY SeqIs
<1>3. Offsets(parts, n - 1, off) /\ IsSeq(s) /\ Len(s) = off[n - 1] /\ off[n - 1] \in Nat
  BY <1>1 DEF Joins, Offsets
<1>4. Offsets(parts, n, off)
  <2>1. \A m \in 0..n : m = n \/ m \in 0..n - 1 OBVIOUS
  <2>2. \A m \in 1..n : m = n \/ m \in 1..n - 1 OBVIOUS
  <2>3. off[n] \in Nat BY <1>1, <1>2, <1>3
  <2> QED BY <1>3, <2>1, <2>2, <2>3 DEF Offsets
<1>5. /\ IsSeq(new) /\ Len(new) = off[n]
      /\ \A i \in 1..off[n - 1] : new[i] = s[i]
      /\ \A i \in 1..Len(parts[n]) : new[off[n - 1] + i] = parts[n][i]
  BY <1>1, <1>3, ConcatIs
<1> HIDE DEF new
<1>6. Holds(parts, n, new, off)
  <2> SUFFICES ASSUME NEW m \in 1..n, NEW i \in 1..Len(parts[m])
               PROVE  new[off[m - 1] + i] = parts[m][i]
    BY DEF Holds
  <2>1. CASE m = n BY <1>5, <2>1
  <2>2. CASE m # n
    <3>1. m \in 1..n - 1 BY <2>2
    <3>2. s[off[m - 1] + i] = parts[m][i] BY <3>1 DEF Joins, Holds
    <3>3. off[m] <= off[n - 1]
      <4>1. \A x \in 1..n - 1 : Len(parts[x]) \in Nat BY <1>2
      <4>2. m \in 0..n - 1 /\ n - 1 \in m..n - 1 BY <3>1
      <4> QED BY <1>1, <1>3, <4>1, <4>2, OffsetsGrow
    <3>4. off[m] = off[m - 1] + Len(parts[m]) /\ off[m - 1] \in Nat /\ Len(parts[m]) \in Nat
      BY <1>2, <1>4 DEF Offsets
    <3>5. off[m - 1] + i \in 1..off[n - 1]
      <4>1. i \in Int /\ i >= 1 /\ i <= Len(parts[m]) BY <3>4
      <4>2. off[m - 1] + i <= off[n - 1] BY <1>3, <3>3, <3>4, <4>1
      <4> QED BY <1>3, <3>4, <4>1, <4>2
    <3> QED BY <1>5, <3>2, <3>5
  <2> QED BY <2>1, <2>2
<1>7. Covered(parts, n, off)
  <2> SUFFICES ASSUME NEW p \in 1..off[n]
               PROVE  \E m \in 1..n : p - off[m - 1] \in 1..Len(parts[m])
    BY DEF Covered
  <2>1. CASE p <= off[n - 1]
    <3>1. p \in 1..off[n - 1] BY <1>3, <2>1
    <3>2. PICK m \in 1..n - 1 : p - off[m - 1] \in 1..Len(parts[m]) BY <3>1 DEF Joins, Covered
    <3> QED BY <3>2
  <2>2. CASE ~(p <= off[n - 1])
    <3>1. Len(parts[n]) \in Nat /\ off[n] \in Nat BY <1>1, <1>2, <1>4 DEF Offsets
    <3>2. p - off[n - 1] \in 1..Len(parts[n]) BY <1>3, <2>2, <3>1
    <3> QED BY <1>1, <3>2
  <2> QED BY <2>1, <2>2
<1>8. Joins(parts, n, new, off) BY <1>4, <1>5, <1>6, <1>7 DEF Joins
<1> QED BY <1>8 DEF new

LEMMA JoinsExist ==
  ASSUME NEW S, NEW n \in Nat, NEW parts \in [1..n -> Seq(S)]
  PROVE  \E join \in [0..n -> Seq(S)] : \E off :
           /\ join[0] = <<>> /\ \A m \in 1..n : join[m] = join[m - 1] \o parts[m]
           /\ \A m \in 0..n : Joins(parts, m, join[m], off)
<1> DEFINE step == [x \in (1..n) \X Seq(S) |-> x[2] \o parts[x[1]]]
<1>1. step \in [(1..n) \X Seq(S) -> Seq(S)] OBVIOUS
<1>2. PICK join \in [0..n -> Seq(S)] :
        join[0] = <<>> /\ \A m \in 1..n : join[m] = step[<<m, join[m - 1]>>]
  <2> DEFINE A == Seq(S)
             base == <<>>
  <2>1. base \in A OBVIOUS
  <2>2. step \in [(1..n) \X A -> A] BY <1>1
  <2> HIDE DEF step, A, base
  <2>3. \E f \in [0..n -> A] : Stepped(f, n, base, step) BY <2>1, <2>2, StepsExist
  <2> QED BY <2>3 DEF A, base, Stepped
<1>3. \A m \in 1..n : join[m - 1] \in Seq(S) /\ join[m] = join[m - 1] \o parts[m]
  <2> SUFFICES ASSUME NEW m \in 1..n
               PROVE  join[m - 1] \in Seq(S) /\ join[m] = join[m - 1] \o parts[m]
    OBVIOUS
  <2>1. join[m - 1] \in Seq(S) BY <1>2
  <2> QED BY <1>2, <2>1
<1> HIDE DEF step
<1> DEFINE off == [m \in 0..n |-> Len(join[m])]
           G   == {m \in 0..n : Joins(parts, m, join[m], off)}
<1>4. \A m \in 0..n : off[m] \in Nat /\ off[m] = Len(join[m]) BY <1>2
<1>5. 0 \in G
  <2>1. join[0] = <<>> /\ Len(join[0]) = 0 /\ off[0] = 0 BY <1>2
  <2>2. IsSeq(join[0]) BY <1>2 DEF IsSeq
  <2> HIDE DEF off
  <2> QED BY <1>4, <2>1, <2>2 DEF Joins, Offsets, Holds, Covered
<1>6. ASSUME NEW m \in 1..n, m - 1 \in G PROVE m \in G
  <2>1. m \in Nat /\ m # 0 /\ m \in 0..n OBVIOUS
  <2>2. Joins(parts, m - 1, join[m - 1], off) BY <1>6
  <2>3. \A i \in 1..m : IsSeq(parts[i]) BY DEF IsSeq
  <2>4. off[m] = off[m - 1] + Len(parts[m])
    <3>1. join[m - 1] \in Seq(S) /\ parts[m] \in Seq(S) /\ join[m] = join[m - 1] \o parts[m]
      BY <1>3
    <3>2. Len(join[m]) = Len(join[m - 1]) + Len(parts[m]) BY <3>1
    <3>3. m - 1 \in 0..n OBVIOUS
    <3> HIDE DEF off
    <3> QED BY <1>4, <2>1, <3>2, <3>3
  <2> HIDE DEF off
  <2>5. Joins(parts, m, join[m - 1] \o parts[m], off) BY <2>1, <2>2, <2>3, <2>4, JoinOne
  <2> QED BY <1>3, <2>1, <2>5
<1>7. \A m \in 0..n : m \in G
  <2> HIDE DEF G
  <2> QED BY <1>5, <1>6, CountUp
<1> HIDE DEF off
<1>8. \A m \in 0..n : Joins(parts, m, join[m], off) BY <1>7
<1> QED BY <1>2, <1>3, <1>8

\* FlattenSeq is the parts one after the other.
LEMMA FlattenIsJoin ==
  ASSUME NEW S, NEW n \in Nat, NEW parts \in [1..n -> Seq(S)]
  PROVE  FlattenSeq(parts) \in Seq(S) /\ \E off : Joins(parts, n, FlattenSeq(parts), off)
<1> DEFINE Joined(join, off) ==
             /\ join[0] = <<>> /\ \A m \in 1..n : join[m] = join[m - 1] \o parts[m]
             /\ \A m \in 0..n : Joins(parts, m, join[m], off)
<1>0. PICK join \in [0..n -> Seq(S)] : \E off : Joined(join, off) BY JoinsExist
<1>1. PICK off : Joined(join, off) BY <1>0
<1>2. Len(parts) = n /\ n \in 0..n OBVIOUS
<1>3. CASE n = 0
  <2>1. parts = <<>> BY <1>3
  <2>2. FlattenSeq(parts) = join[n] BY <1>1, <1>2, <1>3, <2>1 DEF FlattenSeq
  <2> QED BY <1>1, <1>2, <2>2
<1>4. CASE n # 0
  <2> DEFINE Flat1(f) == f = [i \in 1..n |-> IF i = 1 THEN parts[i] ELSE f[i - 1] \o parts[i]]
             flatten == CHOOSE f : Flat1(f)
  <2>1. FlattenSeq(parts) = flatten[n] BY <1>2, <1>4 DEF FlattenSeq
  <2>2. Flat1([i \in 1..n |-> join[i]])
    <3> DEFINE g == [i \in 1..n |-> join[i]]
    <3>1. \A i \in 1..n : g[i] = IF i = 1 THEN parts[i] ELSE g[i - 1] \o parts[i]
      <4> SUFFICES ASSUME NEW i \in 1..n
                   PROVE  g[i] = IF i = 1 THEN parts[i] ELSE g[i - 1] \o parts[i]
        OBVIOUS
      <4>1. g[i] = join[i - 1] \o parts[i] /\ parts[i] \in Seq(S) BY <1>1
      <4>2. CASE i = 1
        <5>1. join[i - 1] = <<>> BY <1>1, <4>2
        <5>2. <<>> \o parts[i] = parts[i] BY <4>1
        <5> QED BY <4>1, <4>2, <5>1, <5>2
      <4>3. CASE i # 1
        <5>1. i - 1 \in 1..n BY <4>3
        <5> QED BY <4>1, <4>3, <5>1
      <4> QED BY <4>2, <4>3
    <3> QED BY <3>1
  <2>3. Flat1(flatten)
    <3> HIDE DEF Flat1
    <3> QED BY <2>2
  <2> HIDE DEF flatten
  <2> DEFINE G == {i \in 0..n : i = 0 \/ flatten[i] = join[i]}
  <2>4. 0 \in G OBVIOUS
  <2>5. ASSUME NEW i \in 1..n, i - 1 \in G PROVE i \in G
    <3>1. join[i] = join[i - 1] \o parts[i] /\ parts[i] \in Seq(S) BY <1>1
    <3>2. flatten[i] = IF i = 1 THEN parts[i] ELSE flatten[i - 1] \o parts[i] BY <2>3
    <3>3. CASE i = 1
      <4>1. join[i - 1] = <<>> BY <1>1, <3>3
      <4>2. <<>> \o parts[i] = parts[i] BY <3>1
      <4> QED BY <3>1, <3>2, <3>3, <4>1, <4>2
    <3>4. CASE i # 1
      <4>1. flatten[i - 1] = join[i - 1] BY <2>5, <3>4
      <4>2. flatten[i] = join[i] BY <3>1, <3>2, <3>4, <4>1
      <4> QED BY <4>2
    <3> QED BY <3>3, <3>4
  <2>6. n \in G
    <3> HIDE DEF G
    <3> QED BY <1>2, <2>4, <2>5, CountUp
  <2>7. FlattenSeq(parts) = join[n] BY <1>4, <2>1, <2>6
  <2> QED BY <1>1, <1>2, <2>7
<1> QED BY <1>3, <1>4

LEMMA FlattenIsSeq ==
  ASSUME NEW n \in Nat, NEW parts, parts = [i \in 1..n |-> parts[i]],
         \A i \in 1..n : IsSeq(parts[i])
  PROVE  IsSeq(FlattenSeq(parts)) /\ \E off : Joins(parts, n, FlattenSeq(parts), off)
<1> DEFINE S == UNION {{parts[i][j] : j \in 1..Len(parts[i])} : i \in 1..n}
<1>1. ASSUME NEW i \in 1..n PROVE parts[i] \in Seq(S)
  <2>1. /\ Len(parts[i]) \in Nat
        /\ parts[i] = [j \in 1..Len(parts[i]) |-> parts[i][j]]
    BY SeqIs
  <2>2. \A j \in 1..Len(parts[i]) : parts[i][j] \in S OBVIOUS
  <2> HIDE DEF S
  <2> QED BY <2>1, <2>2, FunctionIsSeq
<1> HIDE DEF S
<1>2. parts \in [1..n -> Seq(S)] BY <1>1
<1> QED BY <1>2, FlattenIsJoin DEF IsSeq

LEMMA PickedIsSeq ==
  ASSUME NEW s, NEW I, IsFiniteSet(I)
  PROVE  IsSeq(Picked(s, I)) /\ Len(Picked(s, I)) = Cardinality(I)
         /\ DOMAIN Picked(s, I) = 1..Cardinality(I)
<1>1. Cardinality(I) \in Nat BY FS_CardinalityType
<1>2. Picked(s, I) = [i \in 1..Cardinality(I) |-> Picked(s, I)[i]] BY DEF Picked
<1> HIDE DEF Picked
<1> QED BY <1>1, <1>2, FunctionIsSeq DEF Picked

\* Some of the elements of a sequence.
LEMMA SomeAreSeq ==
  ASSUME NEW s, IsSeq(s), NEW t, NEW I \in SUBSET DOMAIN s
  PROVE  IsFiniteSet(I) /\ IsSeq(Picked(t, I))
<1>1. IsFiniteSet(DOMAIN s) BY SeqIs
<1>2. IsFiniteSet(I) BY <1>1, FS_Subset
<1> QED BY <1>2, PickedIsSeq

LEMMA EmptyIsSeq == IsSeq(<<>>)
<1>1. <<>> \in Seq({}) OBVIOUS
<1> QED BY <1>1 DEF IsSeq

LEMMA OneIsSeq == ASSUME NEW x PROVE IsSeq(<<x>>) /\ Len(<<x>>) = 1
<1>1. <<x>> \in Seq({x}) OBVIOUS
<1> QED BY <1>1 DEF IsSeq

LEMMA SectionsAreSeq ==
  ASSUME OrderAssumption
  PROVE  Len(SectionOrder) \in Nat /\ DOMAIN SectionOrder = 1..Len(SectionOrder)
BY DEF OrderAssumption

-----------------------------------------------------------------------------
(* The nodes of a Map, whatever its lines, and its lines, whatever its     *)
(* nodes, are sequences.                                                   *)

LEMMA ParseIsSeq ==
  ASSUME OrderAssumption, NEW lines, IsSeq(lines)
  PROVE  IsSeq(Parse(lines))
<1> DEFINE items == {i \in DOMAIN lines : ~IsHeading(lines[i])}
           node  == [i \in items |-> NodeOf(lines[i], Read(lines)[i].section,
                                            Len(Read(lines)[i + 1].levels) - 1, i)]
           part(m) == Picked(node, {i \in items : Read(lines)[i].section = SectionOrder[m]})
           parts == [m \in DOMAIN SectionOrder |-> part(m)]
<1>1. \A m : IsSeq(part(m))
  <2> SUFFICES ASSUME NEW m PROVE IsSeq(part(m)) OBVIOUS
  <2>1. {i \in items : Read(lines)[i].section = SectionOrder[m]} \in SUBSET DOMAIN lines OBVIOUS
  <2> HIDE DEF node
  <2> QED BY <2>1, SomeAreSeq
<1>2. Parse(lines) = FlattenSeq(parts) BY DEF Parse
<1> HIDE DEF items, node, part
<1>3. parts = [m \in 1..Len(SectionOrder) |-> parts[m]] BY SectionsAreSeq
<1>4. \A m \in 1..Len(SectionOrder) : IsSeq(parts[m]) BY <1>1, SectionsAreSeq
<1> HIDE DEF parts
<1> QED BY <1>2, <1>3, <1>4, SectionsAreSeq, FlattenIsSeq

LEMMA MapNodesIsSeq ==
  ASSUME OrderAssumption, NEW lines, IsSeq(lines)
  PROVE  IsSeq(MapNodes(lines))
<1> DEFINE nodes == Parse(lines)
<1>1. IsSeq(nodes) BY ParseIsSeq
<1>2. MapNodes(lines) = [i \in DOMAIN nodes |-> [nodes[i] EXCEPT !.at = 0]] BY DEF MapNodes
<1> HIDE DEF nodes
<1>3. Len(nodes) \in Nat /\ DOMAIN nodes = 1..Len(nodes) BY <1>1, SeqIs
<1>4. MapNodes(lines) = [i \in 1..Len(nodes) |-> MapNodes(lines)[i]] BY <1>2, <1>3
<1> QED BY <1>3, <1>4, FunctionIsSeq

LEMMA InSectionIsSeq ==
  ASSUME NEW nodes, IsSeq(nodes), NEW s
  PROVE  IsSeq(InSection(nodes, s))
<1>1. {i \in DOMAIN nodes : nodes[i].section = s} \in SUBSET DOMAIN nodes OBVIOUS
<1> QED BY <1>1, SomeAreSeq DEF InSection

LEMMA MapsToSeq ==
  ASSUME NEW s, IsSeq(s), NEW t, DOMAIN t = DOMAIN s, t = [i \in DOMAIN t |-> t[i]]
  PROVE  IsSeq(t) /\ Len(t) = Len(s)
<1>1. Len(s) \in Nat /\ DOMAIN s = 1..Len(s) BY SeqIs
<1> QED BY <1>1, FunctionIsSeq

LEMMA RenderIsSeq ==
  ASSUME OrderAssumption, NEW nodes, IsSeq(nodes)
  PROVE  IsSeq(Render(nodes))
<1> DEFINE of(s) == InSection(nodes, s)
           rows(s) == [i \in DOMAIN of(s) |->
                         Item(2 * of(s)[i].depth, of(s)[i].id, of(s)[i].label,
                              of(s)[i].checked, of(s)[i].high)]
           parts == [m \in DOMAIN SectionOrder |->
                       <<Heading(SectionOrder[m])>> \o rows(SectionOrder[m])]
<1>1. \A s : IsSeq(of(s)) BY InSectionIsSeq
<1>2. Render(nodes) = FlattenSeq(parts) BY DEF Render
<1> HIDE DEF of
<1>3. \A s : IsSeq(rows(s)) BY <1>1, MapsToSeq
<1> HIDE DEF rows
<1>4. \A m \in 1..Len(SectionOrder) : IsSeq(parts[m])
  BY <1>3, SectionsAreSeq, OneIsSeq, ConcatIs
<1>5. parts = [m \in 1..Len(SectionOrder) |-> parts[m]] BY SectionsAreSeq
<1> HIDE DEF parts
<1> QED BY <1>2, <1>4, <1>5, SectionsAreSeq, FlattenIsSeq

-----------------------------------------------------------------------------
(* The Map a migration plans.                                              *)

\* What the sources say of a section is a sequence.
TextsAreSeq(from) ==
  \A section \in Range(SectionOrder) : \A name \in Range(SourcesOf(section)) :
    IsSeq(TextsOf(from, name, section))

SourceNames == {"json", "handoff", "tasksMd", "decisionsMd"}

LEMMA SourcesAreSeq ==
  ASSUME NEW section
  PROVE  IsSeq(SourcesOf(section)) /\ Range(SourcesOf(section)) \subseteq SourceNames
<1> DEFINE S == SourceNames
<1>1. \/ SourcesOf(section) = <<"json", "handoff">>
      \/ SourcesOf(section) = <<"json", "tasksMd", "handoff">>
      \/ SourcesOf(section) = <<"json", "decisionsMd">>
      \/ SourcesOf(section) = <<"json">>
      \/ SourcesOf(section) = <<>>
  BY DEF SourcesOf, Singletons
<1>2. /\ <<"json", "handoff">> \in Seq(S) /\ <<"json", "tasksMd", "handoff">> \in Seq(S)
      /\ <<"json", "decisionsMd">> \in Seq(S) /\ <<"json">> \in Seq(S) /\ <<>> \in Seq(S)
  BY DEF SourceNames
<1>3. SourcesOf(section) \in Seq(S) BY <1>1, <1>2
<1> HIDE DEF S
<1>4. \A i \in DOMAIN SourcesOf(section) : SourcesOf(section)[i] \in S BY <1>3
<1> QED BY <1>3, <1>4 DEF IsSeq, Range, S

LEMMA CandidatesAreSeq ==
  ASSUME NEW from, NEW field
  PROVE  IsSeq(Candidates(from, field))
<1>1. IsSeq(Speaking(from, field))
  <2> DEFINE I == {m \in DOMAIN SourcesOf(field) : TextsOf(from, SourcesOf(field)[m], field) # <<>>}
  <2>1. I \in SUBSET DOMAIN SourcesOf(field) OBVIOUS
  <2>2. Speaking(from, field) = Picked(SourcesOf(field), I) BY DEF Speaking
  <2> HIDE DEF I
  <2> QED BY <2>1, <2>2, SourcesAreSeq, SomeAreSeq
<1>2. DOMAIN Candidates(from, field) = DOMAIN Speaking(from, field)
      /\ Candidates(from, field) = [i \in DOMAIN Candidates(from, field) |-> Candidates(from, field)[i]]
  BY DEF Candidates
<1> QED BY <1>1, <1>2, MapsToSeq

LEMMA PlannedAreSeq ==
  ASSUME NEW from, NEW nodes, IsSeq(nodes), NEW field
  PROVE  IsSeq(Winner(from, nodes, field)) /\ IsSeq(Conflicts(from, nodes, field))
<1>1. IsSeq(Winner(from, nodes, field)) BY InSectionIsSeq, OneIsSeq, EmptyIsSeq DEF Winner
<1> DEFINE all  == Candidates(from, field)
           I    == {m \in DOMAIN all : all[m][2] # Winner(from, nodes, field)[1].label}
           lost == Picked(all, I)
<1>2. Conflicts(from, nodes, field)
        = [m \in DOMAIN lost |-> NewNode("questions", 1, <<field, lost[m][2], lost[m][1]>>)]
  BY DEF Conflicts
<1>3. I \in SUBSET DOMAIN all OBVIOUS
<1> HIDE DEF I
<1>4. IsSeq(lost) BY <1>3, CandidatesAreSeq, SomeAreSeq
<1> HIDE DEF lost
<1> QED BY <1>1, <1>2, <1>4, MapsToSeq

LEMMA MergeIsSeq ==
  ASSUME NEW from, NEW nodes, IsSeq(nodes), NEW section,
         \A name \in Range(SourcesOf(section)) : IsSeq(TextsOf(from, name, section))
  PROVE  IsSeq(MergeNodes(from, nodes, section))
<1> DEFINE own   == InSection(nodes, section)
           names == SourcesOf(section)
           part(m) == TextsOf(from, names[m], section)
           parts == [m \in DOMAIN names |-> part(m)]
           texts == FlattenSeq(parts)
           seen(m) == {n.label : n \in Range(own)} \cup {texts[j] : j \in 1..m - 1}
           I     == {m \in DOMAIN texts : texts[m] \notin seen(m)}
           new   == Picked(texts, I)
           more  == [m \in DOMAIN new |-> NewNode(section, 0, new[m])]
<1>1. IsSeq(own) BY InSectionIsSeq
<1>2. Len(names) \in Nat /\ DOMAIN names = 1..Len(names) BY SourcesAreSeq, SeqIs
<1>3. IsSeq(texts)
  <2>1. \A m \in 1..Len(names) : IsSeq(part(m)) BY <1>2 DEF Range
  <2> HIDE DEF part
  <2>2. parts = [m \in 1..Len(names) |-> parts[m]] BY <1>2
  <2>3. \A m \in 1..Len(names) : IsSeq(parts[m]) BY <1>2, <2>1
  <2> HIDE DEF parts, names
  <2> QED BY <1>2, <2>2, <2>3, FlattenIsSeq
<1>4. MergeNodes(from, nodes, section) = own \o more BY DEF MergeNodes
<1>5. I \in SUBSET DOMAIN texts OBVIOUS
<1> HIDE DEF own, texts, I
<1>6. IsSeq(new) BY <1>3, <1>5, SomeAreSeq
<1> HIDE DEF new
<1>7. IsSeq(more) BY <1>6, MapsToSeq
<1> HIDE DEF more
<1> QED BY <1>1, <1>4, <1>7, ConcatIs

LEMMA PlanIsSeq ==
  ASSUME OrderAssumption, NEW from, TextsAreSeq(from), NEW nodes, IsSeq(nodes)
  PROVE  IsSeq(PlanMigration(from, nodes))
<1> DEFINE lost == Conflicts(from, nodes, "goals") \o Conflicts(from, nodes, "status")
           section(s) ==
             IF s \in Singletons THEN Winner(from, nodes, s)
             ELSE IF s = "questions" THEN InSection(nodes, s) \o Listed(lost)
             ELSE MergeNodes(from, nodes, s)
           parts == [m \in DOMAIN SectionOrder |-> section(SectionOrder[m])]
<1>1. IsSeq(Listed(lost))
  <2>1. IsSeq(lost) BY PlannedAreSeq, ConcatIs
  <2> HIDE DEF lost
  <2> QED BY <2>1, OneIsSeq, EmptyIsSeq, ConcatIs DEF Listed
<1>2. \A s \in Range(SectionOrder) : IsSeq(MergeNodes(from, nodes, s))
  BY MergeIsSeq DEF TextsAreSeq
<1>3. PlanMigration(from, nodes) = FlattenSeq(parts) BY DEF PlanMigration
<1> HIDE DEF lost
<1>4. \A s \in Range(SectionOrder) : IsSeq(section(s))
  BY <1>1, <1>2, PlannedAreSeq, InSectionIsSeq, ConcatIs
<1> HIDE DEF section
<1>5. \A m \in 1..Len(SectionOrder) : IsSeq(parts[m]) BY <1>4, SectionsAreSeq DEF Range
<1>6. parts = [m \in 1..Len(SectionOrder) |-> parts[m]] BY SectionsAreSeq
<1> HIDE DEF parts
<1> QED BY <1>3, <1>5, <1>6, SectionsAreSeq, FlattenIsSeq

-----------------------------------------------------------------------------
(* The report of a v2 diff.                                                *)

LEMMA FlatExtrasAre ==
  ASSUME NEW lines
  PROVE  /\ DOMAIN FlatExtras(lines) = DOMAIN lines
         /\ FlatExtras(lines) = [k \in DOMAIN lines |-> FlatExtras(lines)[k]]
         /\ \A k \in DOMAIN lines : FlatExtras(lines)[k].checked = FALSE
BY DEF FlatExtras

LEMMA FlatNodesAre ==
  ASSUME NEW nodes
  PROVE  /\ DOMAIN FlatNodes(nodes) = DOMAIN nodes
         /\ FlatNodes(nodes) = [i \in DOMAIN nodes |-> FlatNodes(nodes)[i]]
         /\ \A i \in DOMAIN nodes :
              FlatNodes(nodes)[i].section # "tasks" => FlatNodes(nodes)[i].checked = FALSE
<1>1. DOMAIN FlatNodes(nodes) = DOMAIN nodes BY DEF FlatNodes
<1>2. FlatNodes(nodes) = [i \in DOMAIN nodes |-> FlatNodes(nodes)[i]] BY DEF FlatNodes
<1>3. ASSUME NEW i \in DOMAIN nodes, FlatNodes(nodes)[i].section # "tasks"
      PROVE  FlatNodes(nodes)[i].checked = FALSE
  <2>1. /\ FlatNodes(nodes)[i].section = nodes[i].section
        /\ FlatNodes(nodes)[i].checked = (nodes[i].section = "tasks" /\ nodes[i].checked)
    BY DEF FlatNodes
  <2>2. nodes[i].section # "tasks" BY <1>3, <2>1
  <2>3. (nodes[i].section = "tasks" /\ nodes[i].checked) = FALSE BY <2>2
  <2> QED BY <2>1, <2>3
<1> QED BY <1>1, <1>2, <1>3

\* A state a v2 diff can take.
V2State(state) == IsSeq(state.nodes) /\ IsSeq(state.extras)

LEMMA FlattenIs ==
  ASSUME NEW state, V2State(state)
  PROVE  /\ Indices(DOMAIN Flatten(state))
         /\ \A n \in Range(Flatten(state)) : n.section # "tasks" => n.checked = FALSE
<1> DEFINE known == FlatNodes(state.nodes)
           other == FlatExtras(state.extras)
           both  == known \o other
<1>1. IsSeq(known) /\ IsSeq(other) BY FlatNodesAre, FlatExtrasAre, MapsToSeq DEF V2State
<1>2. \A i \in DOMAIN known : known[i].section # "tasks" => known[i].checked = FALSE
  BY FlatNodesAre
<1>3. \A k \in DOMAIN other : other[k].checked = FALSE BY FlatExtrasAre
<1>4. Flatten(state) = both BY DEF Flatten
<1> HIDE DEF known, other
<1>5. /\ Len(known) \in Nat /\ DOMAIN known = 1..Len(known)
      /\ Len(other) \in Nat /\ DOMAIN other = 1..Len(other)
  BY <1>1, SeqIs
<1>6. /\ IsSeq(both) /\ Len(both) = Len(known) + Len(other)
      /\ \A i \in 1..Len(known) : both[i] = known[i]
      /\ \A i \in 1..Len(other) : both[Len(known) + i] = other[i]
  BY <1>1, ConcatIs
<1> HIDE DEF both
<1>7. DOMAIN both = 1..Len(both) /\ IsFiniteSet(DOMAIN both) BY <1>6, SeqIs
<1>8. ASSUME NEW i \in DOMAIN both, both[i].section # "tasks" PROVE both[i].checked = FALSE
  <2>1. CASE i \in 1..Len(known) BY <1>2, <1>5, <1>6, <1>8, <2>1
  <2>2. CASE i \notin 1..Len(known)
    <3>1. i - Len(known) \in 1..Len(other) /\ Len(known) + (i - Len(known)) = i
      BY <1>5, <1>6, <1>7, <2>2
    <3>2. both[i] = other[i - Len(known)] BY <1>6, <3>1
    <3> QED BY <1>3, <1>5, <3>1, <3>2
  <2> QED BY <2>1, <2>2
<1>9. Indices(DOMAIN both) BY <1>5, <1>6, <1>7 DEF Indices
<1> QED BY <1>4, <1>8, <1>9 DEF Range

\* The report of a v2 diff leads from the old state to the new one, whatever
\* texts repeat, move or are edited, in known sections or unknown ones: for any
\* two Maps and whatever " > " cuts their texts into.
THEOREM V2ReportReplays ==
  ASSUME NEW earlier, V2State(earlier), NEW later, V2State(later)
  PROVE  ReplaysV2(DiffStates(earlier, later))
<1> DEFINE old == Flatten(earlier)
           new == Flatten(later)
           d   == ReportV2(old, new)
<1>1. Indices(DOMAIN old) /\ Indices(DOMAIN new) BY FlattenIs
<1>2. \A n \in Range(old) \cup Range(new) : n.section # "tasks" => n.checked = FALSE
  BY FlattenIs
<1> HIDE DEF old, new
<1>3. d.before = old /\ d.after = new BY <1>1, ReportIs DEF WholeReport
<1>4. \A s, t : Replayed(d, s, t) = Texts(new, DOMAIN new, s, t) BY <1>1, ReportCounts
<1>5. (\A r \in DiffKeys : d[r] = {}) =>
        {<<n.section, n.path, n.checked>> : n \in Range(old)}
          = {<<n.section, n.path, n.checked>> : n \in Range(new)}
  BY <1>1, <1>2, EmptyReport
<1> HIDE DEF d
<1>6. ReplaysV2(d) BY <1>3, <1>4, <1>5 DEF ReplaysV2
<1> QED BY <1>6 DEF d, old, new, DiffStates

-----------------------------------------------------------------------------
(* A snapshot.                                                             *)

LEMMA SetToSeqIsSeq ==
  ASSUME NEW S, IsFiniteSet(S)
  PROVE  IsSeq(SetToSeq(S))
<1>1. Cardinality(S) \in Nat BY FS_CardinalityType
<1>2. \E f \in [1..Cardinality(S) -> S] : IsInjective(f)
  <2>1. ExistsBijection(1..Cardinality(S), S) BY FS_CardinalityType
  <2> QED BY <2>1 DEF ExistsBijection, Bijection, Injection, IsInjective
<1>3. SetToSeq(S) \in [1..Cardinality(S) -> S] BY <1>2 DEF SetToSeq
<1>4. SetToSeq(S) \in Seq(S) BY <1>1, <1>3
<1> QED BY <1>4 DEF IsSeq

LEMMA SnapshotIs ==
  ASSUME NEW nodes, IsSeq(nodes), NEW bodies, IsFiniteSet(DOMAIN bodies), NEW made, NEW lines
  PROVE  V3State(SnapshotV3(nodes, bodies, made, lines))
<1> DEFINE idOf(i)   == IF i = 0 THEN None ELSE nodes[i].id
           has(n)    == n.id \in DOMAIN bodies
           orphans   == SetToSeq(DOMAIN bodies \ {n.id : n \in Range(nodes)})
           row(n, parent, order, origin) ==
             [id |-> n.id, section |-> n.section, parent |-> parent, order |-> order,
              label |-> n.label, origin |-> origin,
              summary |-> IF has(n) THEN bodies[n.id].summary ELSE None,
              body |-> IF has(n) THEN bodies[n.id].body ELSE None,
              taskState |-> IF n.section = "tasks" /\ n.label # None THEN n.checked ELSE None,
              high |-> n.high]
           orphan(id) == [id |-> id, section |-> id[1], label |-> None, checked |-> FALSE, high |-> FALSE]
           own   == [i \in DOMAIN nodes |->
                       row(nodes[i], idOf(StackParent(nodes, i)), Cardinality(Before(nodes, i)),
                           Origin(nodes[i], made))]
           loose == [k \in DOMAIN orphans |->
                       row(orphan(orphans[k]), None, -1, bodies[orphans[k]].origin)]
<1>1. SnapshotV3(nodes, bodies, made, lines).nodes = own \o loose BY DEF SnapshotV3
<1>2. \A n, parent, order, origin : IsRow(row(n, parent, order, origin)) BY DEF IsRow
<1>3. IsSeq(orphans)
  <2>1. IsFiniteSet(DOMAIN bodies \ {n.id : n \in Range(nodes)}) BY FS_Subset
  <2> QED BY <2>1, SetToSeqIsSeq
<1> HIDE DEF row, orphan, idOf, orphans
<1>4. IsSeq(own) /\ \A i \in DOMAIN own : IsRow(own[i]) BY <1>2, MapsToSeq
<1>5. IsSeq(loose) /\ \A i \in DOMAIN loose : IsRow(loose[i]) BY <1>2, <1>3, MapsToSeq
<1> HIDE DEF own, loose
<1>6. /\ Len(own) \in Nat /\ DOMAIN own = 1..Len(own)
      /\ Len(loose) \in Nat /\ DOMAIN loose = 1..Len(loose)
  BY <1>4, <1>5, SeqIs
<1>7. /\ IsSeq(own \o loose) /\ Len(own \o loose) = Len(own) + Len(loose)
      /\ \A i \in 1..Len(own) : (own \o loose)[i] = own[i]
      /\ \A i \in 1..Len(loose) : (own \o loose)[Len(own) + i] = loose[i]
  BY <1>4, <1>5, ConcatIs
<1>8. DOMAIN (own \o loose) = 1..Len(own) + Len(loose) /\ IsFiniteSet(DOMAIN (own \o loose))
  BY <1>7, SeqIs
<1>9. ASSUME NEW i \in 1..Len(own) + Len(loose) PROVE IsRow((own \o loose)[i])
  <2>1. CASE i \in 1..Len(own) BY <1>4, <1>6, <1>7, <2>1
  <2>2. CASE i \notin 1..Len(own)
    <3>1. i - Len(own) \in 1..Len(loose) /\ Len(own) + (i - Len(own)) = i BY <1>6, <2>2
    <3>2. (own \o loose)[i] = loose[i - Len(own)] BY <1>7, <3>1
    <3> QED BY <1>5, <1>6, <3>1, <3>2
  <2> QED BY <2>1, <2>2
<1>10. DOMAIN (own \o loose) \in SUBSET Int BY <1>6, <1>8
<1> QED BY <1>1, <1>8, <1>9, <1>10 DEF V3State, Indices

-----------------------------------------------------------------------------
(* What is compared.                                                       *)

\* The states that are compared are what a comparison takes for one.
Comparable ==
  /\ IsSeq(doc) /\ IsSeq(extras)
  /\ IsFiniteSet(DOMAIN content)
  /\ TextsAreSeq(files)
  /\ pending # <<>> => V3State(pending[1])
  /\ \A s \in snapshots : /\ s.layout = "v3" => V3State(s.state)
                          /\ s.layout = "v2" => V2State(s.state)

LEMMA ComparableInit == ASSUME StartAssumption, HistoryInit PROVE Comparable
<1>1. PICK start \in Starts :
        /\ doc = start.doc /\ content = start.content /\ files = start.files
        /\ extras = start.extras
        /\ snapshots = {[at |-> 0, layout |-> "v2", state |-> s] : s \in start.snapshots}
  BY DEF HistoryInit
<1>2. /\ IsSeq(doc) /\ IsSeq(extras)
      /\ IsFiniteSet(DOMAIN content)
      /\ \A s \in start.snapshots : V2State(s)
  BY <1>1 DEF StartAssumption, IsSeq, V2State
<1>3. TextsAreSeq(files)
  <2> SUFFICES ASSUME NEW section \in Range(SectionOrder), NEW name \in Range(SourcesOf(section))
               PROVE  IsSeq(TextsOf(files, name, section))
    BY DEF TextsAreSeq
  <2> DEFINE texts == TextsOf(files, name, section)
  <2>1. texts \in Seq(Range(texts)) BY <1>1 DEF StartAssumption
  <2> QED BY <2>1 DEF IsSeq
<1>4. \A s \in snapshots : s.layout = "v2" /\ V2State(s.state) BY <1>1, <1>2
<1>5. pending = <<>> BY DEF HistoryInit
<1> QED BY <1>2, <1>3, <1>4, <1>5 DEF Comparable

\* A body that is written.
LEMMA SaveAsComparable ==
  ASSUME OrderAssumption, Comparable, NEW nodes, IsSeq(nodes),
         NEW bodies, IsFiniteSet(DOMAIN bodies), SaveAs(nodes, bodies), TextsAreSeq(files')
  PROVE  Comparable'
<1>1. /\ doc' = Render(nodes) /\ content' = bodies /\ snapshots' = snapshots
      /\ extras' = <<>> /\ pending' = <<SnapshotV3(nodes, bodies, marks, <<>>)>>
  BY DEF SaveAs
<1>2. /\ IsSeq(doc') /\ IsSeq(extras')
      /\ V3State(SnapshotV3(nodes, bodies, marks, <<>>))
  BY <1>1, RenderIsSeq, EmptyIsSeq, SnapshotIs
<1>3. pending'[1] = SnapshotV3(nodes, bodies, marks, <<>>) BY <1>1
<1>4. TextsAreSeq(files)' OBVIOUS
<1> QED BY <1>1, <1>2, <1>3, <1>4 DEF Comparable

LEMMA NoTexts == TextsAreSeq(NoFiles)
<1> SUFFICES ASSUME NEW section, NEW name \in Range(SourcesOf(section))
             PROVE  IsSeq(TextsOf(NoFiles, name, section))
  BY DEF TextsAreSeq
<1>1. name \in SourceNames BY SourcesAreSeq
<1>2. NoFiles[name] = None BY <1>1 DEF NoFiles, SourceNames
<1>3. TextsOf(NoFiles, name, section) = <<>> BY <1>2 DEF TextsOf, Has
<1> QED BY <1>3, EmptyIsSeq

LEMMA ConvertIs ==
  ASSUME NEW nodes, IsSeq(nodes)
  PROVE  IsSeq(Convert(nodes)) /\ IsFiniteSet(DOMAIN ConvertContent(Convert(nodes)))
<1>1. /\ DOMAIN Convert(nodes) = DOMAIN nodes
      /\ Convert(nodes) = [i \in DOMAIN Convert(nodes) |-> Convert(nodes)[i]]
  BY DEF Convert
<1>2. IsSeq(Convert(nodes)) BY <1>1, MapsToSeq
<1> DEFINE v3 == Convert(nodes)
           ids == {n.id : n \in Range(v3)}
           f == [i \in DOMAIN v3 |-> v3[i].id]
<1>3. DOMAIN ConvertContent(v3) = ids BY DEF ConvertContent
<1> HIDE DEF v3
<1>4. IsFiniteSet(DOMAIN v3) BY <1>2, SeqIs DEF v3
<1>5. f \in Surjection(DOMAIN v3, ids) BY DEF Surjection, Range
<1> HIDE DEF f, ids
<1>6. IsFiniteSet(ids) BY <1>4, <1>5, FS_Surjection
<1> QED BY <1>2, <1>3, <1>6 DEF v3

LEMMA SaveComparable == ASSUME OrderAssumption, Comparable, Save PROVE Comparable'
<1>1. IsSeq(Nodes) BY MapNodesIsSeq DEF Nodes, Comparable
<1>2. CASE SaveAs(Nodes, content) /\ UNCHANGED files
  BY <1>1, <1>2, SaveAsComparable DEF Comparable
<1>3. CASE MigrateAs(Convert(Migrated(files, Nodes)))
  <2> DEFINE nodes == Convert(Migrated(files, Nodes))
  <2>1. IsSeq(Migrated(files, Nodes)) BY <1>1, PlanIsSeq DEF Migrated, Comparable
  <2>2. IsSeq(nodes) /\ IsFiniteSet(DOMAIN ConvertContent(nodes)) BY <2>1, ConvertIs
  <2>3. SaveAs(nodes, ConvertContent(nodes)) /\ files' = NoFiles BY <1>3 DEF MigrateAs
  <2> HIDE DEF nodes
  <2>4. TextsAreSeq(files') BY <2>3, NoTexts
  <2> QED BY <2>2, <2>3, <2>4, SaveAsComparable
<1>4. CASE SaveAs(<<>>, <<>>) /\ UNCHANGED files
  <2>1. IsFiniteSet(DOMAIN <<>>) BY EmptyIsSeq, SeqIs
  <2>2. TextsAreSeq(files') BY <1>4 DEF Comparable
  <2> QED BY <1>4, <2>1, <2>2, EmptyIsSeq, SaveAsComparable
<1> QED BY <1>2, <1>3, <1>4 DEF Save

LEMMA EditedIsSeq ==
  ASSUME NEW s, IsSeq(s), NEW at \in DOMAIN s, NEW x
  PROVE  /\ IsSeq([s EXCEPT ![at] = x])
         /\ IsSeq(RemoveAt(s, at))
         /\ IsSeq(InsertAt(s, at + 1, x))
<1>1. IsSeq([s EXCEPT ![at] = x]) BY MapsToSeq
<1>2. PICK S : s \in Seq(S) BY DEF IsSeq
<1>3. at \in 1..Len(s) /\ Len(s) \in Nat BY SeqIs
<1>4. /\ SubSeq(s, 1, at - 1) \in Seq(S) /\ SubSeq(s, at + 1, Len(s)) \in Seq(S)
      /\ SubSeq(s, 1, at + 1 - 1) \in Seq(S)
  BY <1>2, <1>3
<1>5. IsSeq(RemoveAt(s, at)) BY <1>4, ConcatIs DEF RemoveAt, IsSeq
<1>6. IsSeq(InsertAt(s, at + 1, x))
  <2>1. /\ IsSeq(SubSeq(s, 1, at + 1 - 1)) /\ IsSeq(SubSeq(s, at + 1, Len(s)))
        /\ IsSeq(<<x>>)
    BY <1>4, OneIsSeq DEF IsSeq
  <2>2. IsSeq(SubSeq(s, 1, at + 1 - 1) \o <<x>>) BY <2>1, ConcatIs
  <2> QED BY <2>1, <2>2, ConcatIs DEF InsertAt
<1> QED BY <1>1, <1>5, <1>6

LEMMA EditComparable ==
  ASSUME Comparable, EditItem \/ AddItem \/ EditBody \/ EditExtra
  PROVE  Comparable'
<1>1. UNCHANGED <<files, snapshots, pending>> BY DEF EditItem, AddItem, EditBody, EditExtra, Edit
<1>2. IsSeq(doc')
  <2>1. CASE EditBody \/ EditExtra BY <2>1 DEF EditBody, EditExtra, Comparable
  <2>2. CASE EditItem
    <3>1. IsSeq(doc) BY <2>2 DEF EditItem, Comparable
    <3>2. PICK at \in DOMAIN doc :
            \/ Edit("label") /\ \E l \in Labels : doc' = [doc EXCEPT ![at].label = l]
            \/ Edit("check") /\ doc' = [doc EXCEPT ![at].checked = ~@]
            \/ Edit("indent") /\ \E w \in Widths : doc' = [doc EXCEPT ![at].indent = w]
            \/ Edit("remove") /\ doc' = RemoveAt(doc, at)
            \/ doc' = [doc EXCEPT ![at] = doc[at + 1], ![at + 1] = doc[at]]
            \/ doc' = [doc EXCEPT ![at].high = ~@]
      BY <2>2, Zenon DEF EditItem, Items
    <3>3. \/ \E x : doc' = [doc EXCEPT ![at] = x]
          \/ doc' = RemoveAt(doc, at)
          \/ doc' = [doc EXCEPT ![at] = doc[at + 1], ![at + 1] = doc[at]]
      BY <3>2, Zenon
    <3>4. IsSeq(RemoveAt(doc, at)) /\ \A x : IsSeq([doc EXCEPT ![at] = x]) BY <3>1, EditedIsSeq
    <3>5. IsSeq([doc EXCEPT ![at] = doc[at + 1], ![at + 1] = doc[at]]) BY <3>1, MapsToSeq
    <3> QED BY <3>3, <3>4, <3>5
  <2>3. CASE AddItem
    <3>1. IsSeq(doc) BY <2>3 DEF AddItem, Edit, Comparable
    <3>2. \E at \in DOMAIN doc : \E x : doc' = InsertAt(doc, at + 1, x) BY <2>3 DEF AddItem
    <3> QED BY <3>1, <3>2, EditedIsSeq
  <2> QED BY <2>1, <2>2, <2>3
<1>3. IsFiniteSet(DOMAIN content')
  <2>1. CASE UNCHANGED content BY <2>1 DEF Comparable
  <2>2. CASE EditBody
    <3>1. DOMAIN content' = DOMAIN content BY <2>2 DEF EditBody
    <3> QED BY <3>1 DEF Comparable
  <2> QED BY <2>1, <2>2 DEF EditItem, AddItem, EditExtra
<1>4. TextsAreSeq(files') BY <1>1 DEF Comparable
<1>5. IsSeq(extras')
  <2>1. PICK S : extras \in Seq(S) BY DEF Comparable, IsSeq
  <2>2. CASE UNCHANGED extras BY <2>2 DEF Comparable
  <2>3. ASSUME NEW e, extras' = Append(extras, e) PROVE IsSeq(extras')
    <3>1. extras \in Seq(S \cup {e}) BY <2>1
    <3>2. Append(extras, e) \in Seq(S \cup {e}) BY <3>1
    <3> QED BY <2>3, <3>2 DEF IsSeq
  <2>4. CASE extras # <<>> /\ extras' = Tail(extras)
    <3>1. Tail(extras) \in Seq(S) BY <2>1, <2>4
    <3> QED BY <2>4, <3>1 DEF IsSeq
  <2> QED BY <2>2, <2>3, <2>4 DEF EditItem, AddItem, EditBody, EditExtra
<1> QED BY <1>1, <1>2, <1>3, <1>4, <1>5 DEF Comparable

LEMMA RecordComparable ==
  ASSUME Comparable, Record \/ SkipRecord \/ TearRecord \/ SetBack
  PROVE  Comparable'
<1>1. UNCHANGED <<doc, extras, content, files>> BY DEF Record, SkipRecord, TearRecord, SetBack
<1>2. pending' # <<>> => pending' = pending BY DEF Record, SkipRecord, TearRecord, SetBack
<1>3. \A s \in snapshots' : \/ s \in snapshots
                            \/ s.layout = "torn"
                            \/ s.layout = "v3" /\ pending # <<>> /\ s.state = pending[1]
  <2>1. CASE Record
    <3> DEFINE new == [at |-> clock + 2, layout |-> "v3", state |-> pending[1]]
    <3>1. snapshots' \subseteq snapshots \cup {new} /\ pending # <<>> BY <2>1 DEF Record
    <3>2. new.layout = "v3" /\ new.state = pending[1] OBVIOUS
    <3> HIDE DEF new
    <3> QED BY <3>1, <3>2
  <2>2. CASE SkipRecord \/ SetBack
    <3>1. snapshots' = snapshots BY <2>2 DEF SkipRecord, SetBack
    <3> QED BY <3>1
  <2>3. CASE TearRecord
    <3> DEFINE torn == [at |-> clock + 2, layout |-> "torn", state |-> <<>>]
    <3>1. snapshots' = snapshots \cup {torn} BY <2>3 DEF TearRecord
    <3>2. torn.layout = "torn" OBVIOUS
    <3> HIDE DEF torn
    <3> QED BY <3>1, <3>2
  <2> QED BY <2>1, <2>2, <2>3
<1>4. \A s \in snapshots' : /\ s.layout = "v3" => V3State(s.state)
                            /\ s.layout = "v2" => V2State(s.state)
  BY <1>3 DEF Comparable
<1> QED BY <1>1, <1>2, <1>4 DEF Comparable

LEMMA ComparableStep ==
  ASSUME OrderAssumption, Comparable, [HistoryNext]_historyVars
  PROVE  Comparable'
<1>1. CASE UNCHANGED historyVars BY <1>1 DEF historyVars, Comparable
<1>2. CASE HistoryNext
  BY <1>2, EditComparable, SaveComparable, RecordComparable DEF HistoryNext
<1> QED BY <1>1, <1>2

LEMMA ReplaysFrom == ASSUME OrderAssumption, Comparable PROVE DiffReplays
<1> DEFINE now == [nodes |-> Nodes, extras |-> extras]
<1>1. V2State(now) /\ V3State(Current)
  <2>1. IsSeq(Nodes) BY MapNodesIsSeq DEF Nodes, Comparable
  <2>2. V2State(now) BY <2>1 DEF V2State, Comparable
  <2>3. V3State(Current) BY <2>1, SnapshotIs DEF Current, Comparable
  <2> QED BY <2>2, <2>3
<1> HIDE DEF now
<1> SUFFICES ASSUME NEW s \in snapshots
             PROVE  /\ layout = "v3" /\ s \in Readable =>
                         ReplaysV3(s.state, Current, DiffV3States(s.state, Current))
                    /\ layout = "v2" /\ s.layout = "v2" => ReplaysV2(DiffStates(s.state, now))
  BY DEF DiffReplays, now
<1>2. s \in Readable => s.layout = "v3" BY DEF Readable
<1>3. CASE s.layout = "v3"
  <2>1. V3State(s.state) BY <1>3, s \in snapshots DEF Comparable
  <2>2. ReplaysV3(s.state, Current, DiffV3States(s.state, Current)) BY <1>1, <2>1, V3ReportReplays
  <2> QED BY <1>3, <2>2
<1>4. CASE s.layout = "v2"
  <2>1. V2State(s.state) BY <1>4 DEF Comparable
  <2>2. ReplaysV2(DiffStates(s.state, now)) BY <1>1, <2>1, V2ReportReplays
  <2> QED BY <1>2, <1>4, <2>2
<1> QED BY <1>2, <1>3, <1>4

\* Whatever snapshot the files are compared with, and whatever the user did to
\* them, the report leads from the one to the other: row by row in a v3
\* handoff, drafts that share the entry of one aside, and an empty report means
\* one state but for order, origin, unknown sections and such drafts
\* (Overlooked); by the number of times each section says a text in a v2 one.
THEOREM DiffReplaysAlways == HistorySpec => []DiffReplays
<1>1. HistoryInit => Comparable BY StartAssumption, ComparableInit
<1>2. Comparable /\ [HistoryNext]_historyVars => Comparable' BY OrderAssumption, ComparableStep
<1>3. Comparable => DiffReplays BY OrderAssumption, ReplaysFrom
<1> QED BY <1>1, <1>2, <1>3, PTL DEF HistorySpec

-----------------------------------------------------------------------------
(* What is picked, in order.                                               *)

Below(I, i) == {j \in I : j < i}

LEMMA BelowCount ==
  ASSUME NEW I, Indices(I), NEW i \in I
  PROVE  /\ Cardinality(Below(I, i)) \in 0..Cardinality(I) - 1
         /\ \A j \in I : i < j => Cardinality(Below(I, i)) < Cardinality(Below(I, j))
<1>1. IsFiniteSet(I) /\ I \in SUBSET Int BY DEF Indices
<1>2. \A j \in I : Below(I, j) \in SUBSET I BY DEF Below
<1>3. \A j \in I : IsFiniteSet(Below(I, j)) /\ Cardinality(Below(I, j)) \in Nat
  BY <1>1, <1>2, FS_Subset, FS_CardinalityType
<1>4. Cardinality(I) \in Nat BY <1>1, FS_CardinalityType
<1>5. i \notin Below(I, i) BY <1>1 DEF Below
<1>6. Cardinality(Below(I, i)) < Cardinality(I)
  <2>1. Cardinality(Below(I, i)) <= Cardinality(I) BY <1>1, <1>2, FS_Subset
  <2>2. Cardinality(I) = Cardinality(Below(I, i)) => I = Below(I, i)
    BY <1>1, <1>2, FS_Subset
  <2> QED BY <2>1, <2>2, <1>3, <1>4, <1>5
<1>7. ASSUME NEW j \in I, i < j PROVE Cardinality(Below(I, i)) < Cardinality(Below(I, j))
  <2>1. Below(I, i) \in SUBSET Below(I, j)
    <3>1. \A x \in I : x \in Int BY <1>1
    <3>2. \A x \in I : x < i => x < j BY <1>7, <3>1
    <3> QED BY <3>2 DEF Below
  <2>2. i \in Below(I, j) BY <1>7 DEF Below
  <2>3. Cardinality(Below(I, i)) <= Cardinality(Below(I, j)) BY <2>1, <1>3, FS_Subset
  <2>4. Cardinality(Below(I, j)) = Cardinality(Below(I, i)) => Below(I, j) = Below(I, i)
    BY <2>1, <1>3, FS_Subset
  <2> QED BY <2>2, <2>3, <2>4, <1>3, <1>5
<1> QED BY <1>3, <1>4, <1>6, <1>7

LEMMA BelowIsPlace ==
  ASSUME NEW I, Indices(I), NEW i \in I, NEW j \in I,
         Cardinality(Below(I, i)) = Cardinality(Below(I, j))
  PROVE  i = j
<1>1. i \in Int /\ j \in Int BY DEF Indices
<1>2. Cardinality(Below(I, i)) \in Int BY BelowCount
<1>3. ~(i < j) /\ ~(j < i) BY <1>2, BelowCount
<1> QED BY <1>1, <1>3

\* The places of I in their order.
Places(I, e) ==
  /\ e \in [1..Cardinality(I) -> I]
  /\ \A q, r \in 1..Cardinality(I) : q < r => e[q] < e[r]
  /\ \A i \in I : \E r \in 1..Cardinality(I) : e[r] = i

PickedAs(s, I, e) == Places(I, e) /\ Picked(s, I) = [r \in 1..Cardinality(I) |-> s[e[r]]]

LEMMA PickedIs ==
  ASSUME NEW s, NEW I, Indices(I)
  PROVE  /\ Cardinality(I) \in Nat
         /\ \E e : PickedAs(s, I, e)
<1> DEFINE n == Cardinality(I)
           count == [i \in I |-> Cardinality(Below(I, i)) + 1]
           e == [r \in 1..n |-> CHOOSE i \in I : Cardinality(Below(I, i)) = r - 1]
<1>1. IsFiniteSet(I) /\ n \in Nat BY FS_CardinalityType DEF Indices
<1>2. IsFiniteSet(1..n) /\ Cardinality(1..n) = n BY <1>1, FS_Interval
<1>3. count \in [I -> 1..n] BY <1>1, BelowCount
<1>4. \A i, j \in I : count[i] = count[j] => i = j
  <2> SUFFICES ASSUME NEW i \in I, NEW j \in I, count[i] = count[j] PROVE i = j OBVIOUS
  <2>1. Cardinality(Below(I, i)) = Cardinality(Below(I, j)) BY BelowCount
  <2> QED BY <2>1, BelowIsPlace
<1>5. count \in Injection(I, 1..n) BY <1>3, <1>4 DEF Injection, IsInjective
<1>6. count \in Surjection(I, 1..n) BY <1>2, <1>5, FS_Injection
<1>7. \A r \in 1..n : \E i \in I : Cardinality(Below(I, i)) = r - 1
  <2> SUFFICES ASSUME NEW r \in 1..n PROVE \E i \in I : Cardinality(Below(I, i)) = r - 1
    OBVIOUS
  <2>1. PICK i \in I : count[i] = r BY <1>6 DEF Surjection
  <2>2. Cardinality(Below(I, i)) + 1 = r BY <2>1
  <2> QED BY <2>2, BelowCount
<1>8. \A r \in 1..n : e[r] \in I /\ Cardinality(Below(I, e[r])) = r - 1 BY <1>7
<1>9. e \in [1..n -> I] BY <1>8
<1>10. Picked(s, I) = [r \in 1..n |-> s[e[r]]] BY DEF Picked, Below
<1> HIDE DEF e
<1>11. ASSUME NEW q \in 1..n, NEW r \in 1..n, q < r PROVE e[q] < e[r]
  <2>1. e[q] \in Int /\ e[r] \in Int BY <1>8 DEF Indices
  <2>2. ~(e[r] < e[q])
    <3>1. e[r] < e[q] => Cardinality(Below(I, e[r])) < Cardinality(Below(I, e[q]))
      BY <1>8, BelowCount
    <3> QED BY <1>8, <1>11, <3>1
  <2>3. e[q] # e[r] BY <1>8, <1>11
  <2> QED BY <2>1, <2>2, <2>3
<1>12. ASSUME NEW i \in I PROVE \E r \in 1..n : e[r] = i
  <2> DEFINE r == Cardinality(Below(I, i)) + 1
  <2>1. r \in 1..n /\ Cardinality(Below(I, i)) = r - 1 BY <1>1, BelowCount
  <2>2. e[r] \in I /\ Cardinality(Below(I, e[r])) = Cardinality(Below(I, i)) BY <1>8, <2>1
  <2>3. e[r] = i BY <2>2, BelowIsPlace
  <2> QED BY <2>1, <2>3
<1>13. Places(I, e) BY <1>9, <1>11, <1>12 DEF Places
<1>14. PickedAs(s, I, e) BY <1>10, <1>13 DEF PickedAs
<1> QED BY <1>1, <1>14

\* A run of them.
Stretch(s, a, n) == [r \in 1..n |-> s[a + r]]

LEMMA PickedRange ==
  ASSUME NEW s, NEW a \in Nat, NEW n \in Nat
  PROVE  Picked(s, a + 1..a + n) = Stretch(s, a, n)
<1> DEFINE I == a + 1..a + n
<1>1. IsFiniteSet(I) /\ Cardinality(I) = n BY FS_Interval
<1>2. ASSUME NEW i \in I PROVE Cardinality({j \in I : j < i}) = i - a - 1
  <2>1. {j \in I : j < i} = a + 1..i - 1 OBVIOUS
  <2>2. Cardinality(a + 1..i - 1) = i - a - 1 BY FS_Interval
  <2> QED BY <2>1, <2>2
<1>3. ASSUME NEW r \in 1..n
      PROVE  (CHOOSE i \in I : Cardinality({j \in I : j < i}) = r - 1) = a + r
  <2>1. a + r \in I OBVIOUS
  <2>2. \A i \in I : Cardinality({j \in I : j < i}) = r - 1 <=> i = a + r
    <3> SUFFICES ASSUME NEW i \in I
                 PROVE  Cardinality({j \in I : j < i}) = r - 1 <=> i = a + r
      OBVIOUS
    <3>1. i \in Int OBVIOUS
    <3> QED BY <1>2, <3>1
  <2> HIDE DEF I
  <2> QED BY <2>1, <2>2
<1>4. Picked(s, I) = [r \in 1..n |-> s[CHOOSE i \in I : Cardinality({j \in I : j < i}) = r - 1]]
  BY <1>1 DEF Picked
<1> HIDE DEF I
<1>5. Picked(s, I) = [r \in 1..n |-> s[a + r]] BY <1>3, <1>4
<1> QED BY <1>5 DEF I, Stretch

-----------------------------------------------------------------------------
(* The nodes of a Map, section by section.                                 *)

IsNode(n) ==
  n = [section |-> n.section, depth |-> n.depth, id |-> n.id, label |-> n.label,
       checked |-> n.checked, high |-> n.high, at |-> n.at]

\* The nodes of one section: each at most one level below the one before it.
SectionOf(part, s) ==
  /\ IsSeq(part)
  /\ \A i \in 1..Len(part) :
       /\ IsNode(part[i]) /\ part[i].section = s /\ part[i].at = 0 /\ part[i].depth \in Nat
       /\ part[i].depth <= (IF i = 1 THEN 1 ELSE part[i - 1].depth + 1)

Sectioned(nodes, parts) ==
  /\ parts = [m \in 1..Len(SectionOrder) |-> parts[m]]
  /\ \A m \in 1..Len(SectionOrder) : SectionOf(parts[m], SectionOrder[m])
  /\ nodes = FlattenSeq(parts)

IsMap(nodes) == \E parts : Sectioned(nodes, parts)

\* A part is where its offset says, and no other part is there.
PartAt(parts, n, s, off, m) ==
  /\ off[m - 1] \in Nat /\ off[m] = off[m - 1] + Len(parts[m]) /\ off[m] <= Len(s)
  /\ Len(parts[m]) \in Nat
  /\ \A i \in 1..Len(parts[m]) : s[off[m - 1] + i] = parts[m][i]
  /\ \A p \in 1..n : \A i \in 1..Len(parts[p]) :
       off[p - 1] + i \in off[m - 1] + 1..off[m] => p = m

LEMMA JoinedPart ==
  ASSUME NEW n \in Nat, NEW parts, NEW s, NEW off, Joins(parts, n, s, off),
         \A m \in 1..n : IsSeq(parts[m]), NEW m \in 1..n
  PROVE  PartAt(parts, n, s, off, m)
<1>1. \A p \in 1..n : Len(parts[p]) \in Nat BY SeqIs
<1>2. Offsets(parts, n, off) /\ Holds(parts, n, s, off) /\ Len(s) = off[n] BY DEF Joins
<1>3. \A p \in 1..n : /\ off[p - 1] \in Nat /\ off[p] \in Nat
                      /\ off[p] = off[p - 1] + Len(parts[p])
  <2>1. \A p \in 1..n : p \in 0..n /\ p - 1 \in 0..n OBVIOUS
  <2> QED BY <1>2, <2>1 DEF Offsets
<1>4. \A p \in 0..n : \A q \in p..n : off[p] <= off[q] BY <1>1, <1>2, OffsetsGrow
<1>5. off[m] <= off[n]
  <2>1. m \in 0..n /\ n \in m..n OBVIOUS
  <2> QED BY <1>4, <2>1
<1>6. \A i \in 1..Len(parts[m]) : s[off[m - 1] + i] = parts[m][i] BY <1>2 DEF Holds
<1>7. ASSUME NEW p \in 1..n, NEW i \in 1..Len(parts[p]),
             off[p - 1] + i \in off[m - 1] + 1..off[m]
      PROVE  p = m
  <2>1. /\ off[p - 1] \in Nat /\ off[p] \in Nat /\ off[p] = off[p - 1] + Len(parts[p])
        /\ off[m - 1] \in Nat /\ off[m] \in Nat /\ Len(parts[p]) \in Nat
    BY <1>1, <1>3
  <2>2. CASE p < m
    <3>1. p \in 0..n /\ m - 1 \in p..n BY <2>2
    <3>2. off[p] <= off[m - 1] BY <1>4, <3>1
    <3>3. off[p - 1] + i > off[m - 1] /\ i <= Len(parts[p]) /\ i \in Int BY <1>7, <2>1
    <3> QED BY <2>1, <3>2, <3>3
  <2>3. CASE m < p
    <3>1. m \in 0..n /\ p - 1 \in m..n BY <2>3
    <3>2. off[m] <= off[p - 1] BY <1>4, <3>1
    <3>3. off[p - 1] + i <= off[m] /\ i > 0 BY <1>7, <2>1
    <3> QED BY <2>1, <3>2, <3>3
  <2> QED BY <2>2, <2>3
<1> QED BY <1>1, <1>2, <1>3, <1>5, <1>6, <1>7 DEF PartAt

LEMMA SectionsDiffer ==
  ASSUME OrderAssumption, NEW p \in 1..Len(SectionOrder), NEW m \in 1..Len(SectionOrder),
         SectionOrder[p] = SectionOrder[m]
  PROVE  p = m
BY SectionsAreSeq DEF OrderAssumption, IsInjective

\* The nodes of a section are its part.
LEMMA InSectionIs ==
  ASSUME OrderAssumption, NEW nodes, NEW parts, Sectioned(nodes, parts),
         NEW m \in 1..Len(SectionOrder)
  PROVE  InSection(nodes, SectionOrder[m]) = parts[m]
<1> DEFINE n == Len(SectionOrder)
           I == {i \in DOMAIN nodes : nodes[i].section = SectionOrder[m]}
<1>1. n \in Nat BY SectionsAreSeq
<1>2. \A p \in 1..n : SectionOf(parts[p], SectionOrder[p]) /\ IsSeq(parts[p])
  BY DEF Sectioned, SectionOf
<1>3. /\ parts = [p \in 1..n |-> parts[p]] /\ nodes = FlattenSeq(parts) BY DEF Sectioned
<1>4. PICK off : Joins(parts, n, nodes, off)
  <2> HIDE DEF n
  <2> QED BY <1>1, <1>2, <1>3, FlattenIsSeq
<1>5. IsSeq(nodes) /\ Len(nodes) = off[n] /\ DOMAIN nodes = 1..Len(nodes)
  BY <1>4, SeqIs DEF Joins
<1> HIDE DEF n
<1>6. \A p \in 1..n :
        /\ off[p - 1] \in Nat /\ off[p] = off[p - 1] + Len(parts[p]) /\ off[p] <= Len(nodes)
        /\ Len(parts[p]) \in Nat
        /\ \A i \in 1..Len(parts[p]) : nodes[off[p - 1] + i] = parts[p][i]
        /\ \A q \in 1..n : \A i \in 1..Len(parts[q]) :
             off[q - 1] + i \in off[p - 1] + 1..off[p] => q = p
  <2> SUFFICES ASSUME NEW p \in 1..n PROVE PartAt(parts, n, nodes, off, p) BY DEF PartAt
  <2> QED BY <1>1, <1>2, <1>4, JoinedPart
<1>7. m \in 1..n BY DEF n
<1>8. I = off[m - 1] + 1..off[m - 1] + Len(parts[m])
  <2>1. ASSUME NEW i \in I PROVE i \in off[m - 1] + 1..off[m - 1] + Len(parts[m])
    <3>1. i \in 1..off[n] /\ nodes[i].section = SectionOrder[m] BY <1>5
    <3>2. PICK p \in 1..n : i - off[p - 1] \in 1..Len(parts[p]) BY <1>4, <3>1 DEF Joins, Covered
    <3>3. off[p - 1] \in Nat /\ i = off[p - 1] + (i - off[p - 1]) BY <1>6, <3>1
    <3>4. nodes[i] = parts[p][i - off[p - 1]] BY <1>6, <3>2, <3>3
    <3>5. nodes[i].section = SectionOrder[p] BY <1>2, <3>2, <3>4 DEF SectionOf
    <3>6. p = m BY <1>7, <3>1, <3>5, SectionsDiffer DEF n
    <3> QED BY <1>6, <1>7, <3>2, <3>3, <3>6
  <2>2. ASSUME NEW i \in off[m - 1] + 1..off[m - 1] + Len(parts[m]) PROVE i \in I
    <3>1. /\ off[m - 1] \in Nat /\ off[m] = off[m - 1] + Len(parts[m]) /\ off[m] <= Len(nodes)
          /\ Len(parts[m]) \in Nat
      BY <1>6, <1>7
    <3>2. i - off[m - 1] \in 1..Len(parts[m]) /\ i = off[m - 1] + (i - off[m - 1]) BY <3>1
    <3>3. nodes[i] = parts[m][i - off[m - 1]] BY <1>6, <1>7, <3>2
    <3>4. nodes[i].section = SectionOrder[m] BY <1>2, <1>7, <3>2, <3>3 DEF SectionOf
    <3>5. Len(nodes) \in Nat BY <1>5, SeqIs
    <3> QED BY <1>5, <3>1, <3>4, <3>5
  <2> HIDE DEF I
  <2> QED BY <2>1, <2>2
<1>9. Picked(nodes, I) = [r \in 1..Len(parts[m]) |-> nodes[off[m - 1] + r]]
  <2>1. off[m - 1] \in Nat /\ Len(parts[m]) \in Nat BY <1>6, <1>7
  <2>2. Picked(nodes, off[m - 1] + 1..off[m - 1] + Len(parts[m]))
          = Stretch(nodes, off[m - 1], Len(parts[m]))
    BY <2>1, PickedRange
  <2> HIDE DEF I
  <2> QED BY <1>8, <2>2 DEF Stretch
<1>10. parts[m] = [r \in 1..Len(parts[m]) |-> parts[m][r]] BY <1>2, <1>7, SeqIs
<1>11. \A r \in 1..Len(parts[m]) : nodes[off[m - 1] + r] = parts[m][r] BY <1>6, <1>7
<1>12. Picked(nodes, I) = parts[m]
  <2> HIDE DEF I
  <2> QED BY <1>9, <1>10, <1>11
<1> QED BY <1>12 DEF InSection

-----------------------------------------------------------------------------
(* What is known before every line.                                        *)

Levels == {l \in Seq(Nat) : /\ Len(l) >= 1 /\ l[1] = 0
                            /\ \A i, j \in 1..Len(l) : i < j => l[i] < l[j]}
UpTo(d) == [i \in 1..d + 1 |-> 2 * (i - 1)]

\* The levels that stay open are the first ones.
LEMMA OpenIs ==
  ASSUME NEW l \in Levels, NEW w \in Nat
  PROVE  /\ Open(l, w) \in Levels /\ Len(Open(l, w)) <= Len(l) + 1
         /\ \E c \in 1..Len(l) :
              /\ \A i \in 1..Len(l) : l[i] <= w <=> i <= c
              /\ Open(l, w) = IF l[c] < w THEN Append(Stretch(l, 0, c), w) ELSE Stretch(l, 0, c)
<1> DEFINE n == Len(l)
<1>1. /\ l \in Seq(Nat) /\ n \in Nat /\ n >= 1 /\ l[1] = 0 /\ DOMAIN l = 1..n
      /\ \A i \in 1..n : l[i] \in Nat
      /\ \A i, j \in 1..n : i < j => l[i] < l[j]
  BY DEF Levels
<1> HIDE DEF n
<1>2. \E c \in 1..n : \A i \in 1..n : l[i] <= w <=> i <= c
  <2> DEFINE In(c) == \A i \in 1..n : i <= c => l[i] <= w
             To(c) == \A i \in 1..n : l[i] <= w <=> i <= c
             G == {c \in 0..n - 1 : In(c + 1) \/ \E b \in 1..n : To(b)}
  <2>1. 0 \in G
    <3>1. In(1) BY <1>1
    <3> HIDE DEF In
    <3> QED BY <1>1, <3>1
  <2>2. ASSUME NEW c \in 1..n - 1, c - 1 \in G PROVE c \in G
    <3>1. CASE \E b \in 1..n : To(b) BY <3>1
    <3>2. CASE In(c)
      <4>1. CASE l[c + 1] <= w
        <5>1. In(c + 1)
          <6> SUFFICES ASSUME NEW i \in 1..n, i <= c + 1 PROVE l[i] <= w OBVIOUS
          <6>1. i <= c \/ i = c + 1 OBVIOUS
          <6> QED BY <3>2, <4>1, <6>1
        <5> HIDE DEF In
        <5> QED BY <5>1
      <4>2. CASE ~(l[c + 1] <= w)
        <5>1. To(c)
          <6> SUFFICES ASSUME NEW i \in 1..n PROVE l[i] <= w <=> i <= c OBVIOUS
          <6>1. i <= c => l[i] <= w BY <3>2
          <6>2. i = c + 1 => ~(l[i] <= w) BY <4>2
          <6>3. i > c + 1 => l[c + 1] < l[i] BY <1>1
          <6>4. l[i] \in Nat /\ l[c + 1] \in Nat BY <1>1
          <6>5. i > c + 1 => ~(l[i] <= w)
            <7>1. i > c + 1 => l[c + 1] < l[i] BY <6>3
            <7>2. w < l[c + 1] BY <4>2, <6>4
            <7> QED BY <6>4, <7>1, <7>2
          <6>6. l[i] <= w => i <= c
            <7>1. i <= c \/ i = c + 1 \/ i > c + 1 OBVIOUS
            <7> QED BY <6>2, <6>5, <7>1
          <6> QED BY <6>1, <6>6
        <5>2. c \in 1..n BY <1>1
        <5> HIDE DEF To, In
        <5> QED BY <5>1, <5>2
      <4> QED BY <4>1, <4>2
    <3> HIDE DEF In, To
    <3>3. c - 1 + 1 = c OBVIOUS
    <3> QED BY <2>2, <3>1, <3>2, <3>3
  <2>3. n - 1 \in G
    <3>1. n - 1 \in Nat /\ n - 1 \in 0..n - 1 BY <1>1
    <3> HIDE DEF G
    <3> QED BY <2>1, <2>2, <3>1, CountUp
  <2>4. In(n - 1 + 1) => To(n) BY <1>1
  <2> HIDE DEF In
  <2>5. \E b \in 1..n : To(b)
    <3> HIDE DEF To
    <3> QED BY <1>1, <2>3, <2>4
  <2> QED BY <2>5
<1>3. PICK c \in 1..n : \A i \in 1..n : l[i] <= w <=> i <= c BY <1>2
<1> DEFINE first == Stretch(l, 0, c)
<1>4. Picked(l, {i \in DOMAIN l : l[i] <= w}) = first
  <2>1. {i \in DOMAIN l : l[i] <= w} = 0 + 1..0 + c BY <1>1, <1>3
  <2>2. Picked(l, 0 + 1..0 + c) = first BY <1>1, PickedRange
  <2> QED BY <2>1, <2>2
<1>5. /\ first \in Seq(Nat) /\ Len(first) = c
      /\ \A i \in 1..c : first[i] = l[i]
  BY <1>1 DEF Stretch
<1> HIDE DEF first
<1>6. Last(first) = l[c] BY <1>5 DEF Last
<1>7. Open(l, w) = IF l[c] < w THEN Append(first, w) ELSE first BY <1>4, <1>6 DEF Open
<1>8. first \in Levels BY <1>1, <1>5 DEF Levels
<1>9. l[c] < w => Append(first, w) \in Levels
  <2> SUFFICES ASSUME l[c] < w PROVE Append(first, w) \in Levels OBVIOUS
  <2> DEFINE new == Append(first, w)
  <2>1. new \in Seq(Nat) /\ Len(new) = c + 1 /\ new[c + 1] = w BY <1>5
  <2>2. \A i \in 1..c : new[i] = l[i] BY <1>5
  <2> HIDE DEF new
  <2>3. ASSUME NEW i \in 1..c + 1, NEW j \in 1..c + 1, i < j PROVE new[i] < new[j]
    <3>1. i \in 1..c /\ i \in 1..n /\ new[i] = l[i] /\ l[i] \in Nat BY <1>1, <2>2, <2>3
    <3>2. CASE j = c + 1
      <4>1. l[i] <= l[c]
        <5>1. i = c \/ i < c BY <3>1
        <5>2. l[c] \in Nat BY <1>1
        <5> QED BY <1>1, <3>1, <5>1, <5>2
      <4>2. l[c] \in Nat BY <1>1
      <4> QED BY <2>1, <3>1, <3>2, <4>1, <4>2
    <3>3. CASE j # c + 1
      <4>1. j \in 1..c /\ j \in 1..n /\ new[j] = l[j] BY <1>1, <2>2, <3>3
      <4> QED BY <1>1, <2>3, <3>1, <4>1
    <3> QED BY <3>2, <3>3
  <2>4. new[1] = 0 BY <1>1, <2>2
  <2>5. new \in Levels BY <2>1, <2>3, <2>4 DEF Levels
  <2> QED BY <2>5 DEF new
<1>10. Len(Open(l, w)) <= n + 1
  <2>1. l[c] < w => Len(Append(first, w)) = c + 1 BY <1>5
  <2> QED BY <1>1, <1>5, <1>7, <2>1
<1>11. Open(l, w) \in Levels BY <1>7, <1>8, <1>9
<1> QED BY <1>3, <1>7, <1>10, <1>11 DEF n, first

LEMMA OpenUpTo ==
  ASSUME NEW d \in Nat, NEW e \in Nat, e <= d + 1
  PROVE  UpTo(d) \in Levels /\ Open(UpTo(d), 2 * e) = UpTo(e)
<1> DEFINE l == UpTo(d)
<1>1. l \in Seq(Nat) /\ Len(l) = d + 1 /\ \A i \in 1..d + 1 : l[i] = 2 * (i - 1) BY DEF UpTo
<1> HIDE DEF l
<1>2. l \in Levels BY <1>1 DEF Levels
<1>3. PICK c \in 1..d + 1 :
        /\ \A i \in 1..d + 1 : l[i] <= 2 * e <=> i <= c
        /\ Open(l, 2 * e) = IF l[c] < 2 * e THEN Append(Stretch(l, 0, c), 2 * e) ELSE Stretch(l, 0, c)
  <2> DEFINE w == 2 * e
  <2>1. w \in Nat OBVIOUS
  <2> HIDE DEF w
  <2>2. \E c \in 1..Len(l) :
          /\ \A i \in 1..Len(l) : l[i] <= w <=> i <= c
          /\ Open(l, w) = IF l[c] < w THEN Append(Stretch(l, 0, c), w) ELSE Stretch(l, 0, c)
    BY <1>2, <2>1, OpenIs
  <2> QED BY <1>1, <2>2 DEF w
<1>4. Stretch(l, 0, c) \in Seq(Nat) /\ Len(Stretch(l, 0, c)) = c
      /\ \A i \in 1..c : Stretch(l, 0, c)[i] = 2 * (i - 1)
  BY <1>1 DEF Stretch
<1>5. CASE e = d + 1
  <2>1. c = d + 1
    <3>1. d + 1 \in 1..d + 1 /\ l[d + 1] = 2 * d BY <1>1
    <3>2. 2 * d <= 2 * e BY <1>5
    <3> QED BY <1>3, <3>1, <3>2
  <2>2. l[c] = 2 * d BY <1>1, <2>1
  <2>3. Open(l, 2 * e) = Append(Stretch(l, 0, c), 2 * e)
    <3>1. l[c] < 2 * e BY <1>5, <2>2
    <3> QED BY <1>3, <3>1
  <2> DEFINE new == Append(Stretch(l, 0, c), 2 * e)
  <2>4. new \in Seq(Nat) /\ Len(new) = e + 1 /\ \A i \in 1..e + 1 : new[i] = 2 * (i - 1)
    BY <1>4, <1>5, <2>1
  <2> HIDE DEF new
  <2>5. new = UpTo(e) BY <2>4 DEF UpTo
  <2> QED BY <1>2, <2>3, <2>5 DEF new, l
<1>6. CASE e # d + 1
  <2>1. e + 1 \in 1..d + 1 /\ l[e + 1] = 2 * e BY <1>1, <1>6
  <2>2. e + 1 <= c BY <1>3, <2>1
  <2>3. l[c] = 2 * (c - 1) /\ l[c] <= 2 * e BY <1>1, <1>3
  <2>4. c = e + 1 BY <2>2, <2>3
  <2>5. Open(l, 2 * e) = Stretch(l, 0, c) BY <1>3, <2>3, <2>4
  <2>6. Stretch(l, 0, c) = UpTo(e) BY <1>1, <2>4 DEF Stretch, UpTo
  <2> QED BY <1>2, <2>5, <2>6 DEF l
<1> QED BY <1>5, <1>6

IsDoc(lines) == IsSeq(lines) /\ \A i \in 1..Len(lines) : IsLine(lines[i])

Known == [section : Range(SectionOrder) \cup {None}, levels : Levels]

LEMMA LinesAre ==
  /\ \A s : IsHeading(Heading(s)) /\ Heading(s).heading = s
  /\ \A line : IsItem(line) => ~IsHeading(line) /\ line.indent \in Nat
BY DEF IsHeading, Heading, IsItem, Item

LEMMA MarginIs == <<0>> \in Levels /\ Len(<<0>>) = 1
BY DEF Levels

LEMMA ParseLineIs ==
  ASSUME NEW acc \in Known, NEW line, IsLine(line)
  PROVE  ParseLine(acc, line) \in Known
<1>1. CASE \E s \in Range(SectionOrder) \cup {None} : line = Heading(s)
  <2>1. IsHeading(line) /\ line.heading \in Range(SectionOrder) \cup {None} BY <1>1, LinesAre
  <2> QED BY <2>1, MarginIs DEF ParseLine, Known
<1>2. CASE IsItem(line)
  <2>1. ~IsHeading(line) /\ line.indent \in Nat BY <1>2, LinesAre
  <2>2. acc.levels \in Levels BY DEF Known
  <2>3. Open(acc.levels, line.indent) \in Levels BY <2>1, <2>2, OpenIs
  <2> QED BY <2>1, <2>3 DEF ParseLine, Known
<1> QED BY <1>1, <1>2 DEF IsLine

\* What is read of a line is read after what was known before it.
Reads(lines, read) ==
  /\ read \in [1..Len(lines) + 1 -> Known]
  /\ read[1].section = None /\ read[1].levels = <<0>>
  /\ \A i \in 1..Len(lines) : read[i + 1] = ParseLine(read[i], lines[i])

LEMMA ReadIs ==
  ASSUME NEW lines, IsDoc(lines)
  PROVE  Reads(lines, Read(lines))
<1> DEFINE n == Len(lines)
           start == [section |-> None, levels |-> <<0>>]
           step == [x \in (1..n) \X Known |-> ParseLine(x[2], lines[x[1]])]
<1>1. n \in Nat BY SeqIs DEF IsDoc
<1>2. start \in Known BY MarginIs DEF Known
<1>3. step \in [(1..n) \X Known -> Known]
  <2>1. \A x \in (1..n) \X Known : x[2] \in Known /\ IsLine(lines[x[1]]) BY DEF IsDoc
  <2>2. \A x \in (1..n) \X Known : ParseLine(x[2], lines[x[1]]) \in Known BY <2>1, ParseLineIs
  <2> QED BY <2>2
<1>4. \A i \in 1..n : \A acc \in Known : step[<<i, acc>>] = ParseLine(acc, lines[i]) OBVIOUS
<1> HIDE DEF step, start, n
<1>5. PICK acc \in [0..n -> Known] : Stepped(acc, n, start, step) BY <1>1, <1>2, <1>3, StepsExist
<1>6. acc[0] = start /\ \A i \in 1..n : acc[i] = ParseLine(acc[i - 1], lines[i])
  <2>1. \A i \in 1..n : acc[i - 1] \in Known BY <1>1, <1>5
  <2> QED BY <1>4, <1>5, <2>1 DEF Stepped
<1> DEFINE tuple(m) == [j \in 1..m + 1 |-> acc[j - 1]]
           whole == [m \in 0..n |-> tuple(m)]
           Next1(f, m) == IF m = 0 THEN <<start>>
                          ELSE Append(f[m - 1], ParseLine(f[m - 1][m], lines[m]))
           Rec(f) == f = [m \in 0..n |-> Next1(f, m)]
<1>7. Rec(whole)
  <2> SUFFICES ASSUME NEW m \in 0..n PROVE tuple(m) = Next1(whole, m) OBVIOUS
  <2>1. CASE m = 0
    <3>1. tuple(0) = <<acc[0]>> OBVIOUS
    <3> QED BY <1>6, <2>1, <3>1
  <2>2. CASE m # 0
    <3>1. m - 1 \in 0..n /\ m \in 1..n /\ whole[m - 1] = tuple(m - 1) BY <1>1, <2>2
    <3>2. /\ tuple(m - 1) \in Seq(Known) /\ Len(tuple(m - 1)) = m
          /\ tuple(m - 1)[m] = acc[m - 1]
          /\ \A j \in 1..m : tuple(m - 1)[j] = acc[j - 1]
      BY <1>1, <1>5, <3>1
    <3>3. ParseLine(tuple(m - 1)[m], lines[m]) = acc[m] /\ acc[m] \in Known
      BY <1>5, <1>6, <3>1, <3>2
    <3>4. Next1(whole, m) = Append(tuple(m - 1), acc[m]) BY <2>2, <3>1, <3>3
    <3> DEFINE old == tuple(m - 1)
               new == Append(old, acc[m])
    <3> HIDE DEF old
    <3>5. new \in Seq(Known) /\ Len(new) = m + 1 /\ new[m + 1] = acc[m]
          /\ \A j \in 1..m : new[j] = acc[j - 1]
      BY <3>1, <3>2, <3>3 DEF old
    <3> HIDE DEF new
    <3>6. \A j \in 1..m + 1 : new[j] = acc[j - 1]
      <4>1. \A j \in 1..m + 1 : j \in 1..m \/ j = m + 1 BY <3>1
      <4> QED BY <3>1, <3>5, <4>1
    <3>7. new = tuple(m) BY <3>1, <3>5, <3>6
    <3> QED BY <3>4, <3>7 DEF new, old
  <2> QED BY <2>1, <2>2
<1>8. Read(lines) = (CHOOSE f : Rec(f))[n] BY DEF Read, n, start
<1> DEFINE read == CHOOSE f : Rec(f)
<1>9. Rec(read)
  <2> HIDE DEF Rec, whole
  <2> QED BY <1>7
<1>10. DOMAIN read = 0..n /\ \A m \in 0..n : read[m] = Next1(read, m)
  <2> HIDE DEF read
  <2> QED BY <1>9
<1> HIDE DEF read, Rec
<1> DEFINE G == {m \in 0..n : read[m] = whole[m]}
<1>11. 0 \in G
  <2>1. 0 \in 0..n BY <1>1
  <2> QED BY <1>7, <1>10, <2>1 DEF Rec
<1>12. ASSUME NEW m \in 1..n, m - 1 \in G PROVE m \in G
  <2>1. m \in 0..n /\ m # 0 /\ read[m - 1] = whole[m - 1] BY <1>1, <1>12
  <2>2. read[m] = Next1(read, m) /\ whole[m] = Next1(whole, m)
    <3> HIDE DEF Next1, G
    <3>1. \A j \in 0..n : whole[j] = Next1(whole, j)
      <4> HIDE DEF whole
      <4> QED BY <1>7 DEF Rec
    <3> HIDE DEF whole
    <3> QED BY <1>10, <2>1, <3>1
  <2> HIDE DEF whole
  <2> QED BY <2>1, <2>2
<1>13. read[n] = whole[n]
  <2> HIDE DEF G
  <2>1. n \in G BY <1>1, <1>11, <1>12, CountUp
  <2> QED BY <2>1 DEF G
<1>14. Read(lines) = tuple(n) BY <1>1, <1>8, <1>13 DEF read
<1>15. \A j \in 1..n + 1 : Read(lines)[j] = acc[j - 1] /\ acc[j - 1] \in Known BY <1>1, <1>5, <1>14
<1>16. Read(lines) \in [1..n + 1 -> Known] BY <1>14, <1>15
<1>17. Read(lines)[1].section = None /\ Read(lines)[1].levels = <<0>>
  <2>1. Read(lines)[1] = start BY <1>1, <1>6, <1>15
  <2> QED BY <2>1 DEF start
<1>18. \A i \in 1..n : Read(lines)[i + 1] = ParseLine(Read(lines)[i], lines[i])
  <2> SUFFICES ASSUME NEW i \in 1..n PROVE Read(lines)[i + 1] = ParseLine(Read(lines)[i], lines[i])
    OBVIOUS
  <2>1. Read(lines)[i + 1] = acc[i] /\ Read(lines)[i] = acc[i - 1] BY <1>1, <1>15
  <2> QED BY <1>6, <2>1
<1> QED BY <1>16, <1>17, <1>18 DEF Reads, n

-----------------------------------------------------------------------------
(* A Map that is rendered is read as it was.                               *)

Row(n) == Item(2 * n.depth, n.id, n.label, n.checked, n.high)
Block(s, part) == <<Heading(s)>> \o [i \in DOMAIN part |-> Row(part[i])]
Blocks(parts) == [m \in 1..Len(SectionOrder) |-> Block(SectionOrder[m], parts[m])]

LEMMA BlockIs ==
  ASSUME NEW s, NEW part, IsSeq(part)
  PROVE  /\ IsSeq(Block(s, part)) /\ Len(part) \in Nat /\ Len(Block(s, part)) = Len(part) + 1
         /\ Block(s, part)[1] = Heading(s)
         /\ \A i \in 1..Len(part) : Block(s, part)[i + 1] = Row(part[i])
<1> DEFINE rows == [i \in DOMAIN part |-> Row(part[i])]
           head == <<Heading(s)>>
<1>1. Len(part) \in Nat /\ DOMAIN part = 1..Len(part) BY SeqIs
<1>2. IsSeq(rows) /\ Len(rows) = Len(part) BY MapsToSeq
<1>3. \A i \in 1..Len(part) : rows[i] = Row(part[i]) BY <1>1
<1>4. IsSeq(head) /\ Len(head) = 1 /\ head[1] = Heading(s) BY OneIsSeq
<1> HIDE DEF rows, head
<1>5. /\ IsSeq(head \o rows) /\ Len(head \o rows) = 1 + Len(part)
      /\ \A i \in 1..1 : (head \o rows)[i] = head[i]
      /\ \A i \in 1..Len(part) : (head \o rows)[1 + i] = rows[i]
  <2>1. /\ IsSeq(head \o rows) /\ Len(head \o rows) = Len(head) + Len(rows)
        /\ \A i \in 1..Len(head) : (head \o rows)[i] = head[i]
        /\ \A i \in 1..Len(rows) : (head \o rows)[Len(head) + i] = rows[i]
    <3>1. IsSeq(head) /\ IsSeq(rows) BY <1>2, <1>4
    <3> QED BY ONLY <3>1, ConcatIs
  <2> QED BY <1>2, <1>4, <2>1
<1>6. Block(s, part) = head \o rows BY DEF Block, head, rows
<1>7. \A i \in 1..Len(part) : Block(s, part)[i + 1] = Row(part[i])
  <2>1. \A i \in 1..Len(part) : i + 1 = 1 + i BY <1>1
  <2> QED BY <1>3, <1>5, <1>6, <2>1
<1>8. Block(s, part)[1] = Heading(s) BY <1>4, <1>5, <1>6
<1> QED BY <1>1, <1>5, <1>6, <1>7, <1>8

LEMMA RenderIs ==
  ASSUME OrderAssumption, NEW nodes, NEW parts, Sectioned(nodes, parts)
  PROVE  Render(nodes) = FlattenSeq(Blocks(parts))
<1> DEFINE rendered == [m \in DOMAIN SectionOrder |->
             <<Heading(SectionOrder[m])>> \o
               [i \in DOMAIN InSection(nodes, SectionOrder[m]) |->
                  Row(InSection(nodes, SectionOrder[m])[i])]]
<1>1. Render(nodes) = FlattenSeq(rendered) BY DEF Render, Row
<1>2. \A m \in 1..Len(SectionOrder) : InSection(nodes, SectionOrder[m]) = parts[m]
  BY InSectionIs
<1>3. rendered = Blocks(parts) BY <1>2, SectionsAreSeq DEF Blocks, Block
<1> QED BY <1>1, <1>3

\* The blocks are in the file one after the other.
LEMMA BlocksJoin ==
  ASSUME OrderAssumption, NEW nodes, NEW parts, Sectioned(nodes, parts)
  PROVE  \E off : Joins(Blocks(parts), Len(SectionOrder), Render(nodes), off)
<1>1. \A m \in 1..Len(SectionOrder) : IsSeq(Blocks(parts)[m])
  BY BlockIs DEF Blocks, Sectioned, SectionOf
<1>2. Blocks(parts) = [m \in 1..Len(SectionOrder) |-> Blocks(parts)[m]] BY DEF Blocks
<1>3. Len(SectionOrder) \in Nat BY SectionsAreSeq
<1>4. \E off : Joins(Blocks(parts), Len(SectionOrder), FlattenSeq(Blocks(parts)), off)
  BY <1>1, <1>2, <1>3, FlattenIsSeq
<1> QED BY <1>4, RenderIs

\* Where the lines are.
Laid(parts, lines, off) ==
  /\ IsSeq(lines) /\ Len(lines) = off[Len(SectionOrder)]
  /\ \A m \in 1..Len(SectionOrder) :
       /\ off[m - 1] \in Nat /\ off[m] = off[m - 1] + Len(parts[m]) + 1 /\ off[m] <= Len(lines)
       /\ lines[off[m - 1] + 1] = Heading(SectionOrder[m])
       /\ \A i \in 1..Len(parts[m]) : lines[off[m - 1] + i + 1] = Row(parts[m][i])
  /\ \A p \in 1..Len(lines) : \E m \in 1..Len(SectionOrder) :
       p = off[m - 1] + 1 \/ \E i \in 1..Len(parts[m]) : p = off[m - 1] + i + 1

LEMMA LaidOut ==
  ASSUME OrderAssumption, NEW nodes, NEW parts, Sectioned(nodes, parts)
  PROVE  \E off : Laid(parts, Render(nodes), off)
<1> DEFINE n == Len(SectionOrder)
           blocks == Blocks(parts)
           lines == Render(nodes)
<1>1. PICK off : Joins(blocks, n, lines, off) BY BlocksJoin
<1>2. n \in Nat BY SectionsAreSeq
<1>3. \A m \in 1..n : IsSeq(parts[m]) /\ blocks[m] = Block(SectionOrder[m], parts[m])
  BY DEF Blocks, Sectioned, SectionOf
<1>4. \A m \in 1..n : /\ IsSeq(blocks[m]) /\ Len(parts[m]) \in Nat
                      /\ Len(blocks[m]) = Len(parts[m]) + 1
                      /\ blocks[m][1] = Heading(SectionOrder[m])
                      /\ \A i \in 1..Len(parts[m]) : blocks[m][i + 1] = Row(parts[m][i])
  <2> HIDE DEF blocks, n
  <2> QED BY <1>3, BlockIs
<1> HIDE DEF blocks, lines, n
<1>5. \A m \in 1..n :
        /\ off[m - 1] \in Nat /\ off[m] = off[m - 1] + Len(blocks[m]) /\ off[m] <= Len(lines)
        /\ \A i \in 1..Len(blocks[m]) : lines[off[m - 1] + i] = blocks[m][i]
  <2>1. \A m \in 1..n : IsSeq(blocks[m]) BY <1>4
  <2>2. ASSUME NEW m \in 1..n PROVE PartAt(blocks, n, lines, off, m)
    BY <1>1, <1>2, <2>1, JoinedPart
  <2> QED BY <2>2 DEF PartAt
<1>6. ASSUME NEW m \in 1..n
      PROVE  /\ off[m - 1] \in Nat /\ off[m] = off[m - 1] + Len(parts[m]) + 1 /\ off[m] <= Len(lines)
             /\ lines[off[m - 1] + 1] = Heading(SectionOrder[m])
             /\ \A i \in 1..Len(parts[m]) : lines[off[m - 1] + i + 1] = Row(parts[m][i])
  <2> DEFINE c == Len(parts[m])
             a == off[m - 1]
  <2>1. a \in Nat /\ c \in Nat /\ Len(blocks[m]) = c + 1 /\ off[m] <= Len(lines)
    BY <1>4, <1>5
  <2>2. off[m] = a + (c + 1) BY <1>4, <1>5
  <2>3. \A i \in 1..Len(blocks[m]) : lines[a + i] = blocks[m][i] BY <1>5
  <2>4. /\ blocks[m][1] = Heading(SectionOrder[m])
        /\ \A i \in 1..c : blocks[m][i + 1] = Row(parts[m][i])
    BY <1>4
  <2> HIDE DEF c, a
  <2>5. 1 \in 1..Len(blocks[m]) BY <2>1
  <2>6. lines[a + 1] = Heading(SectionOrder[m]) BY <2>3, <2>4, <2>5
  <2>7. ASSUME NEW i \in 1..c PROVE lines[a + i + 1] = Row(parts[m][i])
    <3>1. i + 1 \in 1..Len(blocks[m]) /\ a + i + 1 = a + (i + 1) BY <2>1
    <3>2. lines[a + (i + 1)] = blocks[m][i + 1] BY <2>3, <3>1
    <3> QED BY <2>4, <3>1, <3>2
  <2>8. a + (c + 1) = a + c + 1 BY <2>1
  <2> QED BY <2>1, <2>2, <2>6, <2>7, <2>8 DEF a, c
<1>7. IsSeq(lines) /\ Len(lines) = off[n] BY <1>1 DEF Joins
<1>8. ASSUME NEW p \in 1..Len(lines)
      PROVE  \E m \in 1..n : p = off[m - 1] + 1 \/ \E i \in 1..Len(parts[m]) : p = off[m - 1] + i + 1
  <2>1. PICK m \in 1..n : p - off[m - 1] \in 1..Len(blocks[m])
    BY <1>1, <1>7 DEF Joins, Covered
  <2>2. off[m - 1] \in Nat /\ Len(blocks[m]) = Len(parts[m]) + 1 /\ Len(parts[m]) \in Nat
    BY <1>4, <1>5
  <2>3. CASE p - off[m - 1] = 1
    <3>1. p = off[m - 1] + 1 BY <2>2, <2>3
    <3> QED BY <3>1
  <2>4. CASE p - off[m - 1] # 1
    <3> DEFINE i == p - off[m - 1] - 1
    <3>1. p - off[m - 1] \in 1..Len(parts[m]) + 1 BY <2>1, <2>2
    <3>2. i \in 1..Len(parts[m]) BY <2>2, <2>4, <3>1
    <3>3. p = off[m - 1] + i + 1 BY <2>2
    <3> HIDE DEF i
    <3> QED BY <3>2, <3>3
  <2> QED BY <2>3, <2>4
<1>9. Laid(parts, lines, off) BY <1>6, <1>7, <1>8 DEF Laid, n
<1> QED BY <1>9 DEF lines

LEMMA RenderIsDoc ==
  ASSUME OrderAssumption, NEW nodes, NEW parts, Sectioned(nodes, parts),
         NEW lines, NEW off, Laid(parts, lines, off)
  PROVE  IsDoc(lines)
<1>1. ASSUME NEW p \in 1..Len(lines) PROVE IsLine(lines[p])
  <2>1. PICK m \in 1..Len(SectionOrder) :
          p = off[m - 1] + 1 \/ \E i \in 1..Len(parts[m]) : p = off[m - 1] + i + 1
    BY DEF Laid
  <2>2. CASE p = off[m - 1] + 1
    <3>1. lines[p] = Heading(SectionOrder[m]) BY <2>2 DEF Laid
    <3>2. SectionOrder[m] \in Range(SectionOrder) BY SectionsAreSeq DEF Range
    <3> QED BY <3>1, <3>2 DEF IsLine
  <2>3. CASE \E i \in 1..Len(parts[m]) : p = off[m - 1] + i + 1
    <3>1. PICK i \in 1..Len(parts[m]) : p = off[m - 1] + i + 1 BY <2>3
    <3>2. lines[p] = Row(parts[m][i]) BY <3>1 DEF Laid
    <3>3. parts[m][i].depth \in Nat BY DEF Sectioned, SectionOf
    <3>4. 2 * parts[m][i].depth \in Nat BY <3>3
    <3>5. IsItem(Row(parts[m][i])) BY <3>4 DEF IsItem, Row, Item
    <3> QED BY <3>2, <3>5 DEF IsLine
  <2> QED BY <2>1, <2>2, <2>3
<1> QED BY <1>1 DEF IsDoc, Laid

\* After the heading of a section and i of its items, the levels of the last
\* are open.
Level(part, i) == IF i = 0 THEN 0 ELSE part[i].depth

LEMMA ReadOfBlock ==
  ASSUME OrderAssumption, NEW nodes, NEW parts, Sectioned(nodes, parts),
         NEW lines, NEW off, Laid(parts, lines, off),
         NEW read, Reads(lines, read), NEW m \in 1..Len(SectionOrder)
  PROVE  \A i \in 0..Len(parts[m]) :
           /\ read[off[m - 1] + i + 2].section = SectionOrder[m]
           /\ read[off[m - 1] + i + 2].levels = UpTo(Level(parts[m], i))
<1> DEFINE part == parts[m]
           n    == Len(part)
           a    == off[m - 1]
           s    == SectionOrder[m]
           Good(i) == read[a + i + 2].section = s /\ read[a + i + 2].levels = UpTo(Level(part, i))
           G    == {i \in 0..n : Good(i)}
<1>1. /\ a \in Nat /\ a + n + 1 <= Len(lines) /\ n \in Nat /\ Len(lines) \in Nat
      /\ lines[a + 1] = Heading(s) /\ \A i \in 1..n : lines[a + i + 1] = Row(part[i])
  BY SeqIs DEF Laid, Sectioned, SectionOf
<1>2. s # None BY SectionsAreSeq DEF OrderAssumption, Range
<1>3. \A i \in 1..Len(lines) : read[i] \in Known /\ read[i + 1] = ParseLine(read[i], lines[i])
  <2>1. \A i \in 1..Len(lines) : i \in 1..Len(lines) + 1 BY <1>1
  <2> QED BY <2>1 DEF Reads
<1>4. \A i \in 1..n : /\ part[i].depth \in Nat
                      /\ part[i].depth <= (IF i = 1 THEN 1 ELSE part[i - 1].depth + 1)
  BY DEF Sectioned, SectionOf
<1> HIDE DEF part, n, a, s
<1>5. UpTo(0) = <<0>>
  <2>1. UpTo(0) = [i \in 1..1 |-> 0] BY DEF UpTo
  <2> QED BY <2>1
<1>6. Good(0)
  <2>1. read[a + 1 + 1] = ParseLine(read[a + 1], Heading(s)) BY <1>1, <1>3
  <2>2. a + 1 + 1 = a + 0 + 2 BY <1>1
  <2>3. ParseLine(read[a + 1], Heading(s)) = [section |-> s, levels |-> <<0>>]
    BY <1>2, LinesAre DEF ParseLine
  <2> QED BY <1>5, <2>1, <2>2, <2>3 DEF Level
<1>7. ASSUME NEW i \in 1..n, i - 1 \in G PROVE i \in G
  <2> DEFINE acc == read[a + i + 1]
             d   == Level(part, i - 1)
             e   == part[i].depth
  <2>1. a + (i - 1) + 2 = a + i + 1 /\ a + i + 1 + 1 = a + i + 2 /\ a + i + 1 \in 1..Len(lines)
    BY <1>1
  <2>2. acc.section = s /\ acc.levels = UpTo(d) BY <1>7, <2>1
  <2>3. acc \in Known /\ read[a + i + 2] = ParseLine(acc, Row(part[i])) BY <1>1, <1>3, <2>1
  <2>4. d \in Nat /\ e \in Nat /\ e <= d + 1
    <3>1. CASE i = 1 BY <1>4, <3>1 DEF Level
    <3>2. CASE i # 1
      <4>1. i - 1 \in 1..n BY <1>1, <3>2
      <4>2. d = part[i - 1].depth BY <3>2 DEF Level
      <4> QED BY <1>4, <3>2, <4>1, <4>2
    <3> QED BY <3>1, <3>2
  <2> HIDE DEF d, e
  <2>5. Open(UpTo(d), 2 * e) = UpTo(e) BY <2>4, OpenUpTo
  <2>6. ~IsHeading(Row(part[i])) /\ Row(part[i]).indent = 2 * e BY DEF Row, Item, IsHeading, e
  <2>7. ParseLine(acc, Row(part[i])) = [acc EXCEPT !.levels = UpTo(e)]
    BY <1>2, <2>2, <2>5, <2>6 DEF ParseLine
  <2>8. Level(part, i) = e BY <1>1 DEF Level, e
  <2>9. Good(i)
    <3> HIDE DEF acc
    <3> QED BY <2>2, <2>3, <2>7, <2>8 DEF Known
  <2> QED BY <1>1, <2>9
<1>8. \A i \in 0..n : Good(i)
  <2>1. 0 \in G BY <1>1, <1>6
  <2> HIDE DEF G
  <2>2. \A i \in 0..n : i \in G BY <1>1, <1>7, <2>1, CountUp
  <2> QED BY <2>2 DEF G
<1> QED BY <1>8 DEF part, n, a, s

\* Parts of the same lengths are at the same places.
Paired(n, ps, s, off, qs, t) ==
  /\ Len(t) = Len(s)
  /\ \A p \in 1..Len(s) : \E m \in 1..n : \E i \in 1..Len(ps[m]) :
       p = off[m - 1] + i /\ s[p] = ps[m][i] /\ t[p] = qs[m][i]

LEMMA SamePlaces ==
  ASSUME NEW n \in Nat, NEW ps, NEW s, NEW off, Joins(ps, n, s, off),
         NEW qs, NEW t, NEW pos, Joins(qs, n, t, pos),
         \A m \in 1..n : IsSeq(ps[m]) /\ IsSeq(qs[m]) /\ Len(qs[m]) = Len(ps[m])
  PROVE  Paired(n, ps, s, off, qs, t)
<1> DEFINE G == {m \in 0..n : off[m] = pos[m]}
<1>1. \A m \in 1..n : Len(ps[m]) \in Nat /\ Len(qs[m]) = Len(ps[m]) BY SeqIs
<1>2. /\ Offsets(ps, n, off) /\ Holds(ps, n, s, off) /\ Covered(ps, n, off) /\ Len(s) = off[n]
      /\ Offsets(qs, n, pos) /\ Holds(qs, n, t, pos) /\ Len(t) = pos[n]
  BY DEF Joins
<1>3. 0 \in G BY <1>2 DEF Offsets
<1>4. ASSUME NEW m \in 1..n, m - 1 \in G PROVE m \in G
  <2>1. off[m] = off[m - 1] + Len(ps[m]) /\ pos[m] = pos[m - 1] + Len(qs[m])
    BY <1>2 DEF Offsets
  <2> QED BY <1>1, <1>4, <2>1
<1>5. \A m \in 0..n : off[m] = pos[m]
  <2> HIDE DEF G
  <2>1. \A m \in 0..n : m \in G BY <1>3, <1>4, CountUp
  <2> QED BY <2>1 DEF G
<1>6. ASSUME NEW p \in 1..Len(s)
      PROVE  \E m \in 1..n : \E i \in 1..Len(ps[m]) :
               p = off[m - 1] + i /\ s[p] = ps[m][i] /\ t[p] = qs[m][i]
  <2>1. PICK m \in 1..n : p - off[m - 1] \in 1..Len(ps[m]) BY <1>2 DEF Covered
  <2> DEFINE i == p - off[m - 1]
  <2>2. off[m - 1] \in Nat /\ off[m - 1] = pos[m - 1]
    <3>1. m - 1 \in 0..n OBVIOUS
    <3> QED BY <1>2, <1>5, <3>1 DEF Offsets
  <2>3. off[m - 1] + i = p BY <1>1, <2>2
  <2>4. i \in 1..Len(ps[m]) /\ i \in 1..Len(qs[m]) BY <1>1, <2>1
  <2> HIDE DEF i
  <2>5. s[off[m - 1] + i] = ps[m][i] /\ t[pos[m - 1] + i] = qs[m][i] BY <1>2, <2>4 DEF Holds
  <2>6. p = off[m - 1] + i /\ s[p] = ps[m][i] /\ t[p] = qs[m][i] BY <2>2, <2>3, <2>5
  <2> QED BY <2>4, <2>6
<1>7. Len(t) = Len(s)
  <2>1. n \in 0..n OBVIOUS
  <2> QED BY <1>2, <1>5, <2>1
<1> QED BY <1>6, <1>7 DEF Paired

Replaced(part, i, p) == [part[i] EXCEPT !.at = p]

\* The parts that are read: those that were rendered, at their lines.
Reread(parts, lines, news) ==
  /\ Parse(lines) = FlattenSeq(news)
  /\ news = [m \in 1..Len(SectionOrder) |-> news[m]]
  /\ \A m \in 1..Len(SectionOrder) :
       /\ IsSeq(news[m]) /\ Len(news[m]) = Len(parts[m])
       /\ \A i \in 1..Len(parts[m]) : \E p : news[m][i] = Replaced(parts[m], i, p)

LEMMA ParseOfRendered ==
  ASSUME OrderAssumption, NEW nodes, NEW parts, Sectioned(nodes, parts),
         NEW lines, NEW off, Laid(parts, lines, off)
  PROVE  \E news : Reread(parts, lines, news)
<1> DEFINE n == Len(SectionOrder)
           read == Read(lines)
           items == {p \in DOMAIN lines : ~IsHeading(lines[p])}
           node == [p \in items |-> NodeOf(lines[p], read[p].section, Len(read[p + 1].levels) - 1, p)]
           I(m) == {p \in items : read[p].section = SectionOrder[m]}
           news == [m \in DOMAIN SectionOrder |-> Picked(node, I(m))]
<1>1. Parse(lines) = FlattenSeq(news) BY DEF Parse
<1>2. IsDoc(lines) BY RenderIsDoc
<1>3. Reads(lines, read) BY <1>2, ReadIs
<1>4. DOMAIN lines = 1..Len(lines) /\ Len(lines) \in Nat BY <1>2, SeqIs DEF IsDoc
<1>5. n \in Nat /\ DOMAIN SectionOrder = 1..n BY SectionsAreSeq
<1> HIDE DEF read, n
<1>6. \A m \in 1..n : \A i \in 0..Len(parts[m]) :
        /\ read[off[m - 1] + i + 2].section = SectionOrder[m]
        /\ read[off[m - 1] + i + 2].levels = UpTo(Level(parts[m], i))
  BY <1>3, ReadOfBlock DEF n
<1>7. \A m \in 1..n :
        /\ off[m - 1] \in Nat /\ off[m - 1] + Len(parts[m]) + 1 <= Len(lines)
        /\ Len(parts[m]) \in Nat
        /\ lines[off[m - 1] + 1] = Heading(SectionOrder[m])
        /\ \A i \in 1..Len(parts[m]) : lines[off[m - 1] + i + 1] = Row(parts[m][i])
  BY SeqIs DEF Laid, Sectioned, SectionOf, n
<1>8. ASSUME NEW m \in 1..n, NEW i \in 1..Len(parts[m])
      PROVE  /\ off[m - 1] + i + 1 \in items
             /\ read[off[m - 1] + i + 1].section = SectionOrder[m]
             /\ Len(read[off[m - 1] + i + 2].levels) = parts[m][i].depth + 1
  <2>1. lines[off[m - 1] + i + 1] = Row(parts[m][i]) BY <1>7
  <2>2. ~IsHeading(lines[off[m - 1] + i + 1]) BY <2>1 DEF IsHeading, Row, Item
  <2>3. off[m - 1] + i + 1 \in 1..Len(lines) BY <1>4, <1>7
  <2>4. i - 1 \in 0..Len(parts[m]) /\ off[m - 1] + (i - 1) + 2 = off[m - 1] + i + 1 BY <1>7
  <2>5. read[off[m - 1] + i + 1].section = SectionOrder[m] BY <1>6, <2>4
  <2>6. i \in 0..Len(parts[m]) /\ i # 0 BY <1>7
  <2>7. read[off[m - 1] + i + 2].levels = UpTo(parts[m][i].depth) BY <1>6, <2>6 DEF Level
  <2>8. parts[m][i].depth \in Nat BY DEF Sectioned, SectionOf, n
  <2>9. Len(UpTo(parts[m][i].depth)) = parts[m][i].depth + 1 BY <2>8 DEF UpTo
  <2> QED BY <1>4, <2>2, <2>3, <2>5, <2>7, <2>9
<1>9. ASSUME NEW p \in items
      PROVE  \E m \in 1..n : \E i \in 1..Len(parts[m]) : p = off[m - 1] + i + 1
  <2>1. PICK m \in 1..n : p = off[m - 1] + 1 \/ \E i \in 1..Len(parts[m]) : p = off[m - 1] + i + 1
    BY <1>4 DEF Laid, n
  <2>2. p # off[m - 1] + 1 BY <1>7, LinesAre
  <2> QED BY <2>1, <2>2
<1> HIDE DEF items
<1>10. ASSUME NEW m \in 1..n
       PROVE  I(m) = off[m - 1] + 1 + 1..off[m - 1] + 1 + Len(parts[m])
  <2>1. ASSUME NEW p \in I(m) PROVE p \in off[m - 1] + 1 + 1..off[m - 1] + 1 + Len(parts[m])
    <3>1. PICK q \in 1..n : \E i \in 1..Len(parts[q]) : p = off[q - 1] + i + 1 BY <1>9
    <3>2. PICK i \in 1..Len(parts[q]) : p = off[q - 1] + i + 1 BY <3>1
    <3>3. SectionOrder[q] = SectionOrder[m] BY <1>8, <3>2
    <3>4. q = m BY <3>3, SectionsDiffer DEF n
    <3>5. p = off[m - 1] + i + 1 /\ i \in 1..Len(parts[m]) BY <3>2, <3>4
    <3>6. off[m - 1] \in Nat /\ Len(parts[m]) \in Nat BY <1>7
    <3>7. \A a, b \in Nat : \A j \in 1..b : a + j + 1 \in a + 1 + 1..a + 1 + b OBVIOUS
    <3> QED BY ONLY <3>5, <3>6, <3>7
  <2>2. ASSUME NEW p \in off[m - 1] + 1 + 1..off[m - 1] + 1 + Len(parts[m]) PROVE p \in I(m)
    <3> DEFINE i == p - off[m - 1] - 1
    <3>1. off[m - 1] \in Nat /\ Len(parts[m]) \in Nat BY <1>7
    <3>2. p \in Int /\ off[m - 1] + 1 + 1 <= p /\ p <= off[m - 1] + 1 + Len(parts[m])
      BY <3>1
    <3>3. i \in Int /\ 1 <= i /\ i <= Len(parts[m]) /\ p = off[m - 1] + i + 1 BY <3>1, <3>2
    <3> HIDE DEF i
    <3>4. i \in 1..Len(parts[m]) BY <3>1, <3>3
    <3>5. p \in items /\ read[p].section = SectionOrder[m] BY <1>8, <3>3, <3>4
    <3> QED BY <3>5
  <2> HIDE DEF I
  <2> QED BY <2>1, <2>2
<1> HIDE DEF I
<1>11. ASSUME NEW m \in 1..n
       PROVE  /\ IsSeq(news[m]) /\ Len(news[m]) = Len(parts[m])
              /\ \A i \in 1..Len(parts[m]) : news[m][i] = node[off[m - 1] + i + 1]
  <2> DEFINE a == off[m - 1] + 1
  <2>1. a \in Nat /\ Len(parts[m]) \in Nat BY <1>7
  <2>2. news[m] = Picked(node, I(m)) BY <1>5
  <2>3. I(m) = a + 1..a + Len(parts[m]) BY <1>10
  <2>4. \A i \in 1..Len(parts[m]) : a + i = off[m - 1] + i + 1 BY <1>7
  <2> HIDE DEF node, a, news
  <2>5. Picked(node, a + 1..a + Len(parts[m])) = Stretch(node, a, Len(parts[m]))
    BY <2>1, PickedRange
  <2>6. news[m] = Stretch(node, a, Len(parts[m])) BY <2>2, <2>3, <2>5
  <2>7. news[m] = [i \in 1..Len(parts[m]) |-> news[m][i]] BY <2>6 DEF Stretch
  <2>8. IsSeq(news[m]) /\ Len(news[m]) = Len(parts[m]) BY <2>1, <2>7, FunctionIsSeq
  <2>9. \A i \in 1..Len(parts[m]) : news[m][i] = node[off[m - 1] + i + 1]
    BY <2>4, <2>6 DEF Stretch
  <2> QED BY <2>8, <2>9
<1>12. ASSUME NEW m \in 1..n, NEW i \in 1..Len(parts[m])
       PROVE  \E p : news[m][i] = Replaced(parts[m], i, p)
  <2> DEFINE p == off[m - 1] + i + 1
  <2>1. p \in items /\ news[m][i] = node[p] BY <1>8, <1>11
  <2>2. lines[p] = Row(parts[m][i]) /\ read[p].section = SectionOrder[m]
        /\ p + 1 = off[m - 1] + i + 2
    BY <1>7, <1>8
  <2>3. Len(read[p + 1].levels) - 1 = parts[m][i].depth
    <3>1. parts[m][i].depth \in Nat BY DEF Sectioned, SectionOf, n
    <3>2. Len(read[off[m - 1] + i + 2].levels) = parts[m][i].depth + 1 BY <1>8
    <3>3. read[p + 1] = read[off[m - 1] + i + 2] BY <2>2
    <3>4. Len(read[p + 1].levels) = parts[m][i].depth + 1 BY <3>2, <3>3
    <3> DEFINE d == parts[m][i].depth
               l == Len(read[p + 1].levels)
    <3> HIDE DEF p, d, l
    <3>5. l = d + 1 /\ d \in Nat BY <3>1, <3>4 DEF d, l
    <3>6. l - 1 = d BY <3>5
    <3> QED BY <3>6 DEF d, l
  <2>4. node[p] = NodeOf(Row(parts[m][i]), SectionOrder[m], parts[m][i].depth, p)
    BY <2>1, <2>2, <2>3
  <2>5. IsNode(parts[m][i]) /\ parts[m][i].section = SectionOrder[m]
    BY DEF Sectioned, SectionOf, n
  <2> HIDE DEF p, node, news
  <2>6. NodeOf(Row(parts[m][i]), SectionOrder[m], parts[m][i].depth, p) = Replaced(parts[m], i, p)
    BY <2>5 DEF NodeOf, Row, Item, Replaced, IsNode
  <2> QED BY <2>1, <2>4, <2>6
<1>13. news = [m \in 1..n |-> news[m]] BY <1>5
<1> HIDE DEF news
<1>14. Reread(parts, lines, news) BY <1>1, <1>11, <1>12, <1>13 DEF Reread, n
<1> QED BY <1>14

\* A save that changes nothing leaves the Map as it is.
LEMMA RoundTrip ==
  ASSUME OrderAssumption, NEW nodes, IsMap(nodes)
  PROVE  MapNodes(Render(nodes)) = nodes /\ IsDoc(Render(nodes))
<1> DEFINE n == Len(SectionOrder)
           lines == Render(nodes)
           read == Parse(lines)
<1>1. PICK parts : Sectioned(nodes, parts) BY DEF IsMap
<1>2. PICK off : Laid(parts, lines, off) BY <1>1, LaidOut
<1>3. IsDoc(lines) BY <1>1, <1>2, RenderIsDoc
<1>3a. PICK news : Reread(parts, lines, news)
  <2> HIDE DEF lines
  <2> QED BY <1>1, <1>2, ParseOfRendered
<1>4. /\ Parse(lines) = FlattenSeq(news)
      /\ news = [m \in 1..n |-> news[m]]
      /\ \A m \in 1..n :
           /\ IsSeq(news[m]) /\ Len(news[m]) = Len(parts[m])
           /\ \A i \in 1..Len(parts[m]) : \E p : news[m][i] = Replaced(parts[m], i, p)
  BY <1>3a DEF Reread
<1> HIDE DEF lines, n
<1>5. n \in Nat BY SectionsAreSeq DEF n
<1>6. /\ parts = [m \in 1..n |-> parts[m]] /\ nodes = FlattenSeq(parts)
      /\ \A m \in 1..n : IsSeq(parts[m])
  BY <1>1 DEF Sectioned, SectionOf, n
<1>7. PICK o1 : Joins(parts, n, nodes, o1) BY <1>5, <1>6, FlattenIsSeq
<1>8. PICK o2 : Joins(news, n, read, o2) BY <1>4, <1>5, FlattenIsSeq
<1> HIDE DEF read
<1>9. /\ Len(read) = Len(nodes)
      /\ \A p \in 1..Len(nodes) : \E m \in 1..n : \E i \in 1..Len(parts[m]) :
           p = o1[m - 1] + i /\ nodes[p] = parts[m][i] /\ read[p] = news[m][i]
  <2>1. \A m \in 1..n : IsSeq(parts[m]) /\ IsSeq(news[m]) /\ Len(news[m]) = Len(parts[m])
    BY <1>4, <1>6
  <2>2. Paired(n, parts, nodes, o1, news, read) BY ONLY <1>5, <1>7, <1>8, <2>1, SamePlaces
  <2> QED BY <2>2 DEF Paired
<1>10. ASSUME NEW p \in 1..Len(nodes) PROVE [read[p] EXCEPT !.at = 0] = nodes[p]
  <2>1. PICK m \in 1..n : \E i \in 1..Len(parts[m]) : nodes[p] = parts[m][i] /\ read[p] = news[m][i]
    BY <1>9
  <2>2. PICK i \in 1..Len(parts[m]) : nodes[p] = parts[m][i] /\ read[p] = news[m][i] BY <2>1
  <2>3. PICK x : read[p] = Replaced(parts[m], i, x) BY <1>4, <2>2
  <2>4. IsNode(nodes[p]) /\ nodes[p].at = 0 BY <1>1, <2>2 DEF Sectioned, SectionOf, n
  <2>5. read[p] = [nodes[p] EXCEPT !.at = x] BY <2>2, <2>3 DEF Replaced
  <2> QED BY <2>4, <2>5 DEF IsNode
<1>11. IsSeq(read) /\ IsSeq(nodes) BY <1>7, <1>8 DEF Joins
<1>12. DOMAIN read = 1..Len(nodes) /\ nodes = [p \in 1..Len(nodes) |-> nodes[p]]
  BY <1>9, <1>11, SeqIs
<1>13. MapNodes(lines) = [p \in DOMAIN read |-> [read[p] EXCEPT !.at = 0]] BY DEF MapNodes, read
<1>14. MapNodes(lines) = nodes BY <1>10, <1>12, <1>13
<1> QED BY <1>3, <1>14 DEF lines

-----------------------------------------------------------------------------
(* The nodes of any file are a Map, and so are those a migration makes.    *)

\* What is in the places of the parts.
Regroups(parts, n, new, news) ==
  /\ news = [m \in 1..n |-> news[m]] /\ new = FlattenSeq(news)
  /\ \A m \in 1..n :
       /\ IsSeq(news[m]) /\ Len(news[m]) = Len(parts[m])
       /\ \A i \in 1..Len(parts[m]) : \E p \in 1..Len(new) :
            news[m][i] = new[p] /\ parts[m][i] = FlattenSeq(parts)[p]

LEMMA Regrouped ==
  ASSUME NEW n \in Nat, NEW parts, parts = [m \in 1..n |-> parts[m]],
         \A m \in 1..n : IsSeq(parts[m]),
         NEW new, IsSeq(new), Len(new) = Len(FlattenSeq(parts))
  PROVE  \E news : Regroups(parts, n, new, news)
<1> DEFINE s == FlattenSeq(parts)
<1>1. PICK off : Joins(parts, n, s, off) BY FlattenIsSeq
<1> HIDE DEF s
<1> DEFINE news == [m \in 1..n |-> Stretch(new, off[m - 1], Len(parts[m]))]
           t == FlattenSeq(news)
<1>2. ASSUME NEW m \in 1..n
      PROVE  /\ off[m - 1] \in Nat /\ off[m] = off[m - 1] + Len(parts[m]) /\ off[m] <= Len(s)
             /\ Len(parts[m]) \in Nat
             /\ \A i \in 1..Len(parts[m]) : s[off[m - 1] + i] = parts[m][i]
  <2>1. PartAt(parts, n, s, off, m) BY <1>1, JoinedPart
  <2> QED BY <2>1 DEF PartAt
<1>3. ASSUME NEW m \in 1..n
      PROVE  /\ IsSeq(news[m]) /\ Len(news[m]) = Len(parts[m])
             /\ \A i \in 1..Len(parts[m]) : news[m][i] = new[off[m - 1] + i]
  <2>1. news[m] = Stretch(new, off[m - 1], Len(parts[m])) OBVIOUS
  <2>2. Len(parts[m]) \in Nat BY <1>2
  <2> HIDE DEF news
  <2>3. news[m] = [i \in 1..Len(parts[m]) |-> news[m][i]] BY <2>1 DEF Stretch
  <2>4. IsSeq(news[m]) /\ Len(news[m]) = Len(parts[m]) BY <2>2, <2>3, FunctionIsSeq
  <2>5. \A i \in 1..Len(parts[m]) : news[m][i] = new[off[m - 1] + i] BY <2>1 DEF Stretch
  <2> QED BY <2>4, <2>5
<1>4. news = [m \in 1..n |-> news[m]] OBVIOUS
<1> HIDE DEF news
<1>5. PICK pos : Joins(news, n, t, pos) BY <1>3, <1>4, FlattenIsSeq
<1> HIDE DEF t
<1>6. /\ Len(t) = Len(s)
      /\ \A p \in 1..Len(s) : \E m \in 1..n : \E i \in 1..Len(parts[m]) :
           p = off[m - 1] + i /\ s[p] = parts[m][i] /\ t[p] = news[m][i]
  <2>1. \A m \in 1..n : IsSeq(parts[m]) /\ IsSeq(news[m]) /\ Len(news[m]) = Len(parts[m])
    BY <1>3
  <2>2. Paired(n, parts, s, off, news, t) BY ONLY n \in Nat, <1>1, <1>5, <2>1, SamePlaces
  <2> QED BY <2>2 DEF Paired
<1>7. \A p \in 1..Len(s) : t[p] = new[p] BY <1>3, <1>6
<1>8. t = new
  <2>1. IsSeq(t) BY <1>5 DEF Joins
  <2>2. t = [p \in 1..Len(s) |-> t[p]] /\ new = [p \in 1..Len(s) |-> new[p]]
    BY <1>6, <2>1, SeqIs DEF s
  <2> QED BY <1>7, <2>2
<1>9. ASSUME NEW m \in 1..n, NEW i \in 1..Len(parts[m])
      PROVE  \E p \in 1..Len(new) : news[m][i] = new[p] /\ parts[m][i] = s[p]
  <2> DEFINE p == off[m - 1] + i
  <2>1. news[m][i] = new[p] /\ parts[m][i] = s[p] BY <1>2, <1>3
  <2>2. p \in 1..Len(s)
    <3>1. Len(s) \in Nat BY <1>1, SeqIs DEF Joins
    <3>2. off[m - 1] \in Nat /\ Len(parts[m]) \in Nat /\ off[m - 1] + Len(parts[m]) <= Len(s)
      BY <1>2
    <3>3. \A a, b, c \in Nat : \A j \in 1..b : a + b <= c => a + j \in 1..c OBVIOUS
    <3> QED BY ONLY <3>1, <3>2, <3>3, i \in 1..Len(parts[m])
  <2> HIDE DEF p
  <2> QED BY <2>1, <2>2 DEF s
<1>10. Regroups(parts, n, new, news) BY <1>3, <1>4, <1>8, <1>9 DEF Regroups, s, t
<1> QED BY <1>10

\* SectionOf, but for the places of the lines.
Nested(part, s) ==
  /\ IsSeq(part)
  /\ \A i \in 1..Len(part) :
       /\ part[i].section = s /\ part[i].depth \in Nat
       /\ part[i].depth <= (IF i = 1 THEN 1 ELSE part[i - 1].depth + 1)

NestedParts(parts) ==
  /\ parts = [m \in 1..Len(SectionOrder) |-> parts[m]] /\ Len(SectionOrder) \in Nat
  /\ \A m \in 1..Len(SectionOrder) : Nested(parts[m], SectionOrder[m])

\* What keeps the sections and the depths of a Map, is one.
Alike(nodes, new) ==
  /\ IsSeq(new) /\ Len(new) = Len(nodes)
  /\ \A p \in 1..Len(new) : /\ IsNode(new[p]) /\ new[p].at = 0
                             /\ new[p].section = nodes[p].section
                             /\ new[p].depth = nodes[p].depth

LEMMA StaysMap ==
  ASSUME NEW parts, NestedParts(parts), NEW new, Alike(FlattenSeq(parts), new)
  PROVE  \E news : Sectioned(new, news) /\ Regroups(parts, Len(SectionOrder), new, news)
<1> DEFINE n == Len(SectionOrder)
           s == FlattenSeq(parts)
<1>0. /\ parts = [m \in 1..n |-> parts[m]] /\ n \in Nat
      /\ \A m \in 1..n : Nested(parts[m], SectionOrder[m])
      /\ IsSeq(new) /\ Len(new) = Len(s)
      /\ \A p \in 1..Len(new) : /\ IsNode(new[p]) /\ new[p].at = 0
                                 /\ new[p].section = s[p].section /\ new[p].depth = s[p].depth
  BY DEF NestedParts, Alike
<1>1. PICK news : Regroups(parts, n, new, news)
  <2>1. \A m \in 1..n : IsSeq(parts[m]) BY <1>0 DEF Nested
  <2> HIDE DEF n
  <2> QED BY <1>0, <2>1, Regrouped
<1> HIDE DEF n
<1>2. ASSUME NEW m \in 1..n, NEW i \in 1..Len(parts[m])
      PROVE  /\ IsNode(news[m][i]) /\ news[m][i].at = 0
             /\ news[m][i].section = parts[m][i].section /\ news[m][i].depth = parts[m][i].depth
  <2>1. PICK p \in 1..Len(new) : news[m][i] = new[p] /\ parts[m][i] = FlattenSeq(parts)[p]
    BY <1>1 DEF Regroups
  <2> QED BY <1>0, <2>1
<1>3. ASSUME NEW m \in 1..n PROVE SectionOf(news[m], SectionOrder[m])
  <2>1. IsSeq(news[m]) /\ Len(news[m]) = Len(parts[m]) BY <1>1 DEF Regroups
  <2>2. Nested(parts[m], SectionOrder[m]) BY <1>0
  <2>3. Len(parts[m]) \in Nat BY <2>2, SeqIs DEF Nested
  <2>4. ASSUME NEW i \in 1..Len(parts[m])
        PROVE  news[m][i].depth <= (IF i = 1 THEN 1 ELSE news[m][i - 1].depth + 1)
    <3>1. CASE i = 1 BY <1>2, <2>2, <3>1 DEF Nested
    <3>2. CASE i # 1
      <4>1. i - 1 \in 1..Len(parts[m]) BY <2>3, <3>2
      <4> QED BY <1>2, <2>2, <3>2, <4>1 DEF Nested
    <3> QED BY <3>1, <3>2
  <2>5. \A i \in 1..Len(parts[m]) :
          /\ IsNode(news[m][i]) /\ news[m][i].at = 0
          /\ news[m][i].section = SectionOrder[m] /\ news[m][i].depth \in Nat
    BY <1>2, <2>2 DEF Nested
  <2> QED BY <2>1, <2>4, <2>5 DEF SectionOf
<1>4. Sectioned(new, news) BY <1>1, <1>3 DEF Sectioned, Regroups, n
<1> QED BY <1>1, <1>4 DEF n

LEMMA SectionIsNested ==
  ASSUME NEW part, NEW s, SectionOf(part, s) PROVE Nested(part, s)
BY DEF SectionOf, Nested

\* Between two places next to each other there is none, nor before the first.
LEMMA NextPlace ==
  ASSUME NEW I, Indices(I), NEW e, Places(I, e), NEW r \in 1..Cardinality(I),
         NEW p \in I, p = e[r] - 1
  PROVE  r # 1 /\ e[r - 1] = p
<1> DEFINE n == Cardinality(I)
<1>1. IsFiniteSet(I) /\ n \in Nat /\ \A q \in 1..n : e[q] \in Int
  BY FS_CardinalityType DEF Indices, Places
<1>2. PICK q \in 1..n : e[q] = p BY DEF Places
<1>3. q < r
  <2>1. r < q => e[r] < e[q] BY <1>2 DEF Places
  <2>2. q # r BY <1>1, <1>2
  <2> QED BY <1>1, <1>2, <2>1, <2>2
<1>4. r # 1 /\ r - 1 \in 1..n BY <1>1, <1>3
<1>5. CASE q = r - 1 BY <1>2, <1>4, <1>5
<1>6. CASE q # r - 1
  <2>1. q < r - 1 /\ r - 1 < r BY <1>3, <1>6
  <2>2. e[q] < e[r - 1] /\ e[r - 1] < e[r] BY <1>4, <2>1 DEF Places
  <2> QED BY <1>1, <1>2, <1>4, <2>2
<1> QED BY <1>5, <1>6

\* An item is at most one level below the item that is read before it.
LEMMA StepDepth ==
  ASSUME OrderAssumption, NEW lines, IsDoc(lines), NEW read, Reads(lines, read),
         NEW s \in Range(SectionOrder), NEW p \in 1..Len(lines),
         ~IsHeading(lines[p]), read[p].section = s
  PROVE  /\ Len(read[p + 1].levels) \in Nat \ {0}
         /\ Len(read[p + 1].levels) <= Len(read[p].levels) + 1
         /\ \/ Len(read[p].levels) = 1
            \/ p - 1 \in 1..Len(lines) /\ ~IsHeading(lines[p - 1]) /\ read[p - 1].section = s
<1>1. Len(lines) \in Nat BY SeqIs DEF IsDoc
<1>2. s # None BY DEF OrderAssumption
<1>3. p \in 1..Len(lines) + 1 /\ read[p] \in Known /\ read[p].levels \in Levels BY <1>1 DEF Reads, Known
<1>4. IsItem(lines[p]) /\ lines[p].indent \in Nat BY LinesAre DEF IsDoc, IsLine
<1>5. read[p + 1].levels = Open(read[p].levels, lines[p].indent)
  <2>1. read[p + 1] = ParseLine(read[p], lines[p]) BY DEF Reads
  <2> QED BY <1>2, <1>3, <2>1 DEF ParseLine, Known
<1>6. read[p + 1].levels \in Levels /\ Len(read[p + 1].levels) <= Len(read[p].levels) + 1
  BY <1>3, <1>4, <1>5, OpenIs
<1>7. Len(read[p + 1].levels) \in Nat \ {0} BY <1>6 DEF Levels
<1>8. p # 1 BY <1>2 DEF Reads
<1>9. p - 1 \in 1..Len(lines) /\ p - 1 + 1 = p BY <1>1, <1>8
<1>10. read[p] = ParseLine(read[p - 1], lines[p - 1]) BY <1>9 DEF Reads
<1>11. CASE IsHeading(lines[p - 1])
  <2>1. lines[p - 1].heading = s /\ read[p].levels = <<0>>
    BY <1>2, <1>10, <1>11 DEF ParseLine
  <2> QED BY <1>6, <1>7, <2>1
<1>12. CASE ~IsHeading(lines[p - 1])
  <2>1. p - 1 \in 1..Len(lines) + 1 /\ read[p - 1] \in Known BY <1>1, <1>9 DEF Reads
  <2>2. read[p].section = read[p - 1].section BY <1>10, <1>12, <2>1 DEF ParseLine, Known
  <2> QED BY <1>6, <1>7, <1>9, <1>12, <2>2
<1> QED BY <1>11, <1>12

LEMMA FlatRange ==
  ASSUME NEW n \in Nat, NEW parts, parts = [m \in 1..n |-> parts[m]],
         \A m \in 1..n : IsSeq(parts[m])
  PROVE  Range(FlattenSeq(parts)) = UNION {Range(parts[m]) : m \in 1..n}
<1> DEFINE s == FlattenSeq(parts)
<1>1. PICK off : Joins(parts, n, s, off) BY FlattenIsSeq
<1> HIDE DEF s
<1>2. DOMAIN s = 1..off[n] /\ Len(s) = off[n] /\ Len(s) \in Nat BY <1>1, SeqIs DEF Joins
<1>3. ASSUME NEW m \in 1..n
      PROVE  /\ off[m - 1] \in Nat /\ off[m - 1] + Len(parts[m]) <= Len(s)
             /\ Len(parts[m]) \in Nat /\ DOMAIN parts[m] = 1..Len(parts[m])
             /\ \A i \in 1..Len(parts[m]) : s[off[m - 1] + i] = parts[m][i]
  <2>1. /\ off[m - 1] \in Nat /\ off[m] = off[m - 1] + Len(parts[m]) /\ off[m] <= Len(s)
        /\ Len(parts[m]) \in Nat
        /\ \A i \in 1..Len(parts[m]) : s[off[m - 1] + i] = parts[m][i]
    <3>1. PartAt(parts, n, s, off, m) BY <1>1, JoinedPart
    <3> QED BY <3>1 DEF PartAt
  <2> QED BY <2>1, SeqIs
<1>4. ASSUME NEW p \in DOMAIN s PROVE \E m \in 1..n : s[p] \in Range(parts[m])
  <2>1. PICK m \in 1..n : p - off[m - 1] \in 1..Len(parts[m])
    BY <1>1, <1>2 DEF Joins, Covered
  <2>2. off[m - 1] + (p - off[m - 1]) = p BY <1>2, <1>3
  <2>3. s[p] = parts[m][p - off[m - 1]] BY <1>3, <2>1, <2>2
  <2> QED BY <1>3, <2>1, <2>3 DEF Range
<1>5. ASSUME NEW m \in 1..n, NEW i \in DOMAIN parts[m] PROVE parts[m][i] \in Range(s)
  <2>1. i \in 1..Len(parts[m]) /\ s[off[m - 1] + i] = parts[m][i] BY <1>3
  <2>2. \A a, b, c \in Nat : \A j \in 1..b : a + b <= c => a + j \in 1..c OBVIOUS
  <2>3. off[m - 1] + i \in 1..Len(s) BY ONLY <1>2, <1>3, <2>1, <2>2
  <2> QED BY <1>2, <2>1, <2>3 DEF Range
<1>6. ASSUME NEW x \in Range(s) PROVE x \in UNION {Range(parts[m]) : m \in 1..n}
  <2>1. PICK p \in DOMAIN s : x = s[p] BY DEF Range
  <2> QED BY <1>4, <2>1
<1>7. ASSUME NEW m \in 1..n, NEW x \in Range(parts[m]) PROVE x \in Range(s)
  <2>1. PICK i \in DOMAIN parts[m] : x = parts[m][i] BY DEF Range
  <2> QED BY <1>5, <2>1
<1> QED BY <1>6, <1>7 DEF s

\* The parts of a file that is read.
PartsOf(lines) ==
  LET read  == Read(lines)
      items == {p \in DOMAIN lines : ~IsHeading(lines[p])}
      node  == [p \in items |-> NodeOf(lines[p], read[p].section, Len(read[p + 1].levels) - 1, p)]
  IN  [m \in DOMAIN SectionOrder |-> Picked(node, {p \in items : read[p].section = SectionOrder[m]})]

ReadParts(lines, parts) ==
  /\ parts = PartsOf(lines)
  /\ parts = [m \in 1..Len(SectionOrder) |-> parts[m]]
  /\ Parse(lines) = FlattenSeq(parts)
  /\ \A m \in 1..Len(SectionOrder) :
       /\ Nested(parts[m], SectionOrder[m])
       /\ \A i \in 1..Len(parts[m]) :
            /\ IsNode(parts[m][i])
            /\ \E p \in DOMAIN lines : ~IsHeading(lines[p]) /\ parts[m][i].id = lines[p].id

LEMMA ParseParts ==
  ASSUME OrderAssumption, NEW lines, IsDoc(lines)
  PROVE  \E parts : ReadParts(lines, parts)
<1> DEFINE n == Len(SectionOrder)
           read == Read(lines)
           items == {p \in DOMAIN lines : ~IsHeading(lines[p])}
           node == [p \in items |-> NodeOf(lines[p], read[p].section, Len(read[p + 1].levels) - 1, p)]
           I(m) == {p \in items : read[p].section = SectionOrder[m]}
           parts == [m \in DOMAIN SectionOrder |-> Picked(node, I(m))]
<1>1. Parse(lines) = FlattenSeq(parts) BY DEF Parse
<1>1a. parts = PartsOf(lines) BY DEF PartsOf
<1>2. Reads(lines, read) BY ReadIs
<1>3. DOMAIN lines = 1..Len(lines) /\ Len(lines) \in Nat /\ IsFiniteSet(DOMAIN lines)
  BY SeqIs DEF IsDoc
<1>4. n \in Nat /\ DOMAIN SectionOrder = 1..n BY SectionsAreSeq
<1> HIDE DEF read, n
<1>5. \A p \in items : /\ node[p].section = read[p].section
                       /\ node[p].depth = Len(read[p + 1].levels) - 1
                       /\ node[p].id = lines[p].id /\ IsNode(node[p])
  BY DEF NodeOf, IsNode
<1>6. \A p \in items : p \in DOMAIN lines /\ ~IsHeading(lines[p]) OBVIOUS
<1> HIDE DEF node
<1>7. ASSUME NEW m \in 1..n
      PROVE  /\ Nested(parts[m], SectionOrder[m])
             /\ \A i \in 1..Len(parts[m]) :
                  /\ IsNode(parts[m][i])
                  /\ \E p \in DOMAIN lines : ~IsHeading(lines[p]) /\ parts[m][i].id = lines[p].id
  <2> DEFINE J == I(m)
             c == Cardinality(J)
             part == parts[m]
             s == SectionOrder[m]
  <2>1. J \in SUBSET DOMAIN lines /\ J \in SUBSET Int BY <1>3
  <2>2. Indices(J) BY <1>3, <2>1, FS_Subset DEF Indices
  <2>3. part = Picked(node, J) BY <1>4
  <2>4. \A p \in J : p \in items /\ read[p].section = s OBVIOUS
  <2>5. \A p \in items : read[p].section = s => p \in J OBVIOUS
  <2>6. s \in Range(SectionOrder) BY <1>4 DEF Range
  <2> HIDE DEF J, part, parts, s
  <2>7. c \in Nat /\ \E e : PickedAs(node, J, e) BY <2>2, PickedIs
  <2>8. PICK e : Places(J, e) /\ part = [r \in 1..c |-> node[e[r]]] BY <2>3, <2>7 DEF PickedAs
  <2>9. \A r \in 1..c : e[r] \in J BY <2>8 DEF Places
  <2> HIDE DEF c
  <2>10. IsSeq(part) /\ Len(part) = c
    <3>1. part = [r \in 1..c |-> part[r]] BY <2>8
    <3> QED BY <2>7, <3>1, FunctionIsSeq
  <2>11. \A r \in 1..c : part[r] = node[e[r]] BY <2>8
  <2> HIDE DEF items
  <2>12. ASSUME NEW r \in 1..c
         PROVE  /\ part[r].section = s /\ part[r].depth \in Nat /\ IsNode(part[r])
                /\ part[r].depth = Len(read[e[r] + 1].levels) - 1
                /\ Len(read[e[r] + 1].levels) \in Nat \ {0}
                /\ \E p \in DOMAIN lines : ~IsHeading(lines[p]) /\ part[r].id = lines[p].id
    <3>1. e[r] \in items /\ read[e[r]].section = s BY <2>4, <2>9
    <3>2. e[r] \in 1..Len(lines) /\ ~IsHeading(lines[e[r]]) BY <1>3, <1>6, <3>1
    <3>3. Len(read[e[r] + 1].levels) \in Nat \ {0} BY <1>2, <2>6, <3>1, <3>2, StepDepth
    <3>4. /\ part[r].section = s /\ part[r].depth = Len(read[e[r] + 1].levels) - 1
          /\ part[r].id = lines[e[r]].id /\ IsNode(part[r])
      BY <1>5, <2>11, <3>1
    <3>5. part[r].depth \in Nat
      <4> DEFINE l == Len(read[e[r] + 1].levels)
      <4> HIDE DEF l
      <4>1. l \in Nat \ {0} /\ part[r].depth = l - 1 BY <3>3, <3>4 DEF l
      <4> QED BY <4>1
    <3> QED BY <1>3, <3>2, <3>3, <3>4, <3>5
  <2>13. ASSUME NEW r \in 1..c
         PROVE  part[r].depth <= (IF r = 1 THEN 1 ELSE part[r - 1].depth + 1)
    <3> DEFINE p == e[r]
               l == Len(read[p + 1].levels)
    <3>1. p \in items /\ read[p].section = s BY <2>4, <2>9
    <3>2. p \in 1..Len(lines) /\ ~IsHeading(lines[p]) BY <1>3, <1>6, <3>1
    <3>3. /\ l <= Len(read[p].levels) + 1
          /\ \/ Len(read[p].levels) = 1
             \/ p - 1 \in 1..Len(lines) /\ ~IsHeading(lines[p - 1]) /\ read[p - 1].section = s
      <4> HIDE DEF p
      <4>1. /\ Len(read[p + 1].levels) <= Len(read[p].levels) + 1
            /\ \/ Len(read[p].levels) = 1
               \/ p - 1 \in 1..Len(lines) /\ ~IsHeading(lines[p - 1]) /\ read[p - 1].section = s
        BY <1>2, <2>6, <3>1, <3>2, StepDepth
      <4> QED BY <4>1
    <3>4. l \in Nat \ {0} /\ part[r].depth = l - 1 BY <2>12
    <3>5. CASE Len(read[p].levels) = 1
      <4> HIDE DEF l, p
      <4>1. part[r].depth <= 1 BY <3>3, <3>4, <3>5
      <4>2. CASE r = 1 BY <4>1, <4>2
      <4>3. CASE r # 1
        <5>1. r - 1 \in 1..c BY <2>7, <4>3
        <5>2. part[r - 1].depth \in Nat BY <2>12, <5>1
        <5>3. part[r].depth <= part[r - 1].depth + 1 BY <2>12, <4>1, <5>2
        <5> QED BY <4>3, <5>3
      <4> QED BY <4>2, <4>3
    <3>6. CASE p - 1 \in 1..Len(lines) /\ ~IsHeading(lines[p - 1]) /\ read[p - 1].section = s
      <4>1. p - 1 \in items BY <1>3, <3>6 DEF items
      <4>2. p - 1 \in J BY <2>5, <3>6, <4>1
      <4>3. r # 1 /\ e[r - 1] = p - 1
        <5>1. r \in 1..Cardinality(J) BY DEF c
        <5> QED BY <2>2, <2>8, <4>2, <5>1, NextPlace
      <4>4. r - 1 \in 1..c BY <2>7, <4>3
      <4>5. e[r - 1] + 1 = p BY <3>2, <4>3
      <4>6. part[r - 1].depth = Len(read[p].levels) - 1 /\ Len(read[p].levels) \in Nat \ {0}
        BY <2>12, <4>4, <4>5
      <4> DEFINE o == Len(read[p].levels)
      <4> HIDE DEF l, o
      <4>7. o \in Nat \ {0} /\ l <= o + 1 /\ part[r - 1].depth = o - 1 BY <3>3, <4>6 DEF o
      <4>8. part[r].depth <= part[r - 1].depth + 1 BY <3>4, <4>7
      <4> QED BY <4>3, <4>8
    <3> QED BY <3>3, <3>5, <3>6
  <2>14. Nested(part, s) BY <2>10, <2>12, <2>13 DEF Nested
  <2> QED BY <2>10, <2>12, <2>14 DEF part, s
<1>8. parts = [m \in 1..n |-> parts[m]] BY <1>4
<1> HIDE DEF parts
<1>9. ReadParts(lines, parts) BY <1>1, <1>1a, <1>7, <1>8 DEF ReadParts, n
<1> QED BY <1>9

\* The items that have no ID yet.
NoIds(lines) == \A p \in DOMAIN lines : ~IsHeading(lines[p]) => lines[p].id = None

LEMMA MapNodesIsMap ==
  ASSUME OrderAssumption, NEW lines, IsDoc(lines)
  PROVE  /\ IsMap(MapNodes(lines))
         /\ NoIds(lines) => \A n \in Range(MapNodes(lines)) : n.id = None
<1> DEFINE nodes == Parse(lines)
           new == MapNodes(lines)
<1>1. PICK parts : ReadParts(lines, parts) BY ParseParts
<1>2. /\ parts = [m \in 1..Len(SectionOrder) |-> parts[m]] /\ nodes = FlattenSeq(parts)
      /\ Len(SectionOrder) \in Nat
      /\ \A m \in 1..Len(SectionOrder) :
           /\ Nested(parts[m], SectionOrder[m]) /\ IsSeq(parts[m])
           /\ \A i \in 1..Len(parts[m]) :
                /\ IsNode(parts[m][i])
                /\ \E p \in DOMAIN lines : ~IsHeading(lines[p]) /\ parts[m][i].id = lines[p].id
  BY <1>1, SectionsAreSeq DEF ReadParts, Nested
<1>3. IsSeq(nodes) BY ParseIsSeq DEF IsDoc
<1>4. new = [p \in DOMAIN nodes |-> [nodes[p] EXCEPT !.at = 0]] BY DEF MapNodes
<1> HIDE DEF nodes, new
<1>5. Len(nodes) \in Nat /\ DOMAIN nodes = 1..Len(nodes) BY <1>3, SeqIs
<1>6. IsSeq(new) /\ Len(new) = Len(nodes)
  <2>1. new = [p \in 1..Len(nodes) |-> new[p]] BY <1>4, <1>5
  <2> QED BY <1>5, <2>1, FunctionIsSeq
<1>7. ASSUME NEW p \in 1..Len(nodes)
      PROVE  /\ IsNode(nodes[p])
             /\ \E l \in DOMAIN lines : ~IsHeading(lines[l]) /\ nodes[p].id = lines[l].id
  <2>1. nodes[p] \in Range(nodes) BY <1>5 DEF Range
  <2>2. Range(nodes) = UNION {Range(parts[m]) : m \in 1..Len(SectionOrder)} BY <1>2, FlatRange
  <2>3. PICK m \in 1..Len(SectionOrder) : nodes[p] \in Range(parts[m]) BY <2>1, <2>2
  <2>4. DOMAIN parts[m] = 1..Len(parts[m]) BY <1>2, SeqIs
  <2>5. PICK i \in 1..Len(parts[m]) : nodes[p] = parts[m][i] BY <2>3, <2>4 DEF Range
  <2> QED BY <1>2, <2>5
<1>8. \A p \in 1..Len(new) :
        /\ IsNode(new[p]) /\ new[p].at = 0 /\ new[p].id = nodes[p].id
        /\ new[p].section = nodes[p].section /\ new[p].depth = nodes[p].depth
  <2> SUFFICES ASSUME NEW p \in 1..Len(nodes)
               PROVE  /\ IsNode(new[p]) /\ new[p].at = 0 /\ new[p].id = nodes[p].id
                      /\ new[p].section = nodes[p].section /\ new[p].depth = nodes[p].depth
    BY <1>6
  <2>1. new[p] = [nodes[p] EXCEPT !.at = 0] BY <1>4, <1>5
  <2>2. IsNode(nodes[p]) BY <1>7
  <2>3. new[p] = [section |-> nodes[p].section, depth |-> nodes[p].depth, id |-> nodes[p].id,
                  label |-> nodes[p].label, checked |-> nodes[p].checked, high |-> nodes[p].high,
                  at |-> 0]
    BY <2>1, <2>2 DEF IsNode
  <2> QED BY <2>3 DEF IsNode
<1>9. IsMap(new)
  <2>1. \E news : Sectioned(new, news) /\ Regroups(parts, Len(SectionOrder), new, news)
    <3>1. NestedParts(parts) BY <1>2 DEF NestedParts
    <3>2. Alike(FlattenSeq(parts), new) BY <1>2, <1>6, <1>8 DEF Alike
    <3> QED BY <3>1, <3>2, StaysMap
  <2> QED BY <2>1 DEF IsMap
<1>10. ASSUME NoIds(lines), NEW n \in Range(new) PROVE n.id = None
  <2>1. PICK p \in 1..Len(new) : n = new[p] BY <1>6, SeqIs DEF Range
  <2> QED BY <1>6, <1>7, <1>8, <1>10, <2>1 DEF NoIds
<1> QED BY <1>9, <1>10 DEF new

-----------------------------------------------------------------------------
(* The nodes get their IDs.                                                *)

LEMMA NodesOfMap ==
  ASSUME OrderAssumption, NEW nodes, NEW parts, Sectioned(nodes, parts)
  PROVE  /\ IsSeq(nodes) /\ NestedParts(parts)
         /\ Range(nodes) = UNION {Range(parts[m]) : m \in 1..Len(SectionOrder)}
         /\ \A p \in 1..Len(nodes) :
              /\ IsNode(nodes[p]) /\ nodes[p].at = 0 /\ nodes[p].depth \in Nat
              /\ nodes[p].section \in Range(SectionOrder)
<1> DEFINE n == Len(SectionOrder)
<1>1. /\ parts = [m \in 1..n |-> parts[m]] /\ nodes = FlattenSeq(parts) /\ n \in Nat
      /\ \A m \in 1..n : SectionOf(parts[m], SectionOrder[m]) /\ IsSeq(parts[m])
  BY SectionsAreSeq DEF Sectioned, SectionOf
<1> HIDE DEF n
<1>2. IsSeq(nodes) BY <1>1, FlattenIsSeq
<1>3. NestedParts(parts) BY <1>1, SectionIsNested DEF NestedParts, n
<1>4. Range(nodes) = UNION {Range(parts[m]) : m \in 1..n} BY <1>1, FlatRange
<1>5. ASSUME NEW p \in 1..Len(nodes)
      PROVE  /\ IsNode(nodes[p]) /\ nodes[p].at = 0 /\ nodes[p].depth \in Nat
             /\ nodes[p].section \in Range(SectionOrder)
  <2>1. nodes[p] \in Range(nodes) BY <1>2, SeqIs DEF Range
  <2>2. PICK m \in 1..n : nodes[p] \in Range(parts[m]) BY <1>4, <2>1
  <2>3. DOMAIN parts[m] = 1..Len(parts[m]) BY <1>1, SeqIs
  <2>4. PICK i \in 1..Len(parts[m]) : nodes[p] = parts[m][i] BY <2>2, <2>3 DEF Range
  <2>5. SectionOrder[m] \in Range(SectionOrder) BY SectionsAreSeq DEF Range, n
  <2> QED BY <1>1, <2>4, <2>5 DEF SectionOf
<1> QED BY <1>2, <1>3, <1>4, <1>5 DEF n

Numbered(nodes, p) ==
  [section |-> nodes[p].section, depth |-> nodes[p].depth,
   id |-> <<nodes[p].section, Cardinality(Before(nodes, p)) + 1>>,
   label |-> nodes[p].label, checked |-> nodes[p].checked, high |-> nodes[p].high,
   at |-> nodes[p].at]

LEMMA ConvertNodes ==
  ASSUME NEW nodes, IsSeq(nodes), NEW p \in 1..Len(nodes), IsNode(nodes[p])
  PROVE  Convert(nodes)[p] = Numbered(nodes, p)
<1>1. p \in DOMAIN nodes BY SeqIs
<1>2. Convert(nodes)[p] = [nodes[p] EXCEPT !.id = <<nodes[p].section, Cardinality(Before(nodes, p)) + 1>>]
  BY <1>1 DEF Convert
<1> QED BY <1>2 DEF IsNode, Numbered

\* The nodes of a section with their IDs taken away.
Stripped(nodes, s) ==
  [i \in DOMAIN InSection(nodes, s) |-> [InSection(nodes, s)[i] EXCEPT !.id = None]]

LEMMA ConvertIsMap ==
  ASSUME OrderAssumption, NEW nodes, IsMap(nodes)
  PROVE  /\ IsMap(Convert(nodes)) /\ Len(Convert(nodes)) = Len(nodes)
         /\ (\A x \in Range(nodes) : x.id = None) =>
              \A s \in Range(SectionOrder) : Stripped(Convert(nodes), s) = InSection(nodes, s)
<1> DEFINE n == Len(SectionOrder)
           new == Convert(nodes)
<1>1. PICK parts : Sectioned(nodes, parts) BY DEF IsMap
<1>2. /\ IsSeq(nodes) /\ NestedParts(parts)
      /\ \A p \in 1..Len(nodes) : IsNode(nodes[p]) /\ nodes[p].at = 0
  BY <1>1, NodesOfMap
<1>3. nodes = FlattenSeq(parts) BY <1>1 DEF Sectioned
<1>4. DOMAIN nodes = 1..Len(nodes) /\ Len(nodes) \in Nat BY <1>2, SeqIs
<1>5. IsSeq(new) /\ Len(new) = Len(nodes)
  <2>1. DOMAIN new = DOMAIN nodes /\ new = [i \in DOMAIN new |-> new[i]] BY DEF Convert
  <2> HIDE DEF new
  <2> QED BY <1>2, <2>1, MapsToSeq
<1>6. ASSUME NEW p \in 1..Len(nodes)
      PROVE  /\ IsNode(new[p]) /\ new[p].at = 0
             /\ new[p].section = nodes[p].section /\ new[p].depth = nodes[p].depth
             /\ nodes[p].id = None => [new[p] EXCEPT !.id = None] = nodes[p]
  <2> DEFINE id == <<nodes[p].section, Cardinality(Before(nodes, p)) + 1>>
  <2>1. IsNode(nodes[p]) /\ nodes[p].at = 0 BY <1>2
  <2>2. new[p] = [section |-> nodes[p].section, depth |-> nodes[p].depth, id |-> id,
                  label |-> nodes[p].label, checked |-> nodes[p].checked,
                  high |-> nodes[p].high, at |-> nodes[p].at]
    <3>1. new[p] = Numbered(nodes, p) BY <1>2, <2>1, ConvertNodes
    <3> QED BY <3>1 DEF Numbered
  <2> HIDE DEF new, id
  <2> QED BY <2>1, <2>2 DEF IsNode
<1> HIDE DEF new
<1>7. Alike(nodes, new) BY <1>5, <1>6 DEF Alike
<1>8. PICK news : Sectioned(new, news) /\ Regroups(parts, Len(SectionOrder), new, news)
  BY <1>2, <1>3, <1>7, StaysMap
<1>9. ASSUME \A x \in Range(nodes) : x.id = None, NEW s \in Range(SectionOrder)
      PROVE  Stripped(new, s) = InSection(nodes, s)
  <2>1. PICK m \in 1..n : s = SectionOrder[m] BY SectionsAreSeq DEF Range
  <2>2. InSection(new, s) = news[m] /\ InSection(nodes, s) = parts[m]
    BY <1>1, <1>8, <2>1, InSectionIs
  <2>3. IsSeq(news[m]) /\ IsSeq(parts[m]) /\ Len(news[m]) = Len(parts[m])
    BY <1>1, <1>8 DEF Regroups, Sectioned, SectionOf
  <2>4. ASSUME NEW i \in 1..Len(parts[m]) PROVE [news[m][i] EXCEPT !.id = None] = parts[m][i]
    <3>1. PICK p \in 1..Len(new) : news[m][i] = new[p] /\ parts[m][i] = FlattenSeq(parts)[p]
      BY <1>8 DEF Regroups
    <3>2. p \in 1..Len(nodes) /\ nodes[p] \in Range(nodes) BY <1>4, <1>5 DEF Range
    <3>3. nodes[p].id = None BY <1>9, <3>2
    <3> QED BY <1>3, <1>6, <3>1, <3>2, <3>3
  <2>5. DOMAIN news[m] = 1..Len(parts[m]) /\ parts[m] = [i \in 1..Len(parts[m]) |-> parts[m][i]]
    BY <2>3, SeqIs
  <2>6. Stripped(new, s) = [i \in 1..Len(parts[m]) |-> [news[m][i] EXCEPT !.id = None]]
    BY <2>2, <2>5 DEF Stripped
  <2> QED BY <2>2, <2>4, <2>5, <2>6
<1> QED BY <1>5, <1>8, <1>9 DEF IsMap, new

\* No ID is given twice.
LEMMA ConvertIdsDiffer ==
  ASSUME OrderAssumption, NEW nodes, IsMap(nodes),
         NEW p \in 1..Len(nodes), NEW q \in 1..Len(nodes),
         Convert(nodes)[p].id = Convert(nodes)[q].id
  PROVE  p = q
<1>1. IsSeq(nodes) /\ IsNode(nodes[p]) /\ IsNode(nodes[q]) BY NodesOfMap DEF IsMap
<1>2. Len(nodes) \in Nat BY <1>1, SeqIs
<1> DEFINE s == nodes[p].section
           I == {j \in 1..Len(nodes) : nodes[j].section = s}
           cp == Cardinality(Before(nodes, p))
           cq == Cardinality(Before(nodes, q))
<1>3. <<nodes[p].section, cp + 1>> = <<nodes[q].section, cq + 1>>
  <2>1. Convert(nodes)[p].id = <<nodes[p].section, cp + 1>>
    <3>1. Convert(nodes)[p] = Numbered(nodes, p) BY <1>1, ConvertNodes
    <3> QED BY <3>1 DEF Numbered
  <2>2. Convert(nodes)[q].id = <<nodes[q].section, cq + 1>>
    <3>1. Convert(nodes)[q] = Numbered(nodes, q) BY <1>1, ConvertNodes
    <3> QED BY <3>1 DEF Numbered
  <2> QED BY <2>1, <2>2
<1>4. nodes[q].section = s /\ cp + 1 = cq + 1
  <2> HIDE DEF cp, cq
  <2> QED BY <1>3
<1>5. Before(nodes, p) = Below(I, p) /\ Before(nodes, q) = Below(I, q)
  BY <1>2, <1>4 DEF Before, Below
<1>6. Indices(I) /\ p \in I /\ q \in I
  <2>1. IsFiniteSet(1..Len(nodes)) BY <1>2, FS_Interval
  <2>2. I \in SUBSET (1..Len(nodes)) OBVIOUS
  <2>3. p \in I /\ q \in I BY <1>4
  <2> HIDE DEF I
  <2>4. IsFiniteSet(I) BY <2>1, <2>2, FS_Subset
  <2> QED BY <2>2, <2>3, <2>4 DEF Indices
<1> HIDE DEF I, s
<1>7. cp \in Int /\ cq \in Int BY <1>5, <1>6, BelowCount
<1>8. Cardinality(Below(I, p)) = Cardinality(Below(I, q))
  <2> HIDE DEF cp, cq
  <2>1. cp = cq BY <1>4, <1>7
  <2> QED BY <1>5, <2>1 DEF cp, cq
<1> QED BY <1>6, <1>8, BelowIsPlace

LEMMA ConvertIds ==
  ASSUME OrderAssumption, NEW nodes, IsMap(nodes)
  PROVE  LET new == Convert(nodes) bodies == ConvertContent(new)
         IN  /\ Cardinality({n.id : n \in Range(new)}) = Len(new)
             /\ \A n \in Range(new) : n.id \in DOMAIN bodies /\ bodies[n.id].summary = n.label
<1> DEFINE new == Convert(nodes)
           bodies == ConvertContent(new)
           ids == {n.id : n \in Range(new)}
           c == Len(new)
           id == [p \in 1..c |-> new[p].id]
<1>1. IsMap(new) /\ Len(new) = Len(nodes) BY ConvertIsMap
<1>2. IsSeq(new) BY <1>1, NodesOfMap DEF IsMap
<1>3. c \in Nat /\ DOMAIN new = 1..c BY <1>2, SeqIs
<1>4. \A p, q \in 1..c : new[p].id = new[q].id => p = q BY <1>1, ConvertIdsDiffer
<1> HIDE DEF new
<1>5. Range(new) = {new[p] : p \in 1..c} BY <1>3 DEF Range
<1> HIDE DEF c
<1>6. id \in Bijection(1..c, ids)
  <2>1. id \in [1..c -> ids] BY <1>5
  <2>2. IsInjective(id) BY <1>4 DEF IsInjective
  <2>3. \A x \in ids : \E p \in 1..c : id[p] = x BY <1>5
  <2> HIDE DEF id, ids
  <2> QED BY <2>1, <2>2, <2>3 DEF Bijection, Injection, Surjection, IsInjective
<1>7. Cardinality(ids) = c
  <2>1. IsFiniteSet(1..c) /\ Cardinality(1..c) = c BY <1>3, FS_Interval
  <2>2. ExistsBijection(1..c, ids) BY <1>6 DEF ExistsBijection
  <2> HIDE DEF ids
  <2> QED BY <2>1, <2>2, FS_Bijection
<1>8. ASSUME NEW n \in Range(new) PROVE n.id \in DOMAIN bodies /\ bodies[n.id].summary = n.label
  <2>1. n.id \in ids OBVIOUS
  <2>2. DOMAIN bodies = ids BY DEF ConvertContent
  <2>3. bodies[n.id].summary = (CHOOSE x \in Range(new) : x.id = n.id).label
    BY <2>1 DEF ConvertContent
  <2>4. \A x \in Range(new) : x.id = n.id => x = n BY <1>4, <1>5
  <2>5. (CHOOSE x \in Range(new) : x.id = n.id) = n BY <2>4
  <2> QED BY <2>1, <2>2, <2>3, <2>5
<1> QED BY <1>7, <1>8 DEF new, c

LEMMA KeptByConvert ==
  ASSUME OrderAssumption, NEW nodes, IsMap(nodes), NEW s, NEW t, Kept(nodes, s, t)
  PROVE  Kept(Convert(nodes), s, t)
<1>1. PICK n \in Range(nodes) :
        \/ n.section = s /\ n.label = t
        \/ s \in Singletons /\ n.section = "questions" /\ n.depth = 1
           /\ \E source \in Range(SourcesOf(s)) : n.label = <<s, t, source>>
  BY DEF Kept
<1>2. IsSeq(nodes) /\ \A p \in 1..Len(nodes) : IsNode(nodes[p]) BY NodesOfMap DEF IsMap
<1>3. DOMAIN nodes = 1..Len(nodes) BY <1>2, SeqIs
<1>4. PICK p \in 1..Len(nodes) : n = nodes[p] BY <1>3 DEF Range
<1> DEFINE x == Convert(nodes)[p]
<1>5. x.section = n.section /\ x.label = n.label /\ x.depth = n.depth
  <2>1. Convert(nodes)[p] = Numbered(nodes, p) BY <1>2, ConvertNodes
  <2> QED BY <1>4, <2>1 DEF Numbered
<1>6. x \in Range(Convert(nodes)) BY <1>3 DEF Convert, Range
<1> HIDE DEF x
<1> QED BY <1>1, <1>5, <1>6 DEF Kept

-----------------------------------------------------------------------------
(* The Map that is planned: what the user has, then what is new.           *)

LEMMA ConcatRange ==
  ASSUME NEW s, NEW t, IsSeq(s), IsSeq(t)
  PROVE  Range(s \o t) = Range(s) \cup Range(t)
<1>1. /\ IsSeq(s \o t) /\ Len(s \o t) = Len(s) + Len(t)
      /\ \A i \in 1..Len(s) : (s \o t)[i] = s[i]
      /\ \A i \in 1..Len(t) : (s \o t)[Len(s) + i] = t[i]
  BY ConcatIs
<1>2. /\ DOMAIN s = 1..Len(s) /\ DOMAIN t = 1..Len(t) /\ Len(s) \in Nat /\ Len(t) \in Nat
      /\ DOMAIN (s \o t) = 1..Len(s) + Len(t)
  BY <1>1, SeqIs
<1> DEFINE u == s \o t
<1> HIDE DEF u
<1>3. ASSUME NEW i \in 1..Len(s) + Len(t) PROVE u[i] \in Range(s) \cup Range(t)
  <2>1. CASE i <= Len(s)
    <3>1. i \in 1..Len(s) BY <1>2, <2>1
    <3> QED BY <1>1, <1>2, <3>1 DEF Range, u
  <2>2. CASE ~(i <= Len(s))
    <3>1. i - Len(s) \in 1..Len(t) /\ Len(s) + (i - Len(s)) = i BY <1>2, <2>2
    <3>2. u[i] = t[i - Len(s)] BY <1>1, <3>1 DEF u
    <3> QED BY <1>2, <3>1, <3>2 DEF Range
  <2> QED BY <2>1, <2>2
<1>4. ASSUME NEW i \in 1..Len(s) PROVE s[i] \in Range(u)
  <2>1. i \in 1..Len(s) + Len(t) BY <1>2
  <2>2. u[i] = s[i] BY <1>1 DEF u
  <2> QED BY <1>2, <2>1, <2>2 DEF Range, u
<1>5. ASSUME NEW i \in 1..Len(t) PROVE t[i] \in Range(u)
  <2>1. Len(s) + i \in 1..Len(s) + Len(t) BY <1>2
  <2>2. u[Len(s) + i] = t[i] BY <1>1 DEF u
  <2> QED BY <1>2, <2>1, <2>2 DEF Range, u
<1>6. Range(u) \subseteq Range(s) \cup Range(t) BY <1>2, <1>3 DEF Range, u
<1>7. Range(s) \subseteq Range(u) /\ Range(t) \subseteq Range(u) BY <1>2, <1>4, <1>5 DEF Range
<1> QED BY <1>6, <1>7 DEF u

LEMMA PickedHas ==
  ASSUME NEW s, NEW I, Indices(I)
  PROVE  Range(Picked(s, I)) = {s[i] : i \in I}
<1>1. Cardinality(I) \in Nat /\ \E e : PickedAs(s, I, e) BY PickedIs
<1>2. PICK e : Places(I, e) /\ Picked(s, I) = [r \in 1..Cardinality(I) |-> s[e[r]]]
  BY <1>1 DEF PickedAs
<1>3. \A r \in 1..Cardinality(I) : e[r] \in I BY <1>2 DEF Places
<1>4. \A i \in I : \E r \in 1..Cardinality(I) : e[r] = i BY <1>2 DEF Places
<1> QED BY <1>2, <1>3, <1>4 DEF Range

LEMMA SomeIndices ==
  ASSUME NEW s, IsSeq(s), NEW I \in SUBSET DOMAIN s PROVE Indices(I)
<1>1. IsFiniteSet(DOMAIN s) /\ DOMAIN s = 1..Len(s) /\ Len(s) \in Nat BY SeqIs
<1>2. IsFiniteSet(I) BY <1>1, FS_Subset
<1> QED BY <1>1, <1>2 DEF Indices

\* Nodes that are new: at the margin, or below one that is.
NewNodes(part, s) ==
  /\ IsSeq(part)
  /\ \A i \in 1..Len(part) : \E d \in {0, 1} : \E l : part[i] = NewNode(s, d, l)

LEMMA NewIsSection ==
  ASSUME NEW part, NEW s, NewNodes(part, s)
  PROVE  SectionOf(part, s) /\ \A i \in 1..Len(part) : part[i].id = None
<1>1. ASSUME NEW i \in 1..Len(part)
      PROVE  /\ IsNode(part[i]) /\ part[i].section = s /\ part[i].at = 0
             /\ part[i].depth \in {0, 1} /\ part[i].id = None
  <2>1. PICK d \in {0, 1} : \E l : part[i] = NewNode(s, d, l) BY DEF NewNodes
  <2>2. PICK l : part[i] = NewNode(s, d, l) BY <2>1
  <2> QED BY <2>2 DEF NewNode, IsNode
<1>2. IsSeq(part) /\ Len(part) \in Nat BY SeqIs DEF NewNodes
<1>3. ASSUME NEW i \in 1..Len(part)
      PROVE  part[i].depth <= (IF i = 1 THEN 1 ELSE part[i - 1].depth + 1)
  <2>1. part[i].depth \in {0, 1} BY <1>1
  <2>2. CASE i = 1 BY <2>1, <2>2
  <2>3. CASE i # 1
    <3>1. i - 1 \in 1..Len(part) BY <1>2, <2>3
    <3>2. part[i - 1].depth \in {0, 1} BY <1>1, <3>1
    <3> QED BY <2>1, <2>3, <3>2
  <2> QED BY <2>2, <2>3
<1>4. \A i \in 1..Len(part) : part[i].depth \in Nat
  <2>1. {0, 1} \subseteq Nat OBVIOUS
  <2> QED BY <1>1, <2>1
<1> QED BY <1>1, <1>2, <1>3, <1>4 DEF SectionOf

LEMMA SectionConcat ==
  ASSUME NEW u, NEW v, NEW s, SectionOf(u, s), SectionOf(v, s)
  PROVE  SectionOf(u \o v, s)
<1> DEFINE w == u \o v
<1>1. IsSeq(u) /\ IsSeq(v) /\ Len(u) \in Nat /\ Len(v) \in Nat BY SeqIs DEF SectionOf
<1>2. /\ IsSeq(w) /\ Len(w) = Len(u) + Len(v)
      /\ \A i \in 1..Len(u) : w[i] = u[i]
      /\ \A i \in 1..Len(v) : w[Len(u) + i] = v[i]
  BY <1>1, ConcatIs
<1> HIDE DEF w
<1>3. ASSUME NEW i \in 1..Len(u) + Len(v)
      PROVE  /\ IsNode(w[i]) /\ w[i].section = s /\ w[i].at = 0 /\ w[i].depth \in Nat
             /\ w[i].depth <= (IF i = 1 THEN 1 ELSE w[i - 1].depth + 1)
  <2>1. CASE i <= Len(u)
    <3>1. i \in 1..Len(u) /\ w[i] = u[i] BY <1>1, <1>2, <2>1
    <3>2. i # 1 => w[i - 1] = u[i - 1]
      <4>1. i # 1 => i - 1 \in 1..Len(u) BY <1>1, <3>1
      <4> QED BY <1>2, <4>1
    <3> QED BY <3>1, <3>2 DEF SectionOf
  <2>2. CASE ~(i <= Len(u))
    <3> DEFINE j == i - Len(u)
    <3>1. j \in 1..Len(v) /\ Len(u) + j = i BY <1>1, <2>2
    <3>2. w[i] = v[j] BY <1>2, <3>1
    <3>3. /\ IsNode(w[i]) /\ w[i].section = s /\ w[i].at = 0 /\ w[i].depth \in Nat
          /\ v[j].depth <= (IF j = 1 THEN 1 ELSE v[j - 1].depth + 1)
      <4> HIDE DEF j
      <4> QED BY <3>1, <3>2 DEF SectionOf
    <3>4. CASE j # 1
      <4>1. j - 1 \in 1..Len(v) /\ Len(u) + (j - 1) = i - 1 /\ i # 1 BY <1>1, <3>1, <3>4
      <4>2. w[i - 1] = v[j - 1] BY <1>2, <4>1
      <4> HIDE DEF j
      <4> QED BY <3>2, <3>3, <3>4, <4>1, <4>2
    <3>5. CASE j = 1 /\ i = 1 BY <3>2, <3>3, <3>5
    <3>6. CASE j = 1 /\ i # 1
      <4>1. i - 1 \in 1..Len(u) BY <1>1, <3>1, <3>6
      <4>2. w[i - 1] = u[i - 1] /\ u[i - 1].depth \in Nat BY <1>2, <4>1 DEF SectionOf
      <4>3. v[j].depth <= 1 BY <3>3, <3>6
      <4> HIDE DEF j
      <4>4. w[i].depth <= w[i - 1].depth + 1
        <5> DEFINE a == w[i].depth
                   b == w[i - 1].depth
        <5>1. a \in Nat /\ b \in Nat /\ a <= 1 BY <3>2, <3>3, <4>2, <4>3
        <5> HIDE DEF a, b
        <5>2. a <= b + 1 BY <5>1
        <5> QED BY <5>2 DEF a, b
      <4> QED BY <3>3, <3>6, <4>4
    <3> QED BY <3>4, <3>5, <3>6
  <2> QED BY <2>1, <2>2
<1>4. SectionOf(w, s) BY <1>2, <1>3 DEF SectionOf
<1> QED BY <1>4 DEF w

\* What planMigration makes of a section.
Planned(from, nodes, s) ==
  IF s \in Singletons THEN Winner(from, nodes, s)
  ELSE IF s = "questions"
    THEN InSection(nodes, s)
         \o Listed(Conflicts(from, nodes, "goals") \o Conflicts(from, nodes, "status"))
  ELSE MergeNodes(from, nodes, s)
Plan(from, nodes) == [m \in DOMAIN SectionOrder |-> Planned(from, nodes, SectionOrder[m])]

LEMMA PlanIs == \A from, nodes : PlanMigration(from, nodes) = FlattenSeq(Plan(from, nodes))
BY DEF PlanMigration, Plan, Planned

\* Nothing of what is there is changed, and what follows is new.
Extends(part, own, s) == \E tail : NewNodes(tail, s) /\ part = own \o tail

LEMMA EmptyIsNew == \A s : NewNodes(<<>>, s)
BY EmptyIsSeq DEF NewNodes

LEMMA OneIsNew == ASSUME NEW s, NEW d \in {0, 1}, NEW l PROVE NewNodes(<<NewNode(s, d, l)>>, s)
<1>1. IsSeq(<<NewNode(s, d, l)>>) /\ Len(<<NewNode(s, d, l)>>) = 1 BY OneIsSeq
<1>2. <<NewNode(s, d, l)>>[1] = NewNode(s, d, l) OBVIOUS
<1> QED BY <1>1, <1>2 DEF NewNodes

LEMMA MapsToNew ==
  ASSUME NEW t, IsSeq(t), NEW s, NEW d \in {0, 1}, NEW part, DOMAIN part = DOMAIN t,
         part = [i \in DOMAIN part |-> part[i]], \A i \in DOMAIN t : \E l : part[i] = NewNode(s, d, l)
  PROVE  NewNodes(part, s)
<1>1. IsSeq(part) /\ Len(part) = Len(t) BY MapsToSeq
<1>2. DOMAIN t = 1..Len(t) BY SeqIs
<1> QED BY <1>1, <1>2 DEF NewNodes

LEMMA NewConcat ==
  ASSUME NEW u, NEW v, NEW s, NewNodes(u, s), NewNodes(v, s)
  PROVE  NewNodes(u \o v, s)
<1>1. IsSeq(u) /\ IsSeq(v) BY DEF NewNodes
<1>2. IsSeq(u \o v) /\ Range(u \o v) = Range(u) \cup Range(v) BY <1>1, ConcatIs, ConcatRange
<1>3. /\ DOMAIN u = 1..Len(u) /\ DOMAIN v = 1..Len(v)
      /\ DOMAIN (u \o v) = 1..Len(u \o v)
  BY <1>1, <1>2, SeqIs
<1>4. \A x \in Range(u) \cup Range(v) : \E d \in {0, 1} : \E l : x = NewNode(s, d, l)
  BY <1>3 DEF NewNodes, Range
<1>5. \A i \in 1..Len(u \o v) : (u \o v)[i] \in Range(u) \cup Range(v) BY <1>2, <1>3 DEF Range
<1> QED BY <1>2, <1>4, <1>5 DEF NewNodes

LEMMA ConflictsAreNew ==
  ASSUME NEW from, NEW nodes, NEW field
  PROVE  NewNodes(Conflicts(from, nodes, field), "questions")
<1> DEFINE all  == Candidates(from, field)
           I    == {m \in DOMAIN all : all[m][2] # Winner(from, nodes, field)[1].label}
           lost == Picked(all, I)
           new  == Conflicts(from, nodes, field)
<1>1. new = [m \in DOMAIN lost |-> NewNode("questions", 1, <<field, lost[m][2], lost[m][1]>>)]
  BY DEF Conflicts
<1>2. I \in SUBSET DOMAIN all OBVIOUS
<1> HIDE DEF I
<1>3. IsSeq(lost) BY <1>2, CandidatesAreSeq, SomeAreSeq
<1> HIDE DEF lost, new
<1>4. DOMAIN new = DOMAIN lost /\ new = [m \in DOMAIN new |-> new[m]] BY <1>1
<1>5. \A m \in DOMAIN lost : \E l : new[m] = NewNode("questions", 1, l) BY <1>1
<1>6. 1 \in {0, 1} OBVIOUS
<1> QED BY <1>3, <1>4, <1>5, <1>6, MapsToNew DEF new

LEMMA PlannedExtends ==
  ASSUME OrderAssumption, NEW from, TextsAreSeq(from), NEW nodes, IsSeq(nodes),
         NEW s \in Range(SectionOrder)
  PROVE  Extends(Planned(from, nodes, s), InSection(nodes, s), s)
<1> DEFINE own == InSection(nodes, s)
<1>1. IsSeq(own) BY InSectionIsSeq
<1>2. own \o <<>> = own /\ <<>> \o own = own
  <2>1. PICK S : own \in Seq(S) BY <1>1 DEF IsSeq
  <2> HIDE DEF own
  <2> QED BY <2>1
<1> HIDE DEF own
<1>3. CASE s \in Singletons
  <2>1. Planned(from, nodes, s) = Winner(from, nodes, s) BY <1>3 DEF Planned
  <2>2. CASE own # <<>>
    <3>1. Planned(from, nodes, s) = own \o <<>> BY <1>2, <2>1, <2>2 DEF Winner, own
    <3> QED BY <3>1, EmptyIsNew DEF Extends, own
  <2>3. CASE own = <<>> /\ Candidates(from, s) # <<>>
    <3> DEFINE tail == <<NewNode(s, 0, Candidates(from, s)[1][2])>>
    <3>1. NewNodes(tail, s) BY OneIsNew
    <3>2. Planned(from, nodes, s) = tail BY <2>1, <2>3 DEF Winner, own
    <3>3. IsSeq(tail) BY OneIsSeq
    <3> HIDE DEF tail
    <3>4. <<>> \o tail = tail BY <3>3 DEF IsSeq
    <3>5. Planned(from, nodes, s) = own \o tail BY <2>3, <3>2, <3>4
    <3> QED BY <3>1, <3>5 DEF Extends, own
  <2>4. CASE own = <<>> /\ Candidates(from, s) = <<>>
    <3>1. Planned(from, nodes, s) = own \o <<>> BY <1>2, <2>1, <2>4 DEF Winner, own
    <3> QED BY <3>1, EmptyIsNew DEF Extends, own
  <2> QED BY <2>2, <2>3, <2>4
<1>4. CASE s = "questions"
  <2> DEFINE lost == Conflicts(from, nodes, "goals") \o Conflicts(from, nodes, "status")
  <2>1. NewNodes(lost, s) BY <1>4, ConflictsAreNew, NewConcat
  <2>2. s \notin Singletons BY <1>4 DEF Singletons
  <2>3. Planned(from, nodes, s) = own \o Listed(lost) BY <1>4, <2>2 DEF Planned, own
  <2> HIDE DEF lost
  <2>4. NewNodes(Listed(lost), s)
    <3>1. CASE lost = <<>> BY <3>1, EmptyIsNew DEF Listed
    <3>2. CASE lost # <<>>
      <4>1. NewNodes(<<NewNode(s, 0, ConflictLabel)>>, s) BY OneIsNew
      <4>2. Listed(lost) = <<NewNode(s, 0, ConflictLabel)>> \o lost BY <1>4, <3>2 DEF Listed
      <4> QED BY <2>1, <4>1, <4>2, NewConcat
    <3> QED BY <3>1, <3>2
  <2> QED BY <2>3, <2>4 DEF Extends, own
<1>5. CASE s \notin Singletons /\ s # "questions"
  <2> DEFINE names == SourcesOf(s)
             texts == FlattenSeq([m \in DOMAIN names |-> TextsOf(from, names[m], s)])
             seen(m) == {n.label : n \in Range(own)} \cup {texts[j] : j \in 1..m - 1}
             I     == {m \in DOMAIN texts : texts[m] \notin seen(m)}
             new   == Picked(texts, I)
             more  == [m \in DOMAIN new |-> NewNode(s, 0, new[m])]
  <2>1. Planned(from, nodes, s) = own \o more BY <1>5 DEF Planned, MergeNodes, own
  <2>2. IsSeq(texts)
    <3> DEFINE parts == [m \in DOMAIN names |-> TextsOf(from, names[m], s)]
    <3>1. Len(names) \in Nat /\ DOMAIN names = 1..Len(names) BY SourcesAreSeq, SeqIs
    <3>2. \A m \in 1..Len(names) : IsSeq(TextsOf(from, names[m], s)) BY <3>1 DEF Range, TextsAreSeq
    <3>3. parts = [m \in 1..Len(names) |-> parts[m]] BY <3>1
    <3>4. \A m \in 1..Len(names) : IsSeq(parts[m]) BY <3>1, <3>2
    <3> HIDE DEF parts, names
    <3>5. IsSeq(FlattenSeq(parts)) BY <3>1, <3>3, <3>4, FlattenIsSeq
    <3> QED BY <3>5 DEF parts
  <2>3. I \in SUBSET DOMAIN texts OBVIOUS
  <2> HIDE DEF texts, I
  <2>4. IsSeq(new) BY <2>2, <2>3, SomeAreSeq
  <2> HIDE DEF new
  <2>5. NewNodes(more, s)
    <3>1. DOMAIN more = DOMAIN new /\ more = [m \in DOMAIN more |-> more[m]] OBVIOUS
    <3>2. \A m \in DOMAIN new : \E l : more[m] = NewNode(s, 0, l) OBVIOUS
    <3>3. 0 \in {0, 1} OBVIOUS
    <3> HIDE DEF more
    <3> QED BY <2>4, <3>1, <3>2, <3>3, MapsToNew
  <2> HIDE DEF more
  <2> QED BY <2>1, <2>5 DEF Extends, own
<1> QED BY <1>3, <1>4, <1>5

LEMMA PlanIsMap ==
  ASSUME OrderAssumption, NEW from, TextsAreSeq(from), NEW nodes, IsMap(nodes),
         \A n \in Range(nodes) : n.id = None
  PROVE  /\ Sectioned(PlanMigration(from, nodes), Plan(from, nodes))
         /\ \A n \in Range(PlanMigration(from, nodes)) : n.id = None
<1> DEFINE n == Len(SectionOrder)
           plan == Plan(from, nodes)
<1>1. PICK parts : Sectioned(nodes, parts) BY DEF IsMap
<1>2. IsSeq(nodes) /\ Range(nodes) = UNION {Range(parts[m]) : m \in 1..n} BY <1>1, NodesOfMap
<1>3. plan = [m \in 1..n |-> plan[m]] /\ n \in Nat /\ DOMAIN SectionOrder = 1..n
  BY SectionsAreSeq DEF Plan
<1>4. \A m \in 1..n : plan[m] = Planned(from, nodes, SectionOrder[m]) BY <1>3 DEF Plan
<1> HIDE DEF plan
<1>5. ASSUME NEW m \in 1..n
      PROVE  SectionOf(plan[m], SectionOrder[m]) /\ \A x \in Range(plan[m]) : x.id = None
  <2> DEFINE s == SectionOrder[m]
  <2>1. s \in Range(SectionOrder) BY <1>3 DEF Range
  <2>2. InSection(nodes, s) = parts[m] BY <1>1, InSectionIs
  <2>3. Extends(plan[m], parts[m], s) BY <1>2, <1>4, <2>1, <2>2, PlannedExtends
  <2>4. PICK tail : NewNodes(tail, s) /\ plan[m] = parts[m] \o tail BY <2>3 DEF Extends
  <2>5. SectionOf(parts[m], s) BY <1>1 DEF Sectioned
  <2> HIDE DEF s
  <2>6. SectionOf(tail, s) /\ \A i \in 1..Len(tail) : tail[i].id = None BY <2>4, NewIsSection
  <2>7. SectionOf(plan[m], s) BY <2>4, <2>5, <2>6, SectionConcat
  <2>8. Range(plan[m]) = Range(parts[m]) \cup Range(tail)
    BY <2>4, <2>5, ConcatRange DEF SectionOf, NewNodes
  <2>9. \A x \in Range(parts[m]) : x.id = None BY <1>2
  <2>10. \A x \in Range(tail) : x.id = None
    <3>1. DOMAIN tail = 1..Len(tail) BY <2>6, SeqIs DEF SectionOf
    <3> QED BY <2>6, <3>1 DEF Range
  <2> QED BY <2>7, <2>8, <2>9, <2>10 DEF s
<1>6. PlanMigration(from, nodes) = FlattenSeq(plan) BY PlanIs DEF plan
<1>7. Sectioned(PlanMigration(from, nodes), plan) BY <1>3, <1>5, <1>6 DEF Sectioned
<1>8. Range(PlanMigration(from, nodes)) = UNION {Range(plan[m]) : m \in 1..n}
  BY <1>7, NodesOfMap
<1>9. \A x \in Range(PlanMigration(from, nodes)) : x.id = None BY <1>5, <1>8
<1> QED BY <1>7, <1>9 DEF plan

-----------------------------------------------------------------------------
(* What the sources say is in the Map that is planned.                     *)

\* What there is of a singleton is one text.
OneText(from, s) ==
  \A name \in Range(SourcesOf(s)) : Len(TextsOf(from, name, s)) <= 1

LEMMA CandidateOf ==
  ASSUME NEW from, NEW s, NEW name \in Range(SourcesOf(s)), IsSeq(TextsOf(from, name, s)),
         Len(TextsOf(from, name, s)) <= 1, NEW t \in Range(TextsOf(from, name, s))
  PROVE  \E c \in DOMAIN Candidates(from, s) : Candidates(from, s)[c] = <<name, t>>
<1> DEFINE names == SourcesOf(s)
           texts == TextsOf(from, name, s)
           I == {m \in DOMAIN names : TextsOf(from, names[m], s) # <<>>}
<1>1. IsSeq(names) BY SourcesAreSeq
<1>2. PICK i \in DOMAIN names : name = names[i] BY DEF Range
<1>3. Len(texts) \in Nat /\ DOMAIN texts = 1..Len(texts) BY SeqIs
<1>4. t = Head(texts) /\ texts # <<>>
  <2>1. PICK j \in 1..Len(texts) : t = texts[j] BY <1>3 DEF Range
  <2>2. Len(texts) = 1 /\ j = 1 BY <1>3, <2>1
  <2>3. PICK S : texts \in Seq(S) BY DEF IsSeq
  <2> HIDE DEF texts
  <2>4. texts # <<>>
    <3>1. Len(<<>>) = 0 OBVIOUS
    <3> QED BY <2>2, <3>1
  <2>5. Head(texts) = texts[1] BY <2>3, <2>4
  <2> QED BY <2>1, <2>2, <2>4, <2>5
<1>5. i \in I BY <1>2, <1>4
<1>6. Indices(I)
  <2>1. I \in SUBSET DOMAIN names OBVIOUS
  <2> HIDE DEF I, names
  <2> QED BY <1>1, <2>1, SomeIndices
<1>7. Speaking(from, s) = Picked(names, I) BY DEF Speaking
<1> HIDE DEF I
<1>8. name \in Range(Speaking(from, s)) BY <1>2, <1>5, <1>6, <1>7, PickedHas
<1>9. PICK c \in DOMAIN Speaking(from, s) : Speaking(from, s)[c] = name BY <1>8 DEF Range
<1>10. c \in DOMAIN Candidates(from, s) /\ Candidates(from, s)[c] = <<name, Head(texts)>>
  BY <1>9 DEF Candidates
<1> QED BY <1>4, <1>10

\* What is of a section, is in the Map.
LEMMA PlannedInPlan ==
  ASSUME OrderAssumption, NEW from, NEW nodes,
         Sectioned(PlanMigration(from, nodes), Plan(from, nodes)), NEW s \in Range(SectionOrder)
  PROVE  Range(Planned(from, nodes, s)) \subseteq Range(PlanMigration(from, nodes))
<1> DEFINE plan == Plan(from, nodes)
<1>1. PICK m \in 1..Len(SectionOrder) : s = SectionOrder[m] BY SectionsAreSeq DEF Range
<1>2. plan[m] = Planned(from, nodes, s) BY <1>1, SectionsAreSeq DEF Plan
<1>3. Range(PlanMigration(from, nodes)) = UNION {Range(plan[i]) : i \in 1..Len(SectionOrder)}
  BY NodesOfMap
<1> HIDE DEF plan
<1> QED BY <1>2, <1>3

LEMMA SingletonIsKept ==
  ASSUME OrderAssumption, "questions" \in Range(SectionOrder),
         NEW from, TextsAreSeq(from), NEW nodes, IsSeq(nodes),
         Sectioned(PlanMigration(from, nodes), Plan(from, nodes)),
         NEW s \in Range(SectionOrder), s \in Singletons, OneText(from, s), NEW t \in Said(from, s)
  PROVE  Kept(PlanMigration(from, nodes), s, t)
<1> DEFINE all == Candidates(from, s)
           winner == Winner(from, nodes, s)
           plan == PlanMigration(from, nodes)
<1>1. PICK name \in Range(SourcesOf(s)) : t \in Range(TextsOf(from, name, s)) BY DEF Said
<1>2. IsSeq(TextsOf(from, name, s)) /\ Len(TextsOf(from, name, s)) <= 1
  BY DEF TextsAreSeq, OneText
<1>3. PICK c \in DOMAIN all : all[c] = <<name, t>>
  <2> HIDE DEF all
  <2> QED BY <1>1, <1>2, CandidateOf DEF all
<1>4. all[c][2] = t /\ all[c][1] = name BY <1>3
<1>5. all # <<>> BY <1>3
<1>6. IsSeq(all) /\ IsSeq(winner) BY CandidatesAreSeq, PlannedAreSeq
<1>7. winner[1] \in Range(winner) /\ winner[1].section = s
  <2>1. CASE InSection(nodes, s) # <<>>
    <3> DEFINE own == InSection(nodes, s)
               J == {i \in DOMAIN nodes : nodes[i].section = s}
    <3>1. winner = own BY <2>1 DEF Winner
    <3>2. IsSeq(own) BY InSectionIsSeq
    <3>3. 1 \in DOMAIN own
      <4>1. DOMAIN own = 1..Len(own) /\ Len(own) \in Nat BY <3>2, SeqIs
      <4>2. PICK S : own \in Seq(S) BY <3>2 DEF IsSeq
      <4> HIDE DEF own
      <4>3. own # <<>> BY <2>1 DEF own
      <4>4. Len(own) # 0 BY <4>2, <4>3
      <4> QED BY <4>1, <4>4
    <3>4. J \in SUBSET DOMAIN nodes OBVIOUS
    <3>5. own = Picked(nodes, J) BY DEF InSection
    <3>6. \A i \in J : nodes[i].section = s OBVIOUS
    <3> HIDE DEF J, own
    <3>7. Indices(J) BY <3>4, SomeIndices
    <3>8. Range(own) = {nodes[i] : i \in J} BY <3>5, <3>7, PickedHas
    <3>9. own[1] \in Range(own) BY <3>3 DEF Range
    <3> QED BY <3>1, <3>6, <3>8, <3>9
  <2>2. CASE InSection(nodes, s) = <<>>
    <3> DEFINE x == NewNode(s, 0, all[1][2])
    <3>1. winner = <<x>> BY <1>5, <2>2 DEF Winner
    <3>2. x.section = s BY DEF NewNode
    <3> HIDE DEF x, winner
    <3>3. winner[1] = x /\ 1 \in DOMAIN winner BY <3>1
    <3> QED BY <3>2, <3>3 DEF Range
  <2> QED BY <2>1, <2>2
<1>8. Planned(from, nodes, s) = winner BY DEF Planned
<1>9. winner[1] \in Range(plan) BY <1>7, <1>8, PlannedInPlan
<1>10. CASE winner[1].label = t BY <1>7, <1>9, <1>10 DEF Kept
<1>11. CASE winner[1].label # t
  <2> DEFINE I == {m \in DOMAIN all : all[m][2] # winner[1].label}
             lost == Picked(all, I)
             new == Conflicts(from, nodes, s)
             goals == Conflicts(from, nodes, "goals")
             status == Conflicts(from, nodes, "status")
             x == NewNode("questions", 1, <<s, t, name>>)
  <2>1. I \in SUBSET DOMAIN all OBVIOUS
  <2>2. c \in I BY <1>4, <1>11
  <2>3. new = [m \in DOMAIN lost |-> NewNode("questions", 1, <<s, lost[m][2], lost[m][1]>>)]
    BY DEF Conflicts
  <2> HIDE DEF I, all
  <2>4. Indices(I) BY <1>6, <2>1, SomeIndices
  <2>5. all[c] \in Range(lost) BY <2>2, <2>4, PickedHas
  <2>6. PICK m \in DOMAIN lost : lost[m] = all[c] BY <2>5 DEF Range
  <2> HIDE DEF lost, new
  <2>7. x \in Range(new)
    <3>1. m \in DOMAIN new /\ new[m] = x BY <1>4, <2>3, <2>6
    <3> HIDE DEF x
    <3> QED BY <3>1 DEF Range
  <2>8. x \in Range(goals \o status)
    <3>1. IsSeq(goals) /\ IsSeq(status) BY PlannedAreSeq
    <3>2. s = "goals" \/ s = "status" BY DEF Singletons
    <3>3. x \in Range(goals) \cup Range(status) BY <2>7, <3>2 DEF new
    <3> HIDE DEF goals, status, x
    <3> QED BY <3>1, <3>3, ConcatRange
  <2> DEFINE both == goals \o status
  <2>9. x \in Range(Listed(both))
    <3>1. IsSeq(both) BY PlannedAreSeq, ConcatIs
    <3> HIDE DEF both, x
    <3>2. both # <<>>
      <4>1. Range(<<>>) = {} BY DEF Range
      <4> QED BY <2>8, <4>1 DEF both
    <3>3. Listed(both) = <<NewNode("questions", 0, ConflictLabel)>> \o both BY <3>2 DEF Listed
    <3>4. Range(Listed(both)) = Range(<<NewNode("questions", 0, ConflictLabel)>>) \cup Range(both)
      BY <3>1, <3>3, OneIsSeq, ConcatRange
    <3> QED BY <2>8, <3>4 DEF both
  <2>10. x \in Range(Planned(from, nodes, "questions"))
    <3>1. "questions" \notin Singletons BY DEF Singletons
    <3>2. Planned(from, nodes, "questions") = InSection(nodes, "questions") \o Listed(both)
      BY <3>1 DEF Planned
    <3>3. IsSeq(InSection(nodes, "questions")) BY InSectionIsSeq
    <3>4. IsSeq(Listed(both))
      <4>1. IsSeq(both) BY PlannedAreSeq, ConcatIs
      <4> HIDE DEF both
      <4> QED BY <4>1, OneIsSeq, EmptyIsSeq, ConcatIs DEF Listed
    <3> HIDE DEF x, both
    <3> QED BY <2>9, <3>2, <3>3, <3>4, ConcatRange
  <2>11. x \in Range(plan)
    <3> HIDE DEF x
    <3> QED BY <2>10, PlannedInPlan
  <2>12. x.section = "questions" /\ x.depth = 1 /\ x.label = <<s, t, name>> BY DEF NewNode
  <2> HIDE DEF x
  <2> QED BY <1>1, <2>11, <2>12 DEF Kept
<1> QED BY <1>10, <1>11

LEMMA MergedIsKept ==
  ASSUME OrderAssumption, NEW from, TextsAreSeq(from), NEW nodes, IsSeq(nodes),
         Sectioned(PlanMigration(from, nodes), Plan(from, nodes)),
         NEW s \in Range(SectionOrder), s \notin Singletons, NEW t \in Said(from, s)
  PROVE  Kept(PlanMigration(from, nodes), s, t)
<1> DEFINE own   == InSection(nodes, s)
           names == SourcesOf(s)
           parts == [m \in DOMAIN names |-> TextsOf(from, names[m], s)]
           texts == FlattenSeq(parts)
           seen(m) == {n.label : n \in Range(own)} \cup {texts[j] : j \in 1..m - 1}
           I     == {m \in DOMAIN texts : texts[m] \notin seen(m)}
           new   == Picked(texts, I)
           more  == [m \in DOMAIN new |-> NewNode(s, 0, new[m])]
           plan  == PlanMigration(from, nodes)
<1>1. PICK name \in Range(names) : t \in Range(TextsOf(from, name, s)) BY DEF Said
<1>2. s # "questions"
  <2>1. SourcesOf("questions") = <<>> BY DEF SourcesOf, Singletons
  <2>2. Range(<<>>) = {} BY DEF Range
  <2> QED BY <1>1, <2>1, <2>2
<1>3. Planned(from, nodes, s) = own \o more BY <1>2 DEF Planned, MergeNodes
<1>4. IsSeq(texts) /\ t \in Range(texts)
  <2>1. Len(names) \in Nat /\ DOMAIN names = 1..Len(names) BY SourcesAreSeq, SeqIs
  <2>2. \A m \in 1..Len(names) : IsSeq(TextsOf(from, names[m], s))
    BY <2>1 DEF Range, TextsAreSeq
  <2>3. parts = [m \in 1..Len(names) |-> parts[m]] BY <2>1
  <2>4. \A m \in 1..Len(names) : IsSeq(parts[m]) BY <2>1, <2>2
  <2>5. PICK i \in 1..Len(names) : name = names[i] BY <1>1, <2>1 DEF Range
  <2>6. t \in Range(parts[i]) BY <1>1, <2>1, <2>5
  <2> HIDE DEF parts, names
  <2>7. IsSeq(FlattenSeq(parts)) BY <2>1, <2>3, <2>4, FlattenIsSeq
  <2>8. Range(FlattenSeq(parts)) = UNION {Range(parts[m]) : m \in 1..Len(names)}
    BY <2>1, <2>3, <2>4, FlatRange
  <2> QED BY <2>6, <2>7, <2>8
<1>5. IsSeq(own) BY InSectionIsSeq
<1>6. I \in SUBSET DOMAIN texts OBVIOUS
<1> HIDE DEF texts
<1>7. DOMAIN texts = 1..Len(texts) /\ Len(texts) \in Nat BY <1>4, SeqIs
<1>8. PICK first \in 1..Len(texts) : /\ texts[first] = t
                                     /\ \A j \in 1..first - 1 : texts[j] # t
  <2> DEFINE J == {j \in 1..Len(texts) : texts[j] = t}
             R == OpToRel(<, Nat)
  <2>1. J # {} BY <1>4, <1>7 DEF Range
  <2>2. J \subseteq Nat OBVIOUS
  <2>3. PICK m \in J : \A j \in J : <<j, m>> \notin R
    <3> HIDE DEF J, R
    <3> QED BY <2>1, <2>2, NatLessThanWellFounded, WFMin DEF R
  <2>4. \A j \in 1..m - 1 : j \in 1..Len(texts) /\ j \in Nat /\ m \in Nat /\ j < m BY <1>7
  <2>5. \A j \in 1..m - 1 : <<j, m>> \in R BY <2>4 DEF OpToRel
  <2>6. \A j \in 1..m - 1 : texts[j] # t BY <2>3, <2>4, <2>5
  <2> QED BY <2>3, <2>6
<1>9. Range(own) \cup Range(more) \subseteq Range(plan)
  <2>1. IsSeq(new)
    <3> HIDE DEF I
    <3> QED BY <1>4, <1>6, SomeAreSeq
  <2> HIDE DEF new
  <2>2. IsSeq(more) BY <2>1, MapsToSeq
  <2> HIDE DEF more, own, plan
  <2>3. Range(Planned(from, nodes, s)) = Range(own) \cup Range(more) BY <1>3, <1>5, <2>2, ConcatRange
  <2> QED BY <2>3, PlannedInPlan DEF plan
<1>10. CASE \E n \in Range(own) : n.label = t
  <2>1. PICK n \in Range(own) : n.label = t BY <1>10
  <2>2. n.section = s
    <3> DEFINE J == {i \in DOMAIN nodes : nodes[i].section = s}
    <3>1. J \in SUBSET DOMAIN nodes OBVIOUS
    <3>2. \A i \in J : nodes[i].section = s OBVIOUS
    <3>3. own = Picked(nodes, J) BY DEF InSection
    <3> HIDE DEF J, own
    <3>4. Indices(J) BY <3>1, SomeIndices
    <3> QED BY <2>1, <3>2, <3>3, <3>4, PickedHas
  <2> QED BY <1>9, <2>1, <2>2 DEF Kept
<1>11. CASE ~\E n \in Range(own) : n.label = t
  <2>1. first \in I
    <3>1. texts[first] \notin seen(first) BY <1>8, <1>11
    <3> QED BY <1>7, <3>1
  <2> HIDE DEF I
  <2>2. Indices(I) BY <1>4, <1>6, SomeIndices
  <2>3. t \in Range(new) BY <1>8, <2>1, <2>2, PickedHas
  <2> HIDE DEF new
  <2>4. PICK m \in DOMAIN new : new[m] = t BY <2>3 DEF Range
  <2> DEFINE x == NewNode(s, 0, t)
  <2>5. x \in Range(more)
    <3>1. m \in DOMAIN more /\ more[m] = x BY <2>4
    <3> HIDE DEF more, x
    <3> QED BY <3>1 DEF Range
  <2>6. x.section = s /\ x.label = t BY DEF NewNode
  <2> HIDE DEF x
  <2> QED BY <1>9, <2>5, <2>6 DEF Kept
<1> QED BY <1>10, <1>11

LEMMA SaidIsKept ==
  ASSUME OrderAssumption, "questions" \in Range(SectionOrder),
         NEW from, TextsAreSeq(from), NEW nodes, IsSeq(nodes),
         Sectioned(PlanMigration(from, nodes), Plan(from, nodes)),
         NEW s \in Range(SectionOrder), s \in Singletons => OneText(from, s), NEW t \in Said(from, s)
  PROVE  Kept(PlanMigration(from, nodes), s, t)
BY SingletonIsKept, MergedIsKept

-----------------------------------------------------------------------------
(* What a save is about.                                                   *)

\* The sources of an older handoff.
Consulted(from) ==
  \A s \in Range(SectionOrder) : \A name \in {"json", "handoff"} :
    /\ name \notin Range(SourcesOf(s)) => TextsOf(from, name, s) = <<>>
    /\ s \in Singletons => Len(TextsOf(from, name, s)) <= 1

\* A line of a Map of this layout.
LineOf(version, line) == IsLine(line) /\ (version # "v3" => IsHeading(line) \/ line.id = None)

Wellformed ==
  /\ IsSeq(doc) /\ \A line \in Range(doc) : LineOf(layout, line)
  /\ TextsAreSeq(files) /\ Consulted(files)

LEMMA WellformedDoc ==
  ASSUME Wellformed PROVE IsDoc(doc) /\ (layout # "v3" => NoIds(doc))
<1>1. IsSeq(doc) /\ \A line \in Range(doc) : LineOf(layout, line) BY DEF Wellformed
<1>2. DOMAIN doc = 1..Len(doc) BY <1>1, SeqIs
<1>3. \A p \in DOMAIN doc : doc[p] \in Range(doc) BY DEF Range
<1> QED BY <1>1, <1>2, <1>3 DEF IsDoc, NoIds, LineOf

LEMMA WellformedInit ==
  ASSUME StartAssumption, SourceAssumption, HistoryInit PROVE Wellformed
<1>1. PICK start \in Starts :
        layout = start.layout /\ doc = start.doc /\ files = start.files
  BY DEF HistoryInit
<1>2. IsSeq(doc) BY <1>1 DEF StartAssumption, IsSeq
<1>3. TextsAreSeq(files)
  <2> SUFFICES ASSUME NEW section \in Range(SectionOrder), NEW name \in Range(SourcesOf(section))
               PROVE  IsSeq(TextsOf(files, name, section))
    BY DEF TextsAreSeq
  <2> DEFINE texts == TextsOf(files, name, section)
  <2>1. texts \in Seq(Range(texts)) BY <1>1 DEF StartAssumption
  <2> QED BY <2>1 DEF IsSeq
<1>4. \A line \in Range(doc) : LineOf(layout, line) BY <1>1 DEF SourceAssumption, LineOf
<1>5. Consulted(files) BY <1>1 DEF SourceAssumption, Consulted
<1> QED BY <1>2, <1>3, <1>4, <1>5 DEF Wellformed

LEMMA RangeIsSeq ==
  ASSUME NEW s, IsSeq(s), NEW T, Range(s) \subseteq T PROVE s \in Seq(T)
<1> DEFINE n == Len(s)
<1>1. n \in Nat /\ s = [i \in 1..n |-> s[i]] /\ DOMAIN s = 1..n BY SeqIs
<1>2. \A i \in 1..n : s[i] \in T BY <1>1 DEF Range
<1> HIDE DEF n
<1> QED BY <1>1, <1>2, FunctionIsSeq

LEMMA EditedIn ==
  ASSUME NEW T, NEW s \in Seq(T), NEW at \in DOMAIN s, NEW x \in T
  PROVE  /\ [s EXCEPT ![at] = x] \in Seq(T)
         /\ RemoveAt(s, at) \in Seq(T)
         /\ InsertAt(s, at + 1, x) \in Seq(T)
<1>1. at \in 1..Len(s) /\ Len(s) \in Nat OBVIOUS
<1>2. [s EXCEPT ![at] = x] \in Seq(T) OBVIOUS
<1>3. /\ SubSeq(s, 1, at - 1) \in Seq(T) /\ SubSeq(s, at + 1, Len(s)) \in Seq(T)
      /\ SubSeq(s, 1, at + 1 - 1) \in Seq(T) /\ <<x>> \in Seq(T)
  BY <1>1
<1>4. RemoveAt(s, at) \in Seq(T) BY <1>3 DEF RemoveAt
<1>5. InsertAt(s, at + 1, x) \in Seq(T) BY <1>3 DEF InsertAt
<1> QED BY <1>2, <1>4, <1>5

LEMMA EditWellformed ==
  ASSUME SourceAssumption, Wellformed, EditItem \/ AddItem \/ EditBody \/ EditExtra
  PROVE  Wellformed'
<1>1. UNCHANGED <<layout, files>> BY DEF EditItem, AddItem, EditBody, EditExtra, Edit
<1> DEFINE T == {x \in Range(doc) \cup Range(doc') : LineOf(layout, x)}
<1>2. IsSeq(doc) /\ DOMAIN doc = 1..Len(doc) BY SeqIs DEF Wellformed
<1>3. \A p \in DOMAIN doc : doc[p] \in Range(doc) /\ LineOf(layout, doc[p])
  BY DEF Range, Wellformed
<1>4. TextsAreSeq(files)' /\ Consulted(files)'
  <2>1. TextsAreSeq(files) /\ Consulted(files) BY DEF Wellformed
  <2> QED BY <1>1, <2>1
<1>5. CASE doc' = doc BY <1>1, <1>4, <1>5 DEF Wellformed
<1>6. ASSUME NEW L, doc \in Seq(L), \A x \in L : LineOf(layout, x),
             doc' \in Seq(L)
      PROVE  Wellformed'
  <2>1. IsSeq(doc') BY <1>6 DEF IsSeq
  <2>2. \A line \in Range(doc') : LineOf(layout, line) BY <1>6 DEF Range
  <2>3. \A line \in Range(doc') : LineOf(layout', line) BY <1>1, <2>2
  <2> QED BY <1>4, <2>1, <2>3 DEF Wellformed
<1>7. ASSUME NEW x, LineOf(layout, x), NEW at \in DOMAIN doc,
             \/ doc' = [doc EXCEPT ![at] = x] \/ doc' = RemoveAt(doc, at)
             \/ doc' = InsertAt(doc, at + 1, x)
      PROVE  Wellformed'
  <2> DEFINE L == Range(doc) \cup {x}
  <2>1. doc \in Seq(L) BY <1>2, RangeIsSeq
  <2>2. \A y \in L : LineOf(layout, y) BY <1>7 DEF Wellformed
  <2>3. x \in L OBVIOUS
  <2> HIDE DEF L
  <2>4. /\ [doc EXCEPT ![at] = x] \in Seq(L) /\ RemoveAt(doc, at) \in Seq(L)
        /\ InsertAt(doc, at + 1, x) \in Seq(L)
    BY <2>1, <2>3, EditedIn
  <2>5. doc' \in Seq(L) BY ONLY <1>7, <2>4
  <2> QED BY <1>6, <2>1, <2>2, <2>5
<1>8. CASE EditItem
  <2>1. PICK at \in Items :
          \/ \E l \in Labels : doc' = [doc EXCEPT ![at].label = l]
          \/ doc' = [doc EXCEPT ![at].checked = ~@]
          \/ \E w \in Widths : doc' = [doc EXCEPT ![at].indent = w]
          \/ doc' = RemoveAt(doc, at)
          \/ at + 1 \in Items /\ doc' = [doc EXCEPT ![at] = doc[at + 1], ![at + 1] = doc[at]]
          \/ doc' = [doc EXCEPT ![at].high = ~@]
    BY <1>8, Zenon DEF EditItem
  <2>2. at \in DOMAIN doc /\ ~IsHeading(doc[at]) BY DEF Items
  <2> DEFINE line == doc[at]
             Edited(l, w, b, h) == [indent |-> w, id |-> line.id, label |-> l, checked |-> b, high |-> h]
  <2>3. IsItem(line) /\ LineOf(layout, line) /\ (layout # "v3" => line.id = None)
    BY <1>3, <2>2, LinesAre DEF LineOf, IsLine
  <2>4. line = [indent |-> line.indent, id |-> line.id, label |-> line.label,
                checked |-> line.checked, high |-> line.high] /\ line.indent \in Nat
    BY <2>3 DEF IsItem, Item
  <2> HIDE DEF line
  <2>5. \A l, b, h : \A w \in Nat : LineOf(layout, Edited(l, w, b, h))
    BY <2>3 DEF LineOf, IsLine, IsItem, Item
  <2>6. CASE \E l \in Labels : doc' = [doc EXCEPT ![at].label = l]
    <3>1. PICK l \in Labels : doc' = [doc EXCEPT ![at].label = l] BY <2>6
    <3>2. doc' = [doc EXCEPT ![at] = [line EXCEPT !.label = l]] BY <3>1, Zenon DEF line
    <3>3. [line EXCEPT !.label = l] = Edited(l, line.indent, line.checked, line.high) BY <2>4
    <3> HIDE DEF Edited
    <3> QED BY <1>7, <2>2, <2>4, <2>5, <3>2, <3>3
  <2>7. CASE doc' = [doc EXCEPT ![at].checked = ~@]
    <3> DEFINE b == ~line.checked
    <3>1. doc' = [doc EXCEPT ![at] = [line EXCEPT !.checked = b]] BY <2>7, Zenon DEF line
    <3> HIDE DEF b
    <3>2. [line EXCEPT !.checked = b] = Edited(line.label, line.indent, b, line.high) BY <2>4
    <3> HIDE DEF Edited
    <3> QED BY <1>7, <2>2, <2>4, <2>5, <3>1, <3>2
  <2>8. CASE \E w \in Widths : doc' = [doc EXCEPT ![at].indent = w]
    <3>1. PICK w \in Widths : doc' = [doc EXCEPT ![at].indent = w] BY <2>8
    <3>2. doc' = [doc EXCEPT ![at] = [line EXCEPT !.indent = w]] BY <3>1, Zenon DEF line
    <3>3. [line EXCEPT !.indent = w] = Edited(line.label, w, line.checked, line.high) BY <2>4
    <3>4. w \in Nat BY DEF SourceAssumption
    <3> HIDE DEF Edited
    <3> QED BY <1>7, <2>2, <2>5, <3>2, <3>3, <3>4
  <2>9. CASE doc' = RemoveAt(doc, at) BY <1>7, <2>2, <2>3, <2>9
  <2>10. CASE at + 1 \in Items /\ doc' = [doc EXCEPT ![at] = doc[at + 1], ![at + 1] = doc[at]]
    <3> DEFINE L == Range(doc)
    <3>1. doc \in Seq(L) BY <1>2, RangeIsSeq
    <3>2. \A x \in L : LineOf(layout, x) BY DEF Wellformed
    <3>3. at + 1 \in DOMAIN doc BY <2>10 DEF Items
    <3>4. doc[at] \in L /\ doc[at + 1] \in L BY <1>3, <2>2, <3>3
    <3> HIDE DEF L
    <3>5. [doc EXCEPT ![at] = doc[at + 1]] \in Seq(L) BY <2>2, <3>1, <3>4, EditedIn
    <3>6. doc' = [[doc EXCEPT ![at] = doc[at + 1]] EXCEPT ![at + 1] = doc[at]] BY <2>10
    <3>7. at + 1 \in DOMAIN [doc EXCEPT ![at] = doc[at + 1]] BY <3>3
    <3>8. doc' \in Seq(L) BY ONLY <3>4, <3>5, <3>6, <3>7, EditedIn
    <3> QED BY <1>6, <3>1, <3>2, <3>8
  <2>11. CASE doc' = [doc EXCEPT ![at].high = ~@]
    <3> DEFINE h == ~line.high
    <3>1. doc' = [doc EXCEPT ![at] = [line EXCEPT !.high = h]] BY <2>11, Zenon DEF line
    <3> HIDE DEF h
    <3>2. [line EXCEPT !.high = h] = Edited(line.label, line.indent, line.checked, h) BY <2>4
    <3> HIDE DEF Edited
    <3> QED BY <1>7, <2>2, <2>4, <2>5, <3>1, <3>2
  <2> QED BY <2>1, <2>6, <2>7, <2>8, <2>9, <2>10, <2>11
<1>9. CASE AddItem
  <2>1. PICK at \in DOMAIN doc, l \in Labels, w \in Widths :
          doc' = InsertAt(doc, at + 1, Item(w, None, l, FALSE, FALSE))
    BY <1>9 DEF AddItem
  <2> DEFINE x == Item(w, None, l, FALSE, FALSE)
  <2>2. w \in Nat BY DEF SourceAssumption
  <2>3. LineOf(layout, x) BY <2>2 DEF LineOf, IsLine, IsItem, Item
  <2> HIDE DEF x
  <2> QED BY <1>7, <2>1, <2>3 DEF x
<1>10. CASE EditBody \/ EditExtra BY <1>5, <1>10 DEF EditBody, EditExtra
<1> QED BY <1>8, <1>9, <1>10

LEMMA EmptyIsMap ==
  ASSUME OrderAssumption PROVE IsMap(<<>>)
<1> DEFINE n == Len(SectionOrder)
           parts == [m \in 1..n |-> <<>>]
<1>1. n \in Nat BY SectionsAreSeq
<1>2. /\ parts = [m \in 1..n |-> parts[m]]
      /\ \A m \in 1..n : parts[m] = <<>> /\ IsSeq(parts[m]) /\ Range(parts[m]) = {}
  BY EmptyIsSeq DEF Range
<1>3. \A m \in 1..n : SectionOf(parts[m], SectionOrder[m])
  <2>1. Len(<<>>) = 0 /\ 1..0 = {} OBVIOUS
  <2> HIDE DEF parts
  <2> QED BY <1>2, <2>1 DEF SectionOf
<1> HIDE DEF parts, n
<1>4. IsSeq(FlattenSeq(parts)) BY <1>1, <1>2, FlattenIsSeq
<1>5. Range(FlattenSeq(parts)) = UNION {Range(parts[m]) : m \in 1..n} BY <1>1, <1>2, FlatRange
<1>6. Range(FlattenSeq(parts)) = {} BY <1>2, <1>5
<1>7. FlattenSeq(parts) = <<>>
  <2> DEFINE f == FlattenSeq(parts)
  <2>1. PICK S : f \in Seq(S) BY <1>4 DEF IsSeq
  <2>2. \A i \in DOMAIN f : f[i] \in Range(f) BY DEF Range
  <2>3. DOMAIN f = {} BY <1>6, <2>2
  <2> HIDE DEF f
  <2> QED BY <2>1, <2>3 DEF f
<1> QED BY <1>2, <1>3, <1>7 DEF IsMap, Sectioned, n

LEMMA NodesAre ==
  ASSUME OrderAssumption, Wellformed
  PROVE  /\ IsMap(Nodes) /\ IsSeq(Nodes)
         /\ layout # "v3" => \A n \in Range(Nodes) : n.id = None
<1>1. IsMap(Nodes) /\ (layout # "v3" => \A n \in Range(Nodes) : n.id = None)
  BY WellformedDoc, MapNodesIsMap DEF Nodes
<1>2. IsSeq(Nodes) BY <1>1, NodesOfMap DEF IsMap
<1> QED BY <1>1, <1>2

LEMMA MigratedIsMap ==
  ASSUME OrderAssumption, NEW from, TextsAreSeq(from), NEW nodes, IsMap(nodes),
         \A n \in Range(nodes) : n.id = None
  PROVE  IsMap(Migrated(from, nodes)) /\ \A n \in Range(Migrated(from, nodes)) : n.id = None
<1>1. CASE Chained(from, nodes) /\ IsMigrationNeeded(from, nodes)
  <2>1. Migrated(from, nodes) = PlanMigration(from, nodes) BY <1>1 DEF Migrated
  <2>2. /\ Sectioned(PlanMigration(from, nodes), Plan(from, nodes))
        /\ \A n \in Range(PlanMigration(from, nodes)) : n.id = None
    BY PlanIsMap
  <2> QED BY <2>1, <2>2 DEF IsMap
<1>2. CASE ~(Chained(from, nodes) /\ IsMigrationNeeded(from, nodes))
  <2>1. Migrated(from, nodes) = nodes BY <1>2 DEF Migrated
  <2> QED BY <2>1
<1> QED BY <1>1, <1>2

LEMMA NothingSaid == TextsAreSeq(NoFiles) /\ Consulted(NoFiles)
<1>1. \A name \in SourceNames : \A s : TextsOf(NoFiles, name, s) = <<>>
  BY DEF TextsOf, Has, NoFiles, SourceNames
<1>2. Len(<<>>) = 0 OBVIOUS
<1>3. TextsAreSeq(NoFiles) BY <1>1, SourcesAreSeq, EmptyIsSeq DEF TextsAreSeq
<1>4. Consulted(NoFiles)
  <2>1. \A s : \A name \in {"json", "handoff"} : TextsOf(NoFiles, name, s) = <<>>
    BY <1>1 DEF SourceNames
  <2> QED BY <1>2, <2>1 DEF Consulted
<1> QED BY <1>3, <1>4

LEMMA SaveWellformed ==
  ASSUME OrderAssumption, Wellformed, Save PROVE Wellformed'
<1>1. IsMap(Nodes) /\ (layout # "v3" => \A n \in Range(Nodes) : n.id = None) BY NodesAre
<1>2. TextsAreSeq(files) /\ Consulted(files) BY DEF Wellformed
<1>3. ASSUME NEW nodes, IsMap(nodes), doc' = Render(nodes), layout' = "v3",
             files' = files \/ files' = NoFiles
      PROVE  Wellformed'
  <2>1. IsDoc(doc') BY <1>3, RoundTrip
  <2>2. IsSeq(doc') /\ DOMAIN doc' = 1..Len(doc') BY <2>1, SeqIs DEF IsDoc
  <2>3. \A line \in Range(doc') : LineOf(layout', line)
    BY <1>3, <2>1, <2>2 DEF Range, IsDoc, LineOf
  <2>4. TextsAreSeq(files') /\ Consulted(files')
    <3>1. CASE files' = files BY <1>2, <3>1
    <3>2. CASE files' = NoFiles BY <3>2, NothingSaid
    <3> QED BY <1>3, <3>1, <3>2
  <2> QED BY <2>2, <2>3, <2>4 DEF Wellformed
<1>4. CASE layout = "v3" /\ SaveAs(Nodes, content) /\ UNCHANGED files
  BY <1>1, <1>3, <1>4 DEF SaveAs
<1>5. CASE layout # "v3" /\ Needed(files, Nodes) /\ MigrateAs(Convert(Migrated(files, Nodes)))
  <2>1. IsMap(Migrated(files, Nodes)) BY <1>1, <1>2, <1>5, MigratedIsMap
  <2>2. IsMap(Convert(Migrated(files, Nodes))) BY <2>1, ConvertIsMap
  <2> QED BY <1>3, <1>5, <2>2 DEF SaveAs, MigrateAs
<1>6. CASE layout # "v3" /\ ~Needed(files, Nodes) /\ SaveAs(<<>>, <<>>) /\ UNCHANGED files
  BY <1>3, <1>6, EmptyIsMap DEF SaveAs
<1> QED BY <1>4, <1>5, <1>6 DEF Save

LEMMA WellformedStep ==
  ASSUME OrderAssumption, SourceAssumption, Wellformed, [HistoryNext]_historyVars
  PROVE  Wellformed'
<1>1. CASE EditItem \/ AddItem \/ EditBody \/ EditExtra BY <1>1, EditWellformed
<1>2. CASE Save BY <1>2, SaveWellformed
<1>3. CASE UNCHANGED <<layout, doc, files>>
  <2>1. Wellformed' <=> Wellformed BY <1>3 DEF Wellformed
  <2> QED BY <2>1
<1>4. CASE SetBack BY <1>3, <1>4 DEF SetBack
<1>5. CASE Record BY <1>3, <1>5 DEF Record
<1>6. CASE SkipRecord BY <1>3, <1>6 DEF SkipRecord
<1>7. CASE TearRecord BY <1>3, <1>7 DEF TearRecord
<1>8. CASE UNCHANGED historyVars BY <1>3, <1>8 DEF historyVars
<1> QED BY <1>1, <1>2, <1>4, <1>5, <1>6, <1>7, <1>8 DEF HistoryNext

\* The nodes of a section are nodes of the Map.
LEMMA InSectionHas ==
  ASSUME NEW nodes, IsSeq(nodes), NEW s
  PROVE  Range(InSection(nodes, s)) = {n \in Range(nodes) : n.section = s}
<1> DEFINE I == {i \in DOMAIN nodes : nodes[i].section = s}
<1>1. Indices(I)
  <2>1. I \in SUBSET DOMAIN nodes OBVIOUS
  <2> HIDE DEF I
  <2> QED BY <2>1, SomeIndices
<1>2. Range(Picked(nodes, I)) = {nodes[i] : i \in I} BY <1>1, PickedHas
<1>3. {nodes[i] : i \in I} = {n \in Range(nodes) : n.section = s} BY DEF Range
<1>4. InSection(nodes, s) = Picked(nodes, I) BY DEF InSection
<1> QED BY <1>2, <1>3, <1>4

LEMMA PrefixOfConcat ==
  ASSUME NEW s, IsSeq(s), NEW t, IsSeq(t)
  PROVE  IsPrefix(s, s \o t)
<1>1. /\ IsSeq(s \o t) /\ Len(s \o t) = Len(s) + Len(t)
      /\ \A i \in 1..Len(s) : (s \o t)[i] = s[i]
  BY ConcatIs
<1>2. Len(s) \in Nat /\ Len(t) \in Nat BY SeqIs
<1>3. PICK S : s \in Seq(S) BY DEF IsSeq
<1>4. PICK T : t \in Seq(T) BY DEF IsSeq
<1> DEFINE w == s \o t
<1>5. SubSeq(s, 1, Len(s)) = [i \in 1..Len(s) |-> s[i]]
  BY <1>2, <1>3
<1>6. SubSeq(w, 1, Len(s)) = [i \in 1..Len(s) |-> w[i]]
  <2>1. PICK W : w \in Seq(W) BY <1>1 DEF IsSeq
  <2>2. Len(s) <= Len(w) BY <1>1, <1>2
  <2> HIDE DEF w
  <2> QED BY <1>2, <2>1, <2>2
<1>7. [i \in 1..Len(s) |-> s[i]] = [i \in 1..Len(s) |-> w[i]] BY <1>1
<1>8. Len(s) <= Len(w) BY <1>1, <1>2
<1> QED BY <1>5, <1>6, <1>7, <1>8 DEF IsPrefix

\* What is there of a section comes first, unchanged.
LEMMA MigratedBegins ==
  ASSUME OrderAssumption, NEW from, TextsAreSeq(from), NEW nodes, IsMap(nodes),
         \A n \in Range(nodes) : n.id = None, NEW s \in Range(SectionOrder)
  PROVE  IsPrefix(InSection(nodes, s), InSection(Migrated(from, nodes), s))
<1> DEFINE own == InSection(nodes, s)
<1>1. IsSeq(nodes) BY NodesOfMap DEF IsMap
<1>2. IsSeq(own) BY <1>1, InSectionIsSeq
<1>3. CASE Chained(from, nodes) /\ IsMigrationNeeded(from, nodes)
  <2>1. Migrated(from, nodes) = PlanMigration(from, nodes) BY <1>3 DEF Migrated
  <2>2. Sectioned(PlanMigration(from, nodes), Plan(from, nodes)) BY PlanIsMap
  <2>3. PICK m \in 1..Len(SectionOrder) : s = SectionOrder[m] BY SectionsAreSeq DEF Range
  <2>4. InSection(PlanMigration(from, nodes), s) = Plan(from, nodes)[m]
    BY <2>2, <2>3, InSectionIs
  <2>5. Plan(from, nodes)[m] = Planned(from, nodes, s) BY <2>3, SectionsAreSeq DEF Plan
  <2>6. Extends(Planned(from, nodes, s), own, s) BY <1>1, PlannedExtends
  <2>7. PICK tail : NewNodes(tail, s) /\ Planned(from, nodes, s) = own \o tail
    BY <2>6 DEF Extends
  <2>8. IsSeq(tail) BY <2>7 DEF NewNodes
  <2> HIDE DEF own
  <2>9. IsPrefix(own, own \o tail) BY <1>2, <2>8, PrefixOfConcat
  <2> QED BY <2>1, <2>4, <2>5, <2>7, <2>9 DEF own
<1>4. CASE ~(Chained(from, nodes) /\ IsMigrationNeeded(from, nodes))
  <2>1. Migrated(from, nodes) = nodes BY <1>4 DEF Migrated
  <2>2. Len(own) \in Nat BY <1>2, SeqIs
  <2> HIDE DEF own
  <2>3. IsPrefix(own, own) BY <2>2 DEF IsPrefix
  <2> QED BY <2>1, <2>3 DEF own
<1> QED BY <1>3, <1>4

\* And so no text of the Map is lost.
LEMMA OwnIsKept ==
  ASSUME OrderAssumption, NEW from, TextsAreSeq(from), NEW nodes, IsMap(nodes),
         \A n \in Range(nodes) : n.id = None, NEW s \in Range(SectionOrder),
         NEW n \in Range(InSection(nodes, s))
  PROVE  Kept(Migrated(from, nodes), s, n.label)
<1> DEFINE own == InSection(nodes, s)
           new == Migrated(from, nodes)
           all == InSection(new, s)
<1>1. IsSeq(nodes) BY NodesOfMap DEF IsMap
<1>2. IsMap(new) BY MigratedIsMap
<1>3. IsSeq(new) BY <1>2, NodesOfMap DEF IsMap
<1>4. IsSeq(own) /\ IsSeq(all) BY <1>1, <1>3, InSectionIsSeq
<1>5. IsPrefix(own, all) BY MigratedBegins
<1>6. Range(all) = {x \in Range(new) : x.section = s} BY <1>3, InSectionHas
<1> HIDE DEF own, all, new
<1>7. Len(own) \in Nat /\ Len(all) \in Nat /\ DOMAIN own = 1..Len(own) /\ DOMAIN all = 1..Len(all)
  BY <1>4, SeqIs
<1>8. PICK i \in 1..Len(own) : n = own[i] BY <1>7 DEF Range, own
<1>9. Len(own) <= Len(all) /\ SubSeq(own, 1, Len(own)) = SubSeq(all, 1, Len(own))
  BY <1>5 DEF IsPrefix
<1>10. SubSeq(own, 1, Len(own))[i] = own[i] /\ SubSeq(all, 1, Len(own))[i] = all[i]
  <2>1. PICK S : own \in Seq(S) BY <1>4 DEF IsSeq
  <2>2. PICK T : all \in Seq(T) BY <1>4 DEF IsSeq
  <2> QED BY <1>7, <1>9, <2>1, <2>2
<1>11. n = all[i] /\ i \in DOMAIN all BY <1>7, <1>8, <1>9, <1>10
<1>12. n \in Range(all) BY <1>11 DEF Range
<1>13. n \in Range(new) /\ n.section = s BY <1>6, <1>12
<1> QED BY <1>13 DEF Kept, new

\* A text of a source that is merged is in the Map that is made of it.
LEMMA SaidIsMigrated ==
  ASSUME OrderAssumption, SourceAssumption, NEW from, TextsAreSeq(from), Consulted(from),
         NEW nodes, IsMap(nodes), \A n \in Range(nodes) : n.id = None,
         Chained(from, nodes), IsMigrationNeeded(from, nodes),
         NEW s \in Range(SectionOrder), NEW t \in Said(from, s)
  PROVE  Kept(Migrated(from, nodes), s, t)
<1>1. IsSeq(nodes) BY NodesOfMap DEF IsMap
<1>2. Migrated(from, nodes) = PlanMigration(from, nodes) BY DEF Migrated
<1>3. Sectioned(PlanMigration(from, nodes), Plan(from, nodes)) BY PlanIsMap
<1>4. s \in Singletons => OneText(from, s)
  <2> SUFFICES ASSUME s \in Singletons, NEW name \in Range(SourcesOf(s))
               PROVE  Len(TextsOf(from, name, s)) <= 1
    BY DEF OneText
  <2>1. SourcesOf(s) = <<"json", "handoff">> BY DEF SourcesOf, Singletons
  <2>2. name \in {"json", "handoff"} BY <2>1 DEF Range
  <2> QED BY <2>2 DEF Consulted
<1>5. "questions" \in Range(SectionOrder) BY DEF SourceAssumption
<1> QED BY <1>1, <1>2, <1>3, <1>4, <1>5, SaidIsKept

LEMMA SourceIsMigrated ==
  ASSUME OrderAssumption, SourceAssumption, NEW from, TextsAreSeq(from), Consulted(from),
         NEW nodes, IsMap(nodes), \A n \in Range(nodes) : n.id = None,
         Chained(from, nodes), IsMigrationNeeded(from, nodes),
         NEW s \in Range(SectionOrder), NEW name \in {"json", "handoff"},
         NEW t \in Range(TextsOf(from, name, s))
  PROVE  Kept(Migrated(from, nodes), s, t)
<1>1. CASE name \in Range(SourcesOf(s))
  <2>1. t \in Said(from, s) BY <1>1 DEF Said
  <2> QED BY <2>1, SaidIsMigrated
<1>2. CASE name \notin Range(SourcesOf(s))
  <2>1. TextsOf(from, name, s) = <<>> BY <1>2 DEF Consulted
  <2>2. Range(<<>>) = {} BY DEF Range
  <2> QED BY <2>1, <2>2
<1> QED BY <1>1, <1>2

\* What a load shows of an older version is migrated, whatever it shows it from.
LEMMA ShownIsMigrated ==
  ASSUME OrderAssumption, SourceAssumption, Wellformed, layout # "v3",
         \/ Chained(files, Nodes) /\ IsMigrationNeeded(files, Nodes)
         \/ ~Chained(files, Nodes),
         NEW s \in Range(SectionOrder), NEW t \in Shown(s)
  PROVE  Kept(Migrated(files, Nodes), s, t)
<1>1. IsMap(Nodes) /\ \A n \in Range(Nodes) : n.id = None BY NodesAre
<1>2. TextsAreSeq(files) /\ Consulted(files) BY DEF Wellformed
<1>3. ASSUME t \in Says(s) PROVE Kept(Migrated(files, Nodes), s, t)
  <2>1. PICK n \in Range(InSection(Nodes, s)) : t = n.label BY <1>3 DEF Says
  <2> QED BY <1>1, <1>2, <2>1, OwnIsKept
<1>4. ASSUME Chained(files, Nodes), NEW name \in {"json", "handoff"},
             t \in Range(TextsOf(files, name, s))
      PROVE  Kept(Migrated(files, Nodes), s, t)
  <2>1. IsMigrationNeeded(files, Nodes) BY <1>4
  <2> QED BY <1>1, <1>2, <1>4, <2>1, SourceIsMigrated
<1>5. CASE Usable(Nodes)
  <2>1. CASE t \in Says(s) BY <1>3, <2>1
  <2>2. CASE t \notin Says(s)
    <3>1. t \in Range(TextsOf(files, "json", s)) BY <1>5, <2>2 DEF Shown, Merged
    <3>2. CASE Chained(files, Nodes) BY <1>4, <3>1, <3>2
    <3>3. CASE ~Chained(files, Nodes)
      <4>1. Has(files, "json") => DOMAIN files.json = {} BY <3>3 DEF Chained, HasLegacySemantics
      <4>2. TextsOf(files, "json", s) = <<>> BY <4>1 DEF TextsOf
      <4>3. Range(<<>>) = {} BY DEF Range
      <4> QED BY <3>1, <4>2, <4>3
    <3> QED BY <3>2, <3>3
  <2> QED BY <2>1, <2>2
<1>6. CASE ~Usable(Nodes)
  <2>1. Chained(files, Nodes) BY <1>6 DEF Chained
  <2>2. \/ t \in Range(TextsOf(files, "json", s)) \/ t \in Range(TextsOf(files, "handoff", s))
    BY <1>6 DEF Shown
  <2> QED BY <1>4, <2>1, <2>2
<1> QED BY <1>5, <1>6

LEMMA MigrationKeepsStep ==
  ASSUME OrderAssumption, SourceAssumption, Wellformed, [HistoryNext]_historyVars
  PROVE  MigrationKeeps
<1> SUFFICES ASSUME layout # "v3", layout' = "v3", Needed(files, Nodes) PROVE MigrationKeeps
  BY DEF MigrationKeeps
<1> DEFINE from == files
           nodes == Nodes
           middle == Migrated(files, Nodes)
           made == Convert(middle)
           merged == Chained(files, Nodes) /\ IsMigrationNeeded(files, Nodes)
<1>1. doc' = Render(made) /\ content' = ConvertContent(made)
  <2>1. layout' # layout OBVIOUS
  <2>2. Save
    BY <2>1 DEF HistoryNext, historyVars, EditItem, AddItem, EditBody, EditExtra, Edit, SetBack,
                Record, SkipRecord, TearRecord
  <2>3. MigrateAs(made) BY <2>2 DEF Save
  <2> HIDE DEF made
  <2> QED BY <2>3 DEF MigrateAs, SaveAs
<1>2. IsMap(Nodes) /\ \A n \in Range(Nodes) : n.id = None BY NodesAre
<1>3. TextsAreSeq(files) /\ Consulted(files) BY DEF Wellformed
<1>4. IsMap(middle) /\ \A n \in Range(middle) : n.id = None BY <1>2, <1>3, MigratedIsMap
<1> HIDE DEF middle
<1>5. /\ IsMap(made)
      /\ \A s \in Range(SectionOrder) : Stripped(made, s) = InSection(middle, s)
  BY <1>4, ConvertIsMap
<1>6. /\ Cardinality({n.id : n \in Range(made)}) = Len(made)
      /\ \A n \in Range(made) :
           n.id \in DOMAIN ConvertContent(made) /\ ConvertContent(made)[n.id].summary = n.label
  BY <1>4, ConvertIds
<1>7. \A s, t : Kept(middle, s, t) => Kept(made, s, t) BY <1>4, KeptByConvert
<1> HIDE DEF made
<1>8. MapNodes(doc') = made BY <1>1, <1>5, RoundTrip
<1>9. ASSUME NEW s \in Range(SectionOrder) PROVE IsPrefix(InSection(Nodes, s), Stripped(made, s))
  <2>1. IsPrefix(InSection(Nodes, s), InSection(middle, s)) BY <1>2, <1>3, MigratedBegins DEF middle
  <2> QED BY <1>5, <2>1
<1>10. ASSUME merged, NEW s \in Range(SectionOrder), NEW t \in Said(files, s) PROVE Kept(made, s, t)
  <2>1. Kept(middle, s, t) BY <1>2, <1>3, <1>10, SaidIsMigrated DEF middle
  <2> QED BY <1>7, <2>1
<1>11. ASSUME merged \/ ~Chained(files, Nodes), NEW s \in Range(SectionOrder), NEW t \in Shown(s)
       PROVE  Kept(made, s, t)
  <2>1. Kept(middle, s, t) BY <1>11, ShownIsMigrated DEF middle
  <2> QED BY <1>7, <2>1
<1> QED BY <1>1, <1>6, <1>8, <1>9, <1>10, <1>11 DEF MigrationKeeps, Stripped

\* A migration keeps what the user wrote and what the older sources say
\* (migrate.mjs, migrate-v3.mjs), with a body for every node, for every
\* directory a save can meet, whatever was edited before.
THEOREM MigrationKeepsAllHolds ==
  ASSUME StartAssumption, SourceAssumption, OrderAssumption
  PROVE  HistorySpec => MigrationKeepsAll
<1>1. HistoryInit => Wellformed BY WellformedInit
<1>2. Wellformed /\ [HistoryNext]_historyVars => Wellformed' BY WellformedStep
<1>3. Wellformed /\ [HistoryNext]_historyVars => MigrationKeeps BY MigrationKeepsStep
<1>4. MigrationKeeps => [MigrationKeeps]_historyVars OBVIOUS
<1> QED BY <1>1, <1>2, <1>3, <1>4, PTL DEF HistorySpec, MigrationKeepsAll

\* A save does not change the Map of a handoff: what renderContextMapV3 writes
\* reads as the nodes it was written from.
THEOREM SaveKeepsTheMap ==
  ASSUME StartAssumption, SourceAssumption, OrderAssumption
  PROVE  HistorySpec => [](MapNodes(Render(Nodes)) = Nodes)
<1>1. HistoryInit => Wellformed BY WellformedInit
<1>2. Wellformed /\ [HistoryNext]_historyVars => Wellformed' BY WellformedStep
<1>3. Wellformed => MapNodes(Render(Nodes)) = Nodes BY NodesAre, RoundTrip
<1> QED BY <1>1, <1>2, <1>3, PTL DEF HistorySpec

-----------------------------------------------------------------------------
(* The hierarchy of a section.                                             *)

\* The nodes of section s are those of part, after place a.
RunAt(nodes, part, a, s) ==
  /\ a \in Nat /\ Len(part) \in Nat
  /\ \A p \in 1..a + Len(part) : nodes[p].section = s <=> p > a
  /\ \A i \in 1..Len(part) : nodes[a + i].depth = part[i].depth

\* A section that begins at the margin.
Climbs(part) ==
  \A i \in 1..Len(part) :
    part[i].depth \in Nat /\ part[i].depth <= (IF i = 1 THEN 0 ELSE part[i - 1].depth + 1)

\* Node j of the section is the parent of node i, or 0 is.
Above(part, i, j) ==
  \/ part[i].depth = 0 /\ j = 0
  \/ /\ j \in 1..i - 1 /\ part[j].depth = part[i].depth - 1
     /\ \A k \in j + 1..i - 1 : part[k].depth >= part[i].depth

\* Where that is.
ParentAt(a, j) == IF j = 0 THEN 0 ELSE a + j

LEMMA BeforeIs ==
  ASSUME NEW nodes, NEW part, NEW a, NEW s, RunAt(nodes, part, a, s), NEW i \in 1..Len(part)
  PROVE  Before(nodes, a + i) = a + 1..a + i - 1
<1> DEFINE n == Len(part)
<1>1. a \in Nat /\ n \in Nat /\ i \in 1..n BY DEF RunAt
<1>2. \A p \in 1..a + n : nodes[p].section = s <=> p > a BY DEF RunAt
<1> HIDE DEF n
<1>3. a + i \in 1..a + n /\ a + i > a BY <1>1
<1>4. nodes[a + i].section = s BY <1>2, <1>3
<1>5. \A p \in 1..a + i - 1 : p \in 1..a + n BY <1>1
<1>6. \A p \in 1..a + i - 1 : nodes[p].section = nodes[a + i].section <=> p > a
  BY <1>2, <1>4, <1>5
<1>7. Before(nodes, a + i) = {p \in 1..a + i - 1 : p > a}
  <2> DEFINE b == a + i
  <2>0. b - 1 = a + i - 1 BY <1>1
  <2>1. \A p \in 1..b - 1 : nodes[p].section = nodes[b].section <=> p > a BY <1>6, <2>0
  <2> HIDE DEF b
  <2>2. Before(nodes, b) = {p \in 1..b - 1 : p > a} BY <2>1, Zenon DEF Before
  <2> QED BY <2>0, <2>2 DEF b
<1>8. {p \in 1..a + i - 1 : p > a} = a + 1..a + i - 1 BY <1>1
<1> QED BY <1>7, <1>8

\* The greatest is the one that is not less than the others.
LEMMA MaxIs ==
  ASSUME NEW S \in SUBSET Int, NEW m \in S, \A x \in S : x <= m
  PROVE  Max(S) = m
<1>1. m \in S /\ \A x \in S : m >= x OBVIOUS
<1>2. Max(S) \in S /\ \A x \in S : Max(S) >= x
  <2>1. \E y \in S : \A x \in S : y >= x BY <1>1
  <2> QED BY <2>1, Zenon DEF Max
<1> DEFINE c == Max(S)
<1> HIDE DEF c
<1>3. c \in S /\ \A x \in S : c >= x BY <1>2 DEF c
<1>4. c = m BY <1>1, <1>3
<1> QED BY <1>4 DEF c

LEMMA NearestIs ==
  ASSUME NEW nodes, NEW part, NEW a, NEW s, RunAt(nodes, part, a, s), Climbs(part),
         NEW i \in 1..Len(part), NEW j, Above(part, i, j)
  PROVE  NearestParent(nodes, a + i) = ParentAt(a, j)
<1> DEFINE n == Len(part)
           S == {0} \cup Ancestors(nodes, a + i)
<1>1. a \in Nat /\ n \in Nat /\ i \in 1..n /\ \A k \in 1..n : nodes[a + k].depth = part[k].depth
  BY DEF RunAt
<1>2. \A k \in 1..n : part[k].depth \in Nat BY DEF Climbs
<1>3. Before(nodes, a + i) = a + 1..a + i - 1 BY BeforeIs
<1>4. Ancestors(nodes, a + i) =
        {q \in a + 1..a + i - 1 : \A k \in q + 1..a + i : nodes[q].depth < nodes[k].depth}
  BY <1>3 DEF Ancestors
<1> HIDE DEF n
<1>5. \A q \in a + 1..a + i - 1 : q - a \in 1..n /\ nodes[q].depth = part[q - a].depth
  <2> SUFFICES ASSUME NEW q \in a + 1..a + i - 1
               PROVE  q - a \in 1..n /\ nodes[q].depth = part[q - a].depth
    OBVIOUS
  <2>1. q - a \in 1..n /\ a + (q - a) = q BY <1>1
  <2> QED BY <1>1, <2>1
<1>6. nodes[a + i].depth = part[i].depth BY <1>1
<1>7. S \in SUBSET Int BY <1>1, <1>4
<1>8. CASE part[i].depth = 0 /\ j = 0
  <2>1. ASSUME NEW q \in Ancestors(nodes, a + i) PROVE FALSE
    <3>1. q \in a + 1..a + i - 1 /\ \A k \in q + 1..a + i : nodes[q].depth < nodes[k].depth
      BY <1>4, <2>1
    <3>2. a + i \in q + 1..a + i BY <1>1, <3>1
    <3>3. nodes[q].depth < 0 BY <1>6, <1>8, <3>1, <3>2
    <3>4. nodes[q].depth \in Nat BY <1>2, <1>5, <3>1
    <3> QED BY <3>3, <3>4
  <2>2. S = {0} BY <2>1
  <2> HIDE DEF S
  <2>3. Max(S) = 0 BY <2>2, MaxIs
  <2> QED BY <1>8, <2>3 DEF NearestParent, ParentAt, S
<1>9. CASE ~(part[i].depth = 0 /\ j = 0)
  <2>1. /\ j \in 1..i - 1 /\ part[j].depth = part[i].depth - 1
        /\ \A k \in j + 1..i - 1 : part[k].depth >= part[i].depth
    BY <1>9 DEF Above
  <2>2. j \in 1..n /\ a + j \in a + 1..a + i - 1 /\ nodes[a + j].depth = part[j].depth
    BY <1>1, <2>1
  <2> DEFINE b == a + j
  <2>3. ASSUME NEW k \in b + 1..a + i PROVE nodes[b].depth < nodes[k].depth
    <3>1. CASE k = a + i
      <4>1. part[i].depth \in Nat BY <1>1, <1>2
      <4>2. nodes[b].depth = part[i].depth - 1 BY <2>1, <2>2
      <4>3. nodes[k].depth = part[i].depth BY <1>6, <3>1
      <4> QED BY ONLY <4>1, <4>2, <4>3
    <3>2. CASE k # a + i
      <4>1. k - a \in j + 1..i - 1 /\ k \in a + 1..a + i - 1
        <5>1. a \in Nat /\ i \in Nat /\ j \in 1..i - 1 BY <1>1, <2>1
        <5>2. k \in Int /\ a + j + 1 <= k /\ k <= a + i BY <5>1
        <5> QED BY ONLY <3>2, <5>1, <5>2
      <4>2. part[k - a].depth >= part[i].depth /\ nodes[k].depth = part[k - a].depth
        BY <1>5, <2>1, <4>1
      <4>3. part[i].depth \in Nat /\ part[k - a].depth \in Nat BY <1>1, <1>2, <1>5, <4>1
      <4>4. nodes[b].depth = part[i].depth - 1 BY <2>1, <2>2
      <4> QED BY ONLY <4>2, <4>3, <4>4
    <3> QED BY <3>1, <3>2
  <2>4. b \in S BY <1>4, <2>2, <2>3
  <2>5. ASSUME NEW q \in S PROVE q <= b
    <3>1. CASE q = 0 BY <1>1, <2>2, <3>1
    <3>2. CASE q # 0
      <4>1. q \in a + 1..a + i - 1 /\ \A k \in q + 1..a + i : nodes[q].depth < nodes[k].depth
        BY <1>4, <3>2
      <4>2. SUFFICES ASSUME q > b PROVE FALSE BY <1>1, <2>2, <4>1
      <4>3. q - a \in j + 1..i - 1 BY <1>1, <2>2, <4>1, <4>2
      <4>4. nodes[q].depth >= part[i].depth BY <1>5, <2>1, <4>1, <4>3
      <4>5. a + i \in q + 1..a + i BY <1>1, <4>1
      <4>6. nodes[q].depth < part[i].depth BY <1>6, <4>1, <4>5
      <4>7. nodes[q].depth \in Nat /\ part[i].depth \in Nat BY <1>1, <1>2, <1>5, <4>1
      <4> QED BY <4>4, <4>6, <4>7
    <3> QED BY <3>1, <3>2
  <2> HIDE DEF S, b
  <2>6. Max(S) = b BY <1>7, <2>4, <2>5, MaxIs
  <2>7. ParentAt(a, j) = b BY <2>1 DEF ParentAt, b
  <2> QED BY <2>6, <2>7 DEF NearestParent, S
<1> QED BY <1>8, <1>9

LEMMA StackIs ==
  ASSUME NEW nodes, NEW part, NEW a, NEW s, RunAt(nodes, part, a, s), Climbs(part),
         NEW i \in 1..Len(part), NEW j, Above(part, i, j)
  PROVE  StackParent(nodes, a + i) = ParentAt(a, j)
<1> DEFINE n == Len(part)
           Last1 == {q \in a + 1..a + i - 1 :
                       /\ nodes[q].depth = nodes[a + i].depth - 1
                       /\ \A k \in q + 1..a + i - 1 : nodes[k].depth >= nodes[q].depth}
           S == {0} \cup Last1
<1>1. a \in Nat /\ n \in Nat /\ i \in 1..n /\ \A k \in 1..n : nodes[a + k].depth = part[k].depth
  BY DEF RunAt
<1>2. \A k \in 1..n : part[k].depth \in Nat BY DEF Climbs
<1>3. Before(nodes, a + i) = a + 1..a + i - 1 BY BeforeIs
<1>4. StackParent(nodes, a + i) = Max(S)
  <2> DEFINE c == a + i
  <2>0. c - 1 = a + i - 1 BY <1>1
  <2> HIDE DEF c
  <2>1. Before(nodes, c) = a + 1..c - 1 BY <1>3, <2>0 DEF c
  <2>2. StackParent(nodes, c) =
          Max({0} \cup {q \in a + 1..c - 1 :
                           /\ nodes[q].depth = nodes[c].depth - 1
                           /\ \A k \in q + 1..c - 1 : nodes[k].depth >= nodes[q].depth})
    BY <2>1, Zenon DEF StackParent
  <2> QED BY <2>0, <2>2 DEF c
<1> HIDE DEF n
<1>5. \A q \in a + 1..a + i - 1 : q - a \in 1..n /\ nodes[q].depth = part[q - a].depth
  <2> SUFFICES ASSUME NEW q \in a + 1..a + i - 1
               PROVE  q - a \in 1..n /\ nodes[q].depth = part[q - a].depth
    OBVIOUS
  <2>1. q - a \in 1..n /\ a + (q - a) = q BY <1>1
  <2> QED BY <1>1, <2>1
<1>6. nodes[a + i].depth = part[i].depth BY <1>1
<1>7. S \in SUBSET Int BY <1>1
<1>8. CASE part[i].depth = 0 /\ j = 0
  <2>1. ASSUME NEW q \in Last1 PROVE FALSE
    <3>1. nodes[q].depth = 0 - 1 /\ q \in a + 1..a + i - 1 BY <1>6, <1>8
    <3>2. nodes[q].depth \in Nat BY <1>2, <1>5, <3>1
    <3> QED BY <3>1, <3>2
  <2>2. S = {0} BY <2>1
  <2> HIDE DEF S
  <2>3. Max(S) = 0 BY <2>2, MaxIs
  <2> QED BY <1>4, <1>8, <2>3 DEF ParentAt
<1>9. CASE ~(part[i].depth = 0 /\ j = 0)
  <2>1. /\ j \in 1..i - 1 /\ part[j].depth = part[i].depth - 1
        /\ \A k \in j + 1..i - 1 : part[k].depth >= part[i].depth
    BY <1>9 DEF Above
  <2>2. j \in 1..n /\ a + j \in a + 1..a + i - 1 /\ nodes[a + j].depth = part[j].depth
    BY <1>1, <2>1
  <2> DEFINE b == a + j
  <2>3. ASSUME NEW k \in b + 1..a + i - 1 PROVE nodes[k].depth >= nodes[b].depth
    <3>1. k - a \in j + 1..i - 1 /\ k \in a + 1..a + i - 1 BY <1>1, <2>2
    <3>2. part[k - a].depth >= part[i].depth /\ nodes[k].depth = part[k - a].depth
      BY <1>5, <2>1, <3>1
    <3>3. part[i].depth \in Nat /\ part[k - a].depth \in Nat BY <1>1, <1>2, <1>5, <3>1
    <3>4. nodes[b].depth = part[i].depth - 1 BY <2>1, <2>2
    <3> QED BY ONLY <3>2, <3>3, <3>4
  <2>4. b \in Last1
    <3>1. b \in a + 1..a + i - 1 /\ nodes[b].depth = nodes[a + i].depth - 1
      BY <1>6, <2>1, <2>2
    <3> HIDE DEF b
    <3> QED BY <2>3, <3>1
  <2>5. ASSUME NEW q \in S PROVE q <= b
    <3>1. CASE q = 0 BY <1>1, <2>2, <3>1
    <3>2. CASE q # 0
      <4>1. q \in a + 1..a + i - 1 /\ nodes[q].depth = part[i].depth - 1 BY <1>6, <3>2
      <4>2. SUFFICES ASSUME q > b PROVE FALSE BY <1>1, <2>2, <4>1
      <4>3. q - a \in j + 1..i - 1 BY <1>1, <2>2, <4>1, <4>2
      <4>4. nodes[q].depth >= part[i].depth BY <1>5, <2>1, <4>1, <4>3
      <4>7. part[i].depth \in Nat BY <1>1, <1>2
      <4> QED BY <4>1, <4>4, <4>7
    <3> QED BY <3>1, <3>2
  <2>6. b \in S BY <2>4
  <2> HIDE DEF S, b, Last1
  <2>7. Max(S) = b BY <1>7, <2>5, <2>6, MaxIs
  <2>8. ParentAt(a, j) = b BY <2>1 DEF ParentAt, b
  <2> QED BY <1>4, <2>7, <2>8
<1> QED BY <1>8, <1>9

\* What flattenState does with a depth, when the node above is at depth above.
Flatter(nodes, i, above) ==
  IF Before(nodes, i) = {} THEN 0
  ELSE IF nodes[i].depth <= above + 1 THEN nodes[i].depth ELSE above + 1

FlatAs(nodes, depth) ==
  /\ Flat(nodes) = [i \in DOMAIN nodes |-> [nodes[i] EXCEPT !.depth = depth[i]]]
  /\ \A i \in 1..Len(nodes) : depth[i] = Flatter(nodes, i, depth[i - 1])

LEMMA FlatExists ==
  ASSUME NEW nodes, IsSeq(nodes), \A i \in 1..Len(nodes) : nodes[i].depth \in Nat
  PROVE  \E depth : FlatAs(nodes, depth)
<1> DEFINE n == Len(nodes)
           step == [x \in (1..n) \X Nat |-> Flatter(nodes, x[1], x[2])]
           Rec(f) == f = [i \in 1..n |-> Flatter(nodes, i, f[i - 1])]
<1>1. n \in Nat BY SeqIs
<1>2. step \in [(1..n) \X Nat -> Nat]
  <2> SUFFICES ASSUME NEW i \in 1..n, NEW v \in Nat PROVE Flatter(nodes, i, v) \in Nat OBVIOUS
  <2>1. nodes[i].depth \in Nat OBVIOUS
  <2>2. v + 1 \in Nat OBVIOUS
  <2> QED BY <2>1, <2>2 DEF Flatter
<1>3. \A i \in 1..n : \A v \in Nat : step[<<i, v>>] = Flatter(nodes, i, v) OBVIOUS
<1> HIDE DEF step
<1>4. PICK g \in [0..n -> Nat] : Stepped(g, n, 0, step) BY <1>1, <1>2, StepsExist
<1>5. \A i \in 1..n : i - 1 \in 0..n /\ g[i - 1] \in Nat /\ g[i] = Flatter(nodes, i, g[i - 1])
  <2>1. \A i \in 1..n : i - 1 \in 0..n /\ g[i - 1] \in Nat BY <1>1, <1>4
  <2>2. \A i \in 1..n : g[i] = step[<<i, g[i - 1]>>] BY <1>4 DEF Stepped
  <2> QED BY <1>3, <2>1, <2>2
<1> DEFINE f == [i \in 1..n |-> g[i]]
<1>6. Rec(f)
  <2> SUFFICES ASSUME NEW i \in 1..n PROVE f[i] = Flatter(nodes, i, f[i - 1]) OBVIOUS
  <2>1. CASE i = 1
    <3>1. Before(nodes, i) = {} BY <2>1 DEF Before
    <3> QED BY <1>5, <3>1 DEF Flatter
  <2>2. CASE i # 1
    <3>1. i - 1 \in 1..n BY <1>1, <2>2
    <3>2. f[i - 1] = g[i - 1] BY <3>1
    <3> QED BY <1>5, <3>2
  <2> QED BY <2>1, <2>2
<1> DEFINE depth == CHOOSE h : Rec(h)
<1>7. Rec(depth)
  <2> HIDE DEF Rec, f
  <2> QED BY <1>6
<1>8. Flat(nodes) = [i \in DOMAIN nodes |-> [nodes[i] EXCEPT !.depth = depth[i]]]
  BY DEF Flat, Flatter
<1> HIDE DEF depth
<1>9. \A i \in 1..n : depth[i] = Flatter(nodes, i, depth[i - 1]) BY <1>7
<1> QED BY <1>8, <1>9 DEF FlatAs

LEMMA FlatKeeps ==
  ASSUME NEW nodes, IsSeq(nodes),
         \A i \in 1..Len(nodes) : IsNode(nodes[i]) /\ nodes[i].depth \in Nat,
         NEW part, NEW a, NEW s, RunAt(nodes, part, a, s), Climbs(part), a + Len(part) <= Len(nodes)
  PROVE  RunAt(Flat(nodes), part, a, s)
<1> DEFINE n == Len(nodes)
           c == Len(part)
           new == Flat(nodes)
<1>1. PICK depth : FlatAs(nodes, depth)
  <2>1. \A i \in 1..Len(nodes) : nodes[i].depth \in Nat OBVIOUS
  <2> QED BY <2>1, FlatExists
<1>2. /\ a \in Nat /\ c \in Nat /\ n \in Nat /\ DOMAIN nodes = 1..n /\ a + c <= n
      /\ \A k \in 1..c : nodes[a + k].depth = part[k].depth
  BY SeqIs DEF RunAt
<1>3. \A i \in 1..n : new[i] = [nodes[i] EXCEPT !.depth = depth[i]] BY <1>1, <1>2 DEF FlatAs
<1>4. \A i \in 1..n : depth[i] = Flatter(nodes, i, depth[i - 1]) BY <1>1 DEF FlatAs
<1>5. \A i \in 1..n : new[i].section = nodes[i].section /\ new[i].depth = depth[i]
  <2> SUFFICES ASSUME NEW i \in 1..n
               PROVE  new[i].section = nodes[i].section /\ new[i].depth = depth[i]
    OBVIOUS
  <2>1. IsNode(nodes[i]) OBVIOUS
  <2> HIDE DEF new
  <2> QED BY <1>3, <2>1 DEF IsNode
<1> HIDE DEF new
<1> DEFINE G == {k \in 0..c : k = 0 \/ depth[a + k] = part[k].depth}
<1>6. 0 \in G BY <1>2
<1>7. ASSUME NEW k \in 1..c, k - 1 \in G PROVE k \in G
  <2>1. /\ a + k \in 1..n /\ part[k].depth \in Nat
        /\ part[k].depth <= (IF k = 1 THEN 0 ELSE part[k - 1].depth + 1)
    BY <1>2 DEF Climbs
  <2>2. Before(nodes, a + k) = a + 1..a + k - 1 BY BeforeIs
  <2>3. depth[a + k] = Flatter(nodes, a + k, depth[a + k - 1])
    <3>1. (a + k) - 1 = a + k - 1 BY <1>2
    <3> QED BY <1>4, <2>1, <3>1
  <2>4. nodes[a + k].depth = part[k].depth BY <1>2
  <2>5. CASE k = 1
    <3>1. Before(nodes, a + k) = {} BY <1>2, <2>2, <2>5
    <3>2. depth[a + k] = 0 BY <2>3, <3>1 DEF Flatter
    <3>3. part[k].depth = 0 BY <2>1, <2>5
    <3> QED BY <3>2, <3>3
  <2>6. CASE k # 1
    <3>1. a + 1 \in Before(nodes, a + k) BY <1>2, <2>2, <2>6
    <3>2. depth[a + (k - 1)] = part[k - 1].depth BY <1>7, <2>6
    <3>3. depth[a + k] = IF part[k].depth <= depth[a + k - 1] + 1 THEN part[k].depth
                         ELSE depth[a + k - 1] + 1
      BY <2>3, <2>4, <3>1 DEF Flatter
    <3>4. depth[a + k] = part[k].depth BY <2>1, <2>6, <3>2, <3>3
    <3> QED BY <3>4
  <2> QED BY <2>5, <2>6
<1>8. \A k \in 1..c : depth[a + k] = part[k].depth
  <2> HIDE DEF G
  <2>1. \A k \in 0..c : k \in G BY <1>2, <1>6, <1>7, CountUp
  <2> QED BY <2>1 DEF G
<1>9. \A k \in 1..c : new[a + k].depth = part[k].depth
  <2> SUFFICES ASSUME NEW k \in 1..c PROVE new[a + k].depth = part[k].depth OBVIOUS
  <2>1. a + k \in 1..n BY <1>2
  <2> QED BY <1>5, <1>8, <2>1
<1>10. \A p \in 1..a + c : new[p].section = s <=> p > a
  <2> SUFFICES ASSUME NEW p \in 1..a + c PROVE new[p].section = s <=> p > a OBVIOUS
  <2>1. p \in 1..n BY <1>2
  <2>2. nodes[p].section = s <=> p > a BY DEF RunAt
  <2>3. new[p].section = nodes[p].section BY <1>5, <2>1
  <2> QED BY <2>2, <2>3
<1>11. RunAt(new, part, a, s) BY <1>2, <1>9, <1>10 DEF RunAt
<1> QED BY <1>11 DEF new

\* Where a node is in its section.
Found(nodes, part, s, a, r, i) ==
  /\ RunAt(nodes, part, a, s) /\ a + Len(part) <= Len(nodes)
  /\ r \in 1..Len(part) /\ i = a + r
  /\ \A k \in 1..Len(part) : nodes[a + k] = part[k]

LEMMA SectionRun ==
  ASSUME OrderAssumption, NEW nodes, NEW parts, NestedParts(parts), nodes = FlattenSeq(parts),
         NEW i \in 1..Len(nodes)
  PROVE  \E m \in 1..Len(SectionOrder) : \E a, r : Found(nodes, parts[m], SectionOrder[m], a, r, i)
<1> DEFINE n == Len(SectionOrder)
<1>1. /\ parts = [m \in 1..n |-> parts[m]] /\ n \in Nat
      /\ \A m \in 1..n : Nested(parts[m], SectionOrder[m]) /\ IsSeq(parts[m])
  BY DEF NestedParts, Nested
<1>2. \A p, m \in 1..n : SectionOrder[p] = SectionOrder[m] => p = m BY SectionsDiffer
<1> HIDE DEF n
<1>3. PICK off : Joins(parts, n, nodes, off) BY <1>1, FlattenIsSeq
<1>4. ASSUME NEW m \in 1..n PROVE PartAt(parts, n, nodes, off, m) BY <1>1, <1>3, JoinedPart
<1>5. Len(nodes) = off[n] /\ Covered(parts, n, off) /\ Len(nodes) \in Nat BY <1>3, SeqIs DEF Joins
<1>6. PICK m \in 1..n : i - off[m - 1] \in 1..Len(parts[m]) BY <1>5 DEF Covered
<1> DEFINE a == off[m - 1]
           r == i - a
           part == parts[m]
           s == SectionOrder[m]
<1>7. /\ a \in Nat /\ Len(part) \in Nat /\ a + Len(part) <= Len(nodes) /\ off[m] = a + Len(part)
      /\ \A k \in 1..Len(part) : nodes[a + k] = part[k]
  BY <1>4 DEF PartAt
<1>8. r \in 1..Len(part) /\ i = a + r BY <1>6, <1>7
<1>9. \A k \in 1..Len(part) : part[k].section = s BY <1>1 DEF Nested
<1>10. ASSUME NEW p \in 1..a + Len(part) PROVE nodes[p].section = s <=> p > a
  <2>1. ASSUME p > a PROVE nodes[p].section = s
    <3>1. p - a \in 1..Len(part) /\ a + (p - a) = p BY <1>7, <2>1
    <3>2. nodes[p] = part[p - a] BY <1>7, <3>1
    <3> QED BY <1>9, <3>1, <3>2
  <2>2. ASSUME nodes[p].section = s PROVE p > a
    <3>1. p \in 1..off[n] BY <1>5, <1>7
    <3>2. PICK q \in 1..n : p - off[q - 1] \in 1..Len(parts[q]) BY <1>5, <3>1 DEF Covered
    <3> DEFINE b == off[q - 1]
               k == p - b
    <3>3. b \in Nat /\ \A x \in 1..Len(parts[q]) : nodes[b + x] = parts[q][x]
      BY <1>4 DEF PartAt
    <3>4. k \in 1..Len(parts[q]) /\ b + k = p BY <3>2, <3>3
    <3>5. nodes[p] = parts[q][k] BY <3>3, <3>4
    <3>6. parts[q][k].section = SectionOrder[q] BY <1>1, <3>4 DEF Nested
    <3>7. q = m BY <1>2, <2>2, <3>5, <3>6
    <3>8. b = a BY <3>7
    <3>9. p - a \in 1..Len(part) BY <3>2, <3>7
    <3> QED BY <1>7, <3>9
  <2> QED BY <2>1, <2>2
<1>11. RunAt(nodes, part, a, s) BY <1>7, <1>10 DEF RunAt
<1>12. Found(nodes, part, s, a, r, i) BY <1>7, <1>8, <1>11 DEF Found
<1> QED BY <1>12 DEF n

-----------------------------------------------------------------------------
(* The lines of a section.                                                 *)

\* The lines of section s that are items, and those that are its headings.
ItemsOf(lines, read, s) == {p \in 1..Len(lines) : ~IsHeading(lines[p]) /\ read[p].section = s}
HeadingsOf(lines, s) == {p \in DOMAIN lines : IsHeading(lines[p]) /\ lines[p].heading = s}

\* Line p is in the section whose heading is line h.
Under(lines, read, s, h, p) ==
  /\ h \in HeadingsOf(lines, s) /\ h <= p
  /\ h + 1..p \subseteq ItemsOf(lines, read, s)

LEMMA UnderHeading ==
  ASSUME NEW lines, IsDoc(lines), NEW read, Reads(lines, read), NEW s, s # None
  PROVE  \A p \in 0..Len(lines) :
           read[p + 1].section = s => \E h \in 1..Len(lines) : Under(lines, read, s, h, p)
<1> DEFINE n == Len(lines)
           Good(p) == read[p + 1].section = s => \E h \in 1..n : Under(lines, read, s, h, p)
           G == {p \in 0..n : Good(p)}
<1>1. n \in Nat /\ DOMAIN lines = 1..n BY SeqIs DEF IsDoc
<1>2. 0 \in G
  <2>1. read[0 + 1].section = None BY DEF Reads
  <2> QED BY <1>1, <2>1
<1>3. ASSUME NEW p \in 1..n, p - 1 \in G PROVE p \in G
  <2> SUFFICES ASSUME read[p + 1].section = s
               PROVE  \E h \in 1..n : Under(lines, read, s, h, p)
    BY <1>1
  <2>1. read[p + 1] = ParseLine(read[p], lines[p]) /\ read[p] \in Known
    <3>1. p \in 1..Len(lines) + 1 BY <1>1
    <3> QED BY <3>1 DEF Reads
  <2>2. CASE IsHeading(lines[p])
    <3>1. lines[p].heading = s BY <2>1, <2>2 DEF ParseLine
    <3>2. p + 1..p = {} BY <1>1
    <3>3. Under(lines, read, s, p, p) BY <1>1, <2>2, <3>1, <3>2 DEF Under, HeadingsOf
    <3> QED BY <3>3
  <2>3. CASE ~IsHeading(lines[p])
    <3>1. read[p + 1].section = read[p].section BY <2>1, <2>3 DEF ParseLine, Known
    <3>2. (p - 1) + 1 = p BY <1>1
    <3>3. read[(p - 1) + 1].section = s BY <3>1, <3>2
    <3>4. PICK h \in 1..n : Under(lines, read, s, h, p - 1) BY <1>3, <3>3
    <3>5. p \in ItemsOf(lines, read, s) BY <2>3, <3>1 DEF ItemsOf
    <3>6. h + 1..p \subseteq ItemsOf(lines, read, s)
      <4> SUFFICES ASSUME NEW x \in h + 1..p PROVE x \in ItemsOf(lines, read, s) OBVIOUS
      <4>1. x = p \/ x \in h + 1..p - 1 BY <1>1
      <4> QED BY <3>4, <3>5, <4>1 DEF Under
    <3>7. h <= p BY <1>1, <3>4 DEF Under
    <3>8. Under(lines, read, s, h, p) BY <3>4, <3>6, <3>7 DEF Under
    <3> QED BY <3>8
  <2> QED BY <2>2, <2>3
<1>4. \A p \in 0..n : p \in G
  <2> HIDE DEF G
  <2> QED BY <1>1, <1>2, <1>3, CountUp
<1> QED BY <1>4

\* The items of a section that has one heading are the lines after it.
OneRun(lines, read, s, h, c) ==
  /\ h \in Nat /\ c \in Nat /\ h + c <= Len(lines)
  /\ ItemsOf(lines, read, s) = h + 1..h + c
  /\ c # 0 => h \in 1..Len(lines) /\ IsHeading(lines[h]) /\ lines[h].heading = s

LEMMA OneHeading ==
  ASSUME NEW S, IsFiniteSet(S), Cardinality(S) <= 1, NEW x \in S, NEW y \in S PROVE x = y
<1>1. {x, y} \subseteq S OBVIOUS
<1>2. IsFiniteSet({x, y}) /\ Cardinality({x, y}) <= Cardinality(S) BY <1>1, FS_Subset
<1>3. Cardinality(S) \in Nat /\ Cardinality({x, y}) \in Nat BY <1>2, FS_CardinalityType
<1>4. x # y => Cardinality({x, y}) = 2
  <2> SUFFICES ASSUME x # y PROVE Cardinality({x, y}) = 2 OBVIOUS
  <2>1. IsFiniteSet({x}) /\ Cardinality({x}) = 1 BY FS_Singleton
  <2>2. y \notin {x} /\ {x, y} = {x} \cup {y} OBVIOUS
  <2>3. Cardinality({x} \cup {y}) = Cardinality({x}) + 1 BY <2>1, <2>2, FS_AddElement
  <2> QED BY <2>1, <2>2, <2>3
<1> QED BY <1>2, <1>3, <1>4

LEMMA SectionIsRun ==
  ASSUME NEW lines, IsDoc(lines), NEW read, Reads(lines, read), NEW s, s # None,
         Cardinality(HeadingsOf(lines, s)) <= 1
  PROVE  \E h, c : OneRun(lines, read, s, h, c)
<1> DEFINE n == Len(lines)
           I == ItemsOf(lines, read, s)
<1>1. n \in Nat /\ DOMAIN lines = 1..n /\ IsFiniteSet(DOMAIN lines) BY SeqIs DEF IsDoc
<1>2. I \subseteq 1..n BY DEF ItemsOf
<1>3. IsFiniteSet(HeadingsOf(lines, s))
  <2>1. HeadingsOf(lines, s) \subseteq DOMAIN lines BY DEF HeadingsOf
  <2> QED BY <1>1, <2>1, FS_Subset
<1>4. ASSUME NEW p \in I PROVE \E h \in 1..n : Under(lines, read, s, h, p)
  <2>1. p \in 1..n /\ ~IsHeading(lines[p]) /\ read[p].section = s BY DEF ItemsOf
  <2>2. p - 1 \in 0..n /\ (p - 1) + 1 = p BY <1>1, <2>1
  <2>3. read[(p - 1) + 1].section = s BY <2>1, <2>2
  <2>4. PICK h \in 1..n : Under(lines, read, s, h, p - 1) BY <2>2, <2>3, UnderHeading
  <2>5. h <= p BY <2>1, <2>4 DEF Under
  <2>6. h + 1..p \subseteq I
    <3> SUFFICES ASSUME NEW x \in h + 1..p PROVE x \in I OBVIOUS
    <3>1. x = p \/ x \in h + 1..p - 1 BY <1>1, <2>1
    <3> QED BY <2>4, <3>1 DEF Under
  <2>7. Under(lines, read, s, h, p) BY <2>4, <2>5, <2>6 DEF Under
  <2> QED BY <2>7
<1> HIDE DEF I
<1>5. CASE I = {}
  <2>1. {} = 0 + 1..0 + 0 OBVIOUS
  <2>2. OneRun(lines, read, s, 0, 0) BY <1>1, <1>5, <2>1 DEF OneRun, I
  <2> QED BY <2>2
<1>6. CASE I # {}
  <2>1. PICK q \in I : TRUE BY <1>6
  <2>2. PICK h \in 1..n : Under(lines, read, s, h, q) BY <1>4
  <2>3. h \in HeadingsOf(lines, s) BY <2>2 DEF Under
  <2>4. ASSUME NEW p \in I PROVE h < p /\ h + 1..p \subseteq I
    <3>1. PICK g \in 1..n : Under(lines, read, s, g, p) BY <1>4
    <3>2. g = h BY <1>3, <2>3, <3>1, OneHeading DEF Under
    <3>3. h <= p /\ h + 1..p \subseteq I BY <3>1, <3>2 DEF Under, I
    <3>4. h # p BY <2>3 DEF HeadingsOf, I, ItemsOf
    <3>5. p \in 1..n BY <1>2
    <3> QED BY <3>3, <3>4, <3>5
  <2> DEFINE Upto(k) == \E c \in 0..k : {p \in I : p <= h + k} = h + 1..h + c
             G == {k \in 0..n - h : Upto(k)}
  <2>5. Upto(0)
    <3>1. \A p \in I : p \in Int /\ h < p BY <1>2, <2>4
    <3>2. {p \in I : p <= h + 0} = {} BY <3>1
    <3>3. h + 1..h + 0 = {} OBVIOUS
    <3> QED BY <3>2, <3>3
  <2>6. ASSUME NEW k \in 1..n - h, Upto(k - 1) PROVE Upto(k)
    <3>1. \A p \in I : p \in Int BY <1>2
    <3>2. CASE h + k \in I
      <4>1. h + 1..h + k \subseteq I BY <2>4, <3>2
      <4>2. ASSUME NEW p \in I, p <= h + k PROVE p \in h + 1..h + k
        <5>1. h < p /\ p \in Int BY <2>4, <3>1
        <5> QED BY <4>2, <5>1
      <4>3. {p \in I : p <= h + k} = h + 1..h + k BY <4>1, <4>2
      <4>4. k \in 0..k BY <1>1
      <4> QED BY <4>3, <4>4
    <3>3. CASE h + k \notin I
      <4>1. PICK c \in 0..k - 1 : {p \in I : p <= h + (k - 1)} = h + 1..h + c BY <2>6
      <4>2. \A p \in I : p <= h + k <=> p <= h + (k - 1)
        <5> SUFFICES ASSUME NEW p \in I PROVE p <= h + k <=> p <= h + (k - 1) OBVIOUS
        <5>1. p \in Int /\ p # h + k BY <3>1, <3>3
        <5> QED BY <5>1
      <4>3. {p \in I : p <= h + k} = h + 1..h + c BY <4>1, <4>2
      <4>4. c \in 0..k BY <1>1
      <4> QED BY <4>3, <4>4
    <3> QED BY <3>2, <3>3
  <2>7. Upto(n - h)
    <3>1. n - h \in Nat /\ n - h \in 0..n - h BY <1>1
    <3>2. 0 \in G BY <2>5, <3>1
    <3>3. \A k \in 1..n - h : k - 1 \in G => k \in G
      <4> SUFFICES ASSUME NEW k \in 1..n - h, k - 1 \in G PROVE k \in G OBVIOUS
      <4>1. Upto(k - 1) /\ k \in 0..n - h OBVIOUS
      <4>2. Upto(k) BY <2>6, <4>1
      <4> HIDE DEF Upto
      <4> QED BY <4>1, <4>2
    <3> HIDE DEF G, Upto
    <3>4. \A k \in 0..n - h : k \in G BY ONLY <3>1, <3>2, <3>3, CountUp
    <3> QED BY <3>1, <3>4 DEF G
  <2>8. PICK c \in 0..n - h : {p \in I : p <= h + (n - h)} = h + 1..h + c BY <2>7
  <2>9. \A p \in I : p <= h + (n - h) BY <1>1, <1>2
  <2>10. I = h + 1..h + c BY <2>8, <2>9
  <2>11. h \in Nat /\ c \in Nat /\ h + c <= n BY <1>1
  <2>12. OneRun(lines, read, s, h, c) BY <1>1, <2>3, <2>10, <2>11 DEF OneRun, HeadingsOf, I
  <2> QED BY <2>12
<1> QED BY <1>5, <1>6

\* The nodes of such a section: node i is line h + i.
Lined(part, read, h) ==
  /\ Len(part) \in Nat
  /\ \A i \in 1..Len(part) :
       part[i].at = h + i /\ part[i].depth = Len(read[h + i + 1].levels) - 1

LEMMA PartIsLined ==
  ASSUME NEW lines, IsDoc(lines), NEW m \in DOMAIN SectionOrder,
         NEW h, NEW c, OneRun(lines, Read(lines), SectionOrder[m], h, c)
  PROVE  Lined(PartsOf(lines)[m], Read(lines), h) /\ Len(PartsOf(lines)[m]) = c
<1> DEFINE read == Read(lines)
           items == {p \in DOMAIN lines : ~IsHeading(lines[p])}
           node == [p \in items |-> NodeOf(lines[p], read[p].section, Len(read[p + 1].levels) - 1, p)]
           I == {p \in items : read[p].section = SectionOrder[m]}
           part == Picked(node, I)
<1>1. PartsOf(lines)[m] = part BY DEF PartsOf
<1> HIDE DEF read
<1>2. DOMAIN lines = 1..Len(lines) BY SeqIs DEF IsDoc
<1>3. I = ItemsOf(lines, read, SectionOrder[m]) BY <1>2 DEF ItemsOf
<1>4. h \in Nat /\ c \in Nat /\ I = h + 1..h + c BY <1>3 DEF OneRun, read
<1>5. \A p \in I : p \in items /\ node[p].at = p /\ node[p].depth = Len(read[p + 1].levels) - 1
  BY DEF NodeOf
<1> HIDE DEF node, I
<1>6. part = Stretch(node, h, c) BY <1>4, PickedRange
<1> HIDE DEF part
<1>7. part = [i \in 1..c |-> part[i]] /\ \A i \in 1..c : part[i] = node[h + i] BY <1>6 DEF Stretch
<1>8. Len(part) = c BY <1>4, <1>7, FunctionIsSeq
<1>9. ASSUME NEW i \in 1..c
      PROVE  part[i].at = h + i /\ part[i].depth = Len(read[h + i + 1].levels) - 1
  <2>1. h + i \in I BY <1>4
  <2> QED BY <1>5, <1>7, <2>1
<1>10. Lined(part, read, h) BY <1>4, <1>8, <1>9 DEF Lined
<1> QED BY <1>1, <1>8, <1>10 DEF read

-----------------------------------------------------------------------------
(* What the viewer shows.                                                  *)

View == [at : Nat, section : Range(SectionOrder) \cup {None}, levels : Levels,
         stack : Seq(Nat), parents : SUBSET (Nat \X Nat)]

Shows(lines, shown) ==
  /\ shown \in [0..Len(lines) -> View]
  /\ shown[0] = [at |-> 1, section |-> None, levels |-> <<0>>, stack |-> <<>>, parents |-> {}]
  /\ \A p \in 1..Len(lines) : shown[p] = ViewerLine(shown[p - 1], lines[p])
  /\ ViewerTree(lines) = shown[Len(lines)].parents

\* What an item of a section does.
Opened(acc, line) == Open(acc.levels, line.indent)
Level1(acc, line) == Len(Opened(acc, line)) - 1
Rest(acc, line) ==
  SubSeq(acc.stack, 1, IF Level1(acc, line) < Len(acc.stack) THEN Level1(acc, line)
                       ELSE Len(acc.stack))

LEMMA ViewerItem ==
  ASSUME NEW acc \in View, NEW line, IsItem(line), acc.section # None
  PROVE  LET levels == Opened(acc, line)
             depth  == Level1(acc, line)
             above  == Rest(acc, line)
         IN  ViewerLine(acc, line) =
               [at |-> acc.at + 1, section |-> acc.section, levels |-> levels,
                stack |-> IF Len(above) < depth THEN above ELSE Append(above, acc.at),
                parents |-> IF Len(above) < depth THEN acc.parents
                            ELSE acc.parents \cup
                                   {<<acc.at, IF depth = 0 THEN 0 ELSE Last(above)>>}]
<1>1. ~IsHeading(line) BY LinesAre
<1>2. acc = [at |-> acc.at, section |-> acc.section, levels |-> acc.levels,
             stack |-> acc.stack, parents |-> acc.parents]
  BY DEF View
<1> DEFINE levels == Opened(acc, line)
           depth  == Level1(acc, line)
           above  == Rest(acc, line)
           stack  == IF Len(above) < depth THEN above ELSE Append(above, acc.at)
           parents == IF Len(above) < depth THEN acc.parents
                      ELSE acc.parents \cup {<<acc.at, IF depth = 0 THEN 0 ELSE Last(above)>>}
<1>3. ViewerLine(acc, line) =
        [acc EXCEPT !.at = acc.at + 1, !.levels = levels, !.stack = stack, !.parents = parents]
  BY <1>1 DEF ViewerLine, Opened, Level1, Rest
<1> HIDE DEF levels, stack, parents, depth, above
<1>4. ViewerLine(acc, line) =
        [at |-> acc.at + 1, section |-> acc.section, levels |-> levels, stack |-> stack,
         parents |-> parents]
  BY <1>2, <1>3
<1> QED BY <1>4 DEF levels, stack, parents, depth, above

LEMMA ViewerLineIs ==
  ASSUME NEW acc \in View, NEW line, IsLine(line)
  PROVE  ViewerLine(acc, line) \in View
<1>0. /\ acc.at \in Nat /\ acc.section \in Range(SectionOrder) \cup {None} /\ acc.levels \in Levels
      /\ acc.stack \in Seq(Nat) /\ acc.parents \in SUBSET (Nat \X Nat)
  BY DEF View
<1>1. CASE \E s \in Range(SectionOrder) \cup {None} : line = Heading(s)
  <2>1. IsHeading(line) /\ line.heading \in Range(SectionOrder) \cup {None} BY <1>1, LinesAre
  <2>2. ViewerLine(acc, line) = [acc EXCEPT !.at = acc.at + 1, !.section = line.heading,
                                            !.levels = <<0>>, !.stack = <<>>]
    BY <2>1 DEF ViewerLine
  <2>3. <<0>> \in Levels /\ <<>> \in Seq(Nat) /\ acc.at + 1 \in Nat BY <1>0, MarginIs
  <2> QED BY <2>1, <2>2, <2>3 DEF View
<1>2. CASE IsItem(line) /\ acc.section = None
  <2>1. ~IsHeading(line) BY <1>2, LinesAre
  <2>2. ViewerLine(acc, line) = [acc EXCEPT !.at = acc.at + 1] BY <1>2, <2>1 DEF ViewerLine
  <2>3. acc.at + 1 \in Nat BY <1>0
  <2> QED BY <2>2, <2>3 DEF View
<1>3. CASE IsItem(line) /\ acc.section # None
  <2> DEFINE levels == Opened(acc, line)
             depth  == Level1(acc, line)
             above  == Rest(acc, line)
             stack  == IF Len(above) < depth THEN above ELSE Append(above, acc.at)
             parents == IF Len(above) < depth THEN acc.parents
                        ELSE acc.parents \cup {<<acc.at, IF depth = 0 THEN 0 ELSE Last(above)>>}
  <2>1. ViewerLine(acc, line) =
          [at |-> acc.at + 1, section |-> acc.section, levels |-> levels, stack |-> stack,
           parents |-> parents]
    BY <1>3, ViewerItem
  <2>2. levels \in Levels BY <1>0, <1>3, LinesAre, OpenIs DEF Opened
  <2>3. depth \in Nat
    <3>1. Len(levels) \in Nat /\ Len(levels) >= 1 BY <2>2 DEF Levels
    <3> HIDE DEF levels
    <3> QED BY <3>1 DEF Level1, levels
  <2>4. above \in Seq(Nat)
    <3> DEFINE k == IF depth < Len(acc.stack) THEN depth ELSE Len(acc.stack)
    <3>1. above = SubSeq(acc.stack, 1, k) BY DEF Rest
    <3>2. Len(acc.stack) \in Nat BY <1>0
    <3> HIDE DEF depth
    <3>3. k \in 0..Len(acc.stack) BY <2>3, <3>2
    <3> HIDE DEF k, above
    <3> QED BY <1>0, <3>1, <3>2, <3>3
  <2> HIDE DEF levels, depth, above
  <2>5. stack \in Seq(Nat) BY <1>0, <2>4
  <2>6. parents \in SUBSET (Nat \X Nat)
    <3>1. CASE Len(above) < depth BY <1>0, <3>1
    <3>2. CASE ~(Len(above) < depth) /\ depth = 0 BY <1>0, <3>2
    <3>3. CASE ~(Len(above) < depth) /\ depth # 0
      <4>1. Len(above) \in 1..Len(above) BY <2>3, <2>4, <3>3
      <4>2. Last(above) \in Nat BY <2>4, <4>1 DEF Last
      <4> QED BY <1>0, <3>3, <4>2
    <3> QED BY <3>1, <3>2, <3>3
  <2> HIDE DEF stack, parents
  <2>7. acc.at + 1 \in Nat BY <1>0
  <2> QED BY <1>0, <2>1, <2>2, <2>5, <2>6, <2>7 DEF View
<1> QED BY <1>1, <1>2, <1>3 DEF IsLine

LEMMA ShowsExists ==
  ASSUME NEW lines, IsDoc(lines)
  PROVE  \E shown : Shows(lines, shown)
<1> DEFINE n == Len(lines)
           start == [at |-> 1, section |-> None, levels |-> <<0>>, stack |-> <<>>, parents |-> {}]
           step == [x \in (1..n) \X View |-> ViewerLine(x[2], lines[x[1]])]
           Rec(f) == f = [i \in 0..n |-> IF i = 0 THEN start ELSE ViewerLine(f[i - 1], lines[i])]
<1>1. n \in Nat BY SeqIs DEF IsDoc
<1>2. start \in View
  <2>1. <<0>> \in Levels /\ <<>> \in Seq(Nat) BY MarginIs
  <2> QED BY <2>1 DEF View
<1>3. step \in [(1..n) \X View -> View]
  <2>1. \A x \in (1..n) \X View : x[2] \in View /\ IsLine(lines[x[1]]) BY DEF IsDoc
  <2>2. \A x \in (1..n) \X View : ViewerLine(x[2], lines[x[1]]) \in View BY <2>1, ViewerLineIs
  <2> QED BY <2>2
<1>4. \A i \in 1..n : \A acc \in View : step[<<i, acc>>] = ViewerLine(acc, lines[i]) OBVIOUS
<1> HIDE DEF step, start
<1>5. PICK g \in [0..n -> View] : Stepped(g, n, start, step)
  <2> HIDE DEF n
  <2> QED BY <1>1, <1>2, <1>3, StepsExist
<1>6. g[0] = start /\ \A i \in 1..n : g[i] = ViewerLine(g[i - 1], lines[i])
  <2>1. \A i \in 1..n : g[i - 1] \in View BY <1>1, <1>5
  <2> QED BY <1>4, <1>5, <2>1 DEF Stepped
<1>7. Rec(g)
  <2>1. \A i \in 0..n : i = 0 \/ i \in 1..n BY <1>1
  <2>2. \A i \in 0..n : g[i] = IF i = 0 THEN start ELSE ViewerLine(g[i - 1], lines[i])
    BY <1>6, <2>1
  <2>3. g = [i \in 0..n |-> g[i]] BY <1>5
  <2> HIDE DEF n
  <2> QED BY <2>2, <2>3
<1> DEFINE f == CHOOSE h : Rec(h)
<1>8. Rec(f)
  <2> HIDE DEF Rec
  <2> QED BY <1>7
<1>9. ViewerTree(lines) = f[n].parents BY DEF ViewerTree, start
<1>10. DOMAIN f = 0..n /\ \A i \in 0..n : f[i] = IF i = 0 THEN start ELSE ViewerLine(f[i - 1], lines[i])
  <2> HIDE DEF f
  <2> QED BY <1>8
<1> HIDE DEF f, Rec
<1> DEFINE G == {i \in 0..n : f[i] = g[i]}
<1>11. 0 \in G BY <1>1, <1>6, <1>10
<1>12. ASSUME NEW i \in 1..n, i - 1 \in G PROVE i \in G
  <2>1. i \in 0..n /\ i # 0 /\ f[i - 1] = g[i - 1] BY <1>1, <1>12
  <2> QED BY <1>6, <1>10, <2>1
<1>13. n \in G
  <2> HIDE DEF G
  <2>1. \A i \in 0..n : i \in G BY <1>1, <1>11, <1>12, CountUp
  <2> QED BY <1>1, <2>1
<1>14. ViewerTree(lines) = g[n].parents BY <1>9, <1>13
<1>15. Shows(lines, g) BY <1>5, <1>6, <1>14 DEF Shows, start
<1> QED BY <1>15

\* Both know as much after line p.
Agree(read, shown, p) ==
  /\ shown[p].at = p + 1 /\ shown[p].section = read[p + 1].section
  /\ shown[p].section # None => shown[p].levels = read[p + 1].levels

LEMMA AgreeAlways ==
  ASSUME NEW lines, IsDoc(lines), NEW read, Reads(lines, read), NEW shown, Shows(lines, shown)
  PROVE  \A p \in 0..Len(lines) : Agree(read, shown, p)
<1> DEFINE n == Len(lines)
           G == {p \in 0..n : Agree(read, shown, p)}
<1>1. n \in Nat BY SeqIs DEF IsDoc
<1>2. 0 \in G
  <2>1. read[0 + 1] = read[1] OBVIOUS
  <2>2. read[1].section = None BY DEF Reads
  <2> QED BY <1>1, <2>1, <2>2 DEF Agree, Shows
<1>3. ASSUME NEW p \in 1..n, p - 1 \in G PROVE p \in G
  <2> DEFINE acc == shown[p - 1]
             line == lines[p]
  <2>1. p - 1 \in 0..n /\ (p - 1) + 1 = p /\ p \in 1..n + 1 BY <1>1
  <2>2. acc \in View /\ shown[p] = ViewerLine(acc, line) BY <2>1 DEF Shows
  <2>3. read[p] \in Known /\ read[p + 1] = ParseLine(read[p], line) BY <2>1 DEF Reads
  <2>4. /\ acc.at = p /\ acc.section = read[p].section
        /\ acc.section # None => acc.levels = read[p].levels
    BY <1>3, <2>1 DEF Agree
  <2>5. IsLine(line) BY DEF IsDoc
  <2> HIDE DEF acc, line
  <2>6. CASE IsHeading(line)
    <3>1. shown[p] = [acc EXCEPT !.at = acc.at + 1, !.section = line.heading,
                                 !.levels = <<0>>, !.stack = <<>>]
      BY <2>2, <2>6 DEF ViewerLine
    <3>2. shown[p].at = p + 1 /\ shown[p].section = line.heading /\ shown[p].levels = <<0>>
      BY <2>2, <2>4, <3>1 DEF View
    <3>3. /\ read[p + 1].section = line.heading
          /\ line.heading # None => read[p + 1].levels = <<0>>
      BY <2>3, <2>6 DEF ParseLine
    <3>4. Agree(read, shown, p) BY <3>2, <3>3 DEF Agree
    <3> QED BY <3>4
  <2>7. CASE ~IsHeading(line) /\ acc.section = None
    <3>1. shown[p] = [acc EXCEPT !.at = acc.at + 1] BY <2>2, <2>7 DEF ViewerLine
    <3>2. shown[p].at = p + 1 /\ shown[p].section = None BY <2>2, <2>4, <2>7, <3>1 DEF View
    <3>3. read[p + 1].section = None BY <2>3, <2>4, <2>7 DEF ParseLine
    <3>4. Agree(read, shown, p) BY <3>2, <3>3 DEF Agree
    <3> QED BY <3>4
  <2>8. CASE ~IsHeading(line) /\ acc.section # None
    <3>0. IsItem(line) BY <2>5, <2>8, LinesAre DEF IsLine
    <3>1. /\ shown[p].at = acc.at + 1 /\ shown[p].section = acc.section
          /\ shown[p].levels = Opened(acc, line)
      BY <2>2, <2>8, <3>0, ViewerItem
    <3>2. read[p + 1] = [read[p] EXCEPT !.levels = Open(@, line.indent)]
      BY <2>3, <2>4, <2>8 DEF ParseLine
    <3>3. read[p + 1].section = read[p].section /\ read[p + 1].levels = Open(read[p].levels, line.indent)
      BY <2>3, <3>2 DEF Known
    <3>4. Opened(acc, line) = Open(read[p].levels, line.indent) BY <2>4, <2>8 DEF Opened
    <3>5. Agree(read, shown, p) BY <2>4, <3>1, <3>3, <3>4 DEF Agree
    <3> QED BY <3>5
  <2> QED BY <2>6, <2>7, <2>8
<1>4. \A p \in 0..n : p \in G
  <2> HIDE DEF G
  <2> QED BY <1>1, <1>2, <1>3, CountUp
<1> QED BY <1>4

LEMMA ParentsStay ==
  ASSUME NEW lines, IsDoc(lines), NEW shown, Shows(lines, shown), NEW p \in 0..Len(lines)
  PROVE  shown[p].parents \subseteq ViewerTree(lines)
<1> DEFINE n == Len(lines)
           G == {q \in 0..n : p <= q => shown[p].parents \subseteq shown[q].parents}
<1>1. n \in Nat BY SeqIs DEF IsDoc
<1>2. 0 \in G BY <1>1
<1>3. ASSUME NEW q \in 1..n, q - 1 \in G PROVE q \in G
  <2> DEFINE acc == shown[q - 1]
             line == lines[q]
  <2>1. acc \in View /\ shown[q] = ViewerLine(acc, line) /\ IsLine(line)
    <3>1. q - 1 \in 0..n BY <1>1
    <3> QED BY <3>1 DEF Shows, IsDoc
  <2>2. acc.parents \subseteq shown[q].parents
    <3> HIDE DEF acc, line
    <3>1. CASE IsHeading(line) BY <2>1, <3>1 DEF ViewerLine, View
    <3>2. CASE ~IsHeading(line) /\ acc.section = None BY <2>1, <3>2 DEF ViewerLine, View
    <3>3. CASE ~IsHeading(line) /\ acc.section # None
      <4>1. IsItem(line) BY <2>1, <3>3, LinesAre DEF IsLine
      <4> DEFINE d == Level1(acc, line)
                 above == Rest(acc, line)
      <4>2. ViewerLine(acc, line) =
              [at |-> acc.at + 1, section |-> acc.section, levels |-> Opened(acc, line),
               stack |-> IF Len(above) < d THEN above ELSE Append(above, acc.at),
               parents |-> IF Len(above) < d THEN acc.parents
                           ELSE acc.parents \cup {<<acc.at, IF d = 0 THEN 0 ELSE Last(above)>>}]
        BY ONLY <2>1, <3>3, <4>1, ViewerItem
      <4> HIDE DEF d, above
      <4> QED BY <2>1, <4>2
    <3> QED BY <3>1, <3>2, <3>3
  <2>3. CASE p <= q - 1 BY <1>1, <1>3, <2>2, <2>3
  <2>4. CASE ~(p <= q - 1)
    <3>1. p <= q => p = q BY <1>1, <2>4
    <3> QED BY <1>1, <3>1
  <2> QED BY <2>3, <2>4
<1>4. n \in G
  <2> HIDE DEF G
  <2>1. \A q \in 0..n : q \in G BY <1>1, <1>2, <1>3, CountUp
  <2> QED BY <1>1, <2>1
<1> QED BY <1>1, <1>4 DEF Shows

\* Line x is the last at depth k - 1 that item i is not above.
Tops(part, h, i, k, x) ==
  \E j \in 1..i : /\ x = h + j /\ part[j].depth = k - 1
                  /\ \A y \in j + 1..i : part[y].depth >= k
StackHas(stack, part, h, i) ==
  /\ Len(stack) = (IF i = 0 THEN 0 ELSE part[i].depth + 1)
  /\ \A k \in 1..Len(stack) : Tops(part, h, i, k, stack[k])

\* What the viewer does with item i, when above is what is left of its stack.
Stacked(part, h, i, above) ==
  /\ Len(above) = part[i].depth
  /\ StackHas(Append(above, h + i), part, h, i)
  /\ \E j : /\ Above(part, i, j)
            /\ ParentAt(h, j) = IF part[i].depth = 0 THEN 0 ELSE Last(above)

LEMMA StackStep ==
  ASSUME NEW part, Climbs(part), Len(part) \in Nat, NEW i \in 1..Len(part), NEW h \in Nat,
         NEW stack \in Seq(Nat), StackHas(stack, part, h, i - 1),
         NEW above, above = SubSeq(stack, 1, IF part[i].depth < Len(stack) THEN part[i].depth
                                             ELSE Len(stack))
  PROVE  Stacked(part, h, i, above)
<1> DEFINE d == part[i].depth
           n == Len(part)
<1>1. /\ i \in 1..n /\ n \in Nat /\ d \in Nat /\ Len(stack) \in Nat
      /\ d <= (IF i = 1 THEN 0 ELSE part[i - 1].depth + 1)
      /\ \A k \in 1..n : part[k].depth \in Nat
  BY DEF Climbs
<1>2. Len(stack) = (IF i - 1 = 0 THEN 0 ELSE part[i - 1].depth + 1) BY DEF StackHas
<1>3. \A k \in 1..Len(stack) : Tops(part, h, i - 1, k, stack[k]) BY DEF StackHas
<1>4. d <= Len(stack) BY <1>1, <1>2
<1>5. above = SubSeq(stack, 1, d)
  <2>1. (IF d < Len(stack) THEN d ELSE Len(stack)) = d BY <1>1, <1>4
  <2> QED BY <2>1
<1> HIDE DEF d, n
<1>6. above \in Seq(Nat) /\ Len(above) = d /\ \A k \in 1..d : above[k] = stack[k]
  <2>1. d \in 0..Len(stack) BY <1>1, <1>4
  <2> QED BY ONLY <1>1, <1>5, <2>1, stack \in Seq(Nat)
<1>7. ASSUME NEW k \in 1..d
      PROVE  \E j \in 1..i - 1 : /\ stack[k] = h + j /\ part[j].depth = k - 1
                                 /\ \A y \in j + 1..i - 1 : part[y].depth >= k
  <2>1. k \in 1..Len(stack) BY <1>1, <1>4
  <2> QED BY <1>3, <2>1 DEF Tops
<1> DEFINE new == Append(above, h + i)
<1>8. /\ Len(new) = d + 1 /\ new[d + 1] = h + i
      /\ \A k \in 1..d : new[k] = stack[k]
  <2>1. h + i \in Nat BY <1>1
  <2>2. Len(new) = d + 1 /\ new[d + 1] = h + i BY ONLY <1>6, <2>1, d \in Nat, <1>1
  <2>3. \A k \in 1..d : new[k] = above[k] BY ONLY <1>6, <2>1, <1>1
  <2> QED BY <1>6, <2>2, <2>3
<1> HIDE DEF new
<1>9. ASSUME NEW k \in 1..d + 1 PROVE Tops(part, h, i, k, new[k])
  <2>1. CASE k = d + 1
    <3>1. i \in 1..i /\ new[k] = h + i /\ part[i].depth = k - 1 BY <1>1, <1>8, <2>1 DEF d
    <3>2. \A y \in i + 1..i : part[y].depth >= k BY <1>1
    <3> QED BY <3>1, <3>2 DEF Tops
  <2>2. CASE k # d + 1
    <3>1. k \in 1..d BY <1>1, <2>2
    <3>2. PICK j \in 1..i - 1 : /\ stack[k] = h + j /\ part[j].depth = k - 1
                                /\ \A y \in j + 1..i - 1 : part[y].depth >= k
      BY <1>7, <3>1
    <3>3. ASSUME NEW y \in j + 1..i PROVE part[y].depth >= k
      <4>1. CASE y = i BY <1>1, <3>1, <4>1 DEF d
      <4>2. CASE y # i
        <5>1. y \in j + 1..i - 1 BY <1>1, <4>2
        <5> QED BY <3>2, <5>1
      <4> QED BY <4>1, <4>2
    <3>4. j \in 1..i /\ new[k] = h + j BY <1>1, <1>8, <3>1, <3>2
    <3> QED BY <3>2, <3>3, <3>4 DEF Tops
  <2> QED BY <2>1, <2>2
<1>10. StackHas(new, part, h, i) BY <1>1, <1>8, <1>9 DEF StackHas, d
<1>11. \E j : Above(part, i, j) /\ ParentAt(h, j) = IF d = 0 THEN 0 ELSE Last(above)
  <2>1. CASE d = 0
    <3>1. Above(part, i, 0) /\ ParentAt(h, 0) = 0 BY <2>1 DEF Above, ParentAt, d
    <3> QED BY <2>1, <3>1
  <2>2. CASE d # 0
    <3>1. d \in 1..d BY <1>1, <2>2
    <3>2. PICK j \in 1..i - 1 : /\ stack[d] = h + j /\ part[j].depth = d - 1
                                /\ \A y \in j + 1..i - 1 : part[y].depth >= d
      BY <1>7, <3>1
    <3>3. Last(above) = h + j BY <1>6, <3>1, <3>2 DEF Last
    <3>4. Above(part, i, j) BY <3>2 DEF Above, d
    <3>5. ParentAt(h, j) = h + j BY <3>2 DEF ParentAt
    <3> QED BY <2>2, <3>3, <3>4, <3>5
  <2> QED BY <2>1, <2>2
<1> QED BY <1>6, <1>10, <1>11 DEF d, new, Stacked

Child(tree, part, h, i) == \E j : Above(part, i, j) /\ <<h + i, ParentAt(h, j)>> \in tree

LEMMA RunIsShown ==
  ASSUME OrderAssumption, NEW lines, IsDoc(lines), NEW read, Reads(lines, read),
         NEW shown, Shows(lines, shown), NEW s, s # None, NEW h, NEW c,
         OneRun(lines, read, s, h, c), NEW part, Lined(part, read, h), Len(part) = c, Climbs(part)
  PROVE  \A i \in 1..c : Child(ViewerTree(lines), part, h, i)
<1> DEFINE n == Len(lines)
           Good(i) == /\ StackHas(shown[h + i].stack, part, h, i)
                      /\ i # 0 => Child(ViewerTree(lines), part, h, i)
           G == {i \in 0..c : Good(i)}
<1> SUFFICES ASSUME c # 0 PROVE \A i \in 1..c : Child(ViewerTree(lines), part, h, i) OBVIOUS
<1>1. n \in Nat BY SeqIs DEF IsDoc
<1>2. /\ h \in 1..n /\ c \in Nat /\ h + c <= n /\ IsHeading(lines[h]) /\ lines[h].heading = s
      /\ ItemsOf(lines, read, s) = h + 1..h + c
  BY DEF OneRun
<1>3. \A p \in 0..n : Agree(read, shown, p) BY AgreeAlways
<1> HIDE DEF n
<1>4. Good(0)
  <2>1. h - 1 \in 0..n /\ h + 0 = h BY <1>1, <1>2
  <2>2. shown[h] = ViewerLine(shown[h - 1], lines[h]) /\ shown[h - 1] \in View
    BY <1>2, <2>1 DEF Shows, n
  <2>3. shown[h].stack = <<>> BY <1>2, <2>2 DEF ViewerLine, View
  <2>4. StackHas(shown[h].stack, part, h, 0) BY <2>3 DEF StackHas
  <2> QED BY <2>1, <2>4
<1>5. ASSUME NEW i \in 1..c, i - 1 \in G PROVE i \in G
  <2> DEFINE p == h + i
             acc == shown[h + (i - 1)]
             line == lines[p]
             d == part[i].depth
             above == Rest(acc, line)
  <2>1. p \in 1..n /\ p - 1 \in 0..n /\ p - 1 = h + (i - 1) /\ (p - 1) + 1 = p /\ i \in 0..c
    BY <1>1, <1>2
  <2>2. ~IsHeading(line) /\ read[p].section = s
    <3>1. p \in ItemsOf(lines, read, s) BY <1>2
    <3> QED BY <3>1 DEF ItemsOf
  <2>3. acc \in View /\ shown[p] = ViewerLine(acc, line) BY <2>1 DEF Shows, n
  <2>4. acc.at = p /\ acc.section = s /\ acc.levels = read[p].levels
    <3>1. Agree(read, shown, p - 1) BY <1>3, <2>1
    <3> QED BY <2>1, <2>2, <3>1 DEF Agree
  <2>5. IsItem(line)
    <3>1. IsLine(line) BY <2>1 DEF IsDoc, n
    <3> QED BY <2>2, <3>1, LinesAre DEF IsLine
  <2>6. d = Level1(acc, line)
    <3>1. d = Len(read[p + 1].levels) - 1 BY DEF Lined
    <3>2. read[p + 1] = ParseLine(read[p], line) /\ read[p] \in Known
      <4>1. p \in 1..n + 1 BY <1>1, <2>1
      <4> QED BY <2>1, <4>1 DEF Reads, n
    <3>3. read[p + 1].levels = Open(read[p].levels, line.indent)
      BY <2>2, <3>2 DEF ParseLine, Known
    <3> HIDE DEF p, acc, line, d
    <3> QED BY <2>4, <3>1, <3>3 DEF Level1, Opened
  <2>7. above = SubSeq(acc.stack, 1, IF d < Len(acc.stack) THEN d ELSE Len(acc.stack))
    BY <2>6 DEF Rest
  <2>8. StackHas(acc.stack, part, h, i - 1) BY <1>5
  <2>9. acc.stack \in Seq(Nat) BY <2>3 DEF View
  <2>10. /\ Len(above) = d /\ StackHas(Append(above, h + i), part, h, i)
         /\ \E j : Above(part, i, j) /\ ParentAt(h, j) = IF d = 0 THEN 0 ELSE Last(above)
    <3> DEFINE stack == acc.stack
    <3>1. stack \in Seq(Nat) /\ StackHas(stack, part, h, i - 1) BY <2>8, <2>9
    <3>2. above = SubSeq(stack, 1, IF part[i].depth < Len(stack) THEN part[i].depth ELSE Len(stack))
      BY <2>7
    <3>3. Len(part) \in Nat /\ i \in 1..Len(part) /\ h \in Nat BY <1>1, <1>2
    <3> HIDE DEF above, stack
    <3>4. Stacked(part, h, i, above) BY <3>1, <3>2, <3>3, StackStep
    <3> QED BY <3>4 DEF Stacked
  <2>11. d \in Nat
    <3>1. i \in 1..Len(part) OBVIOUS
    <3> QED BY <3>1 DEF Climbs
  <2>12. ~(Len(above) < d)
    <3> HIDE DEF above, d
    <3> QED BY <2>10, <2>11
  <2>13. /\ shown[p].stack = Append(above, p)
         /\ shown[p].parents = acc.parents \cup {<<p, IF d = 0 THEN 0 ELSE Last(above)>>}
    <3> DEFINE e == Level1(acc, line)
    <3>1. acc.section # None /\ acc.at = p BY <2>4
    <3> HIDE DEF d, acc, line, p
    <3>2. ViewerLine(acc, line) =
            [at |-> acc.at + 1, section |-> acc.section, levels |-> Opened(acc, line),
             stack |-> IF Len(above) < e THEN above ELSE Append(above, acc.at),
             parents |-> IF Len(above) < e THEN acc.parents
                         ELSE acc.parents \cup {<<acc.at, IF e = 0 THEN 0 ELSE Last(above)>>}]
      BY ONLY <2>3, <2>5, <3>1, ViewerItem
    <3> HIDE DEF above, e
    <3>3. ~(Len(above) < e) /\ e = d BY <2>6, <2>12 DEF e
    <3> QED BY <2>3, <3>1, <3>2, <3>3
  <2>14. shown[p].parents \subseteq ViewerTree(lines)
    <3>1. p \in 0..n BY <1>1, <2>1
    <3> HIDE DEF p
    <3> QED BY <3>1, ParentsStay DEF n
  <2>15. Child(ViewerTree(lines), part, h, i)
    <3>1. PICK j : Above(part, i, j) /\ ParentAt(h, j) = IF d = 0 THEN 0 ELSE Last(above) BY <2>10
    <3>2. <<p, ParentAt(h, j)>> \in ViewerTree(lines) BY <2>13, <2>14, <3>1
    <3> QED BY <3>1, <3>2 DEF Child
  <2>16. StackHas(shown[h + i].stack, part, h, i) BY <2>10, <2>13
  <2> QED BY <2>1, <2>15, <2>16
<1>6. \A i \in 0..c : i \in G
  <2>1. 0 \in G BY <1>2, <1>4
  <2> HIDE DEF G
  <2> QED BY <1>2, <1>5, <2>1, CountUp
<1> QED BY <1>2, <1>6

-----------------------------------------------------------------------------
(* The hierarchy of a Map is one.                                          *)

LEMMA AllAgree ==
  ASSUME OrderAssumption, NEW lines, IsDoc(lines)
  PROVE  Unanimous(lines)
<1> DEFINE nodes == Parse(lines)
           flat  == Flat(nodes)
           line(i) == IF i = 0 THEN 0 ELSE nodes[i].at
<1>1. PICK parts : ReadParts(lines, parts) BY ParseParts
<1>2. /\ parts = PartsOf(lines) /\ nodes = FlattenSeq(parts) /\ NestedParts(parts)
      /\ \A m \in 1..Len(SectionOrder) : \A i \in 1..Len(parts[m]) : IsNode(parts[m][i])
  BY <1>1, SectionsAreSeq DEF ReadParts, NestedParts
<1>3. IsSeq(nodes) BY ParseIsSeq DEF IsDoc
<1> HIDE DEF nodes
<1>4. DOMAIN nodes = 1..Len(nodes) /\ Len(nodes) \in Nat BY <1>3, SeqIs
<1>5. ASSUME NEW i \in 1..Len(nodes) PROVE IsNode(nodes[i]) /\ nodes[i].depth \in Nat
  <2>1. PICK m \in 1..Len(SectionOrder) :
          \E a, r : Found(nodes, parts[m], SectionOrder[m], a, r, i)
    BY <1>2, SectionRun
  <2>2. PICK a, r : Found(nodes, parts[m], SectionOrder[m], a, r, i) BY <2>1
  <2>3. r \in 1..Len(parts[m]) /\ nodes[i] = parts[m][r] BY <2>2 DEF Found
  <2> QED BY <1>2, <2>3 DEF NestedParts, Nested
<1>6. ASSUME NEW i \in 1..Len(nodes), Regular(lines, nodes, nodes[i].section)
      PROVE  /\ StackParent(nodes, i) = NearestParent(nodes, i)
             /\ NearestParent(flat, i) = NearestParent(nodes, i)
             /\ <<nodes[i].at, line(NearestParent(nodes, i))>> \in ViewerTree(lines)
  <2>1. PICK m \in 1..Len(SectionOrder) :
          \E a, r : Found(nodes, parts[m], SectionOrder[m], a, r, i)
    BY <1>2, SectionRun
  <2>2. PICK a, r : Found(nodes, parts[m], SectionOrder[m], a, r, i) BY <2>1
  <2> DEFINE part == parts[m]
             s == SectionOrder[m]
             n == Len(part)
             read == Read(lines)
  <2>3. /\ RunAt(nodes, part, a, s) /\ a + n <= Len(nodes) /\ r \in 1..n /\ i = a + r
        /\ \A k \in 1..n : nodes[a + k] = part[k]
    BY <2>2 DEF Found
  <2>4. /\ Nested(part, s) /\ m \in DOMAIN SectionOrder /\ s \in Range(SectionOrder) /\ s # None
    BY <1>2, SectionsAreSeq DEF NestedParts, OrderAssumption, Range
  <2>5. n \in Nat /\ a \in Nat BY <2>3 DEF RunAt
  <2>6. nodes[i].section = s BY <2>3, <2>4 DEF Nested
  <2>7. Climbs(part)
    <3>1. 1 \in 1..n /\ a + 1 \in 1..Len(nodes) BY <1>4, <2>3, <2>5
    <3>2. nodes[a + 1].section = s /\ nodes[a + 1] = part[1] BY <2>3, <2>4, <3>1 DEF Nested
    <3>3. Before(nodes, a + 1) = {}
      <4>1. Before(nodes, a + 1) = a + 1..a + 1 - 1 BY <2>3, <3>1, BeforeIs
      <4> QED BY <2>5, <4>1
    <3>4. part[1].depth = 0 BY <1>4, <1>6, <2>6, <3>1, <3>2, <3>3 DEF Regular
    <3> QED BY <2>4, <3>4 DEF Climbs, Nested
  <2>8. Reads(lines, read) BY ReadIs
  <2>9. Cardinality(HeadingsOf(lines, s)) <= 1 BY <1>6, <2>6 DEF Regular, HeadingsOf
  <2>10. PICK h, c : OneRun(lines, read, s, h, c)
    <3> HIDE DEF read, s
    <3> QED BY <2>4, <2>8, <2>9, SectionIsRun
  <2>11. Lined(part, read, h) /\ Len(part) = c
    <3>1. Lined(PartsOf(lines)[m], Read(lines), h) /\ Len(PartsOf(lines)[m]) = c
      BY <2>4, <2>10, PartIsLined
    <3> QED BY <1>2, <3>1
  <2>12. PICK shown : Shows(lines, shown) BY ShowsExists
  <2>13. Child(ViewerTree(lines), part, h, r)
    <3> HIDE DEF read, s, part
    <3>1. \A k \in 1..c : Child(ViewerTree(lines), part, h, k)
      BY <2>4, <2>7, <2>8, <2>10, <2>11, <2>12, RunIsShown
    <3> QED BY <2>3, <2>11, <3>1
  <2>14. PICK j : Above(part, r, j) /\ <<h + r, ParentAt(h, j)>> \in ViewerTree(lines)
    BY <2>13 DEF Child
  <2>15. RunAt(flat, part, a, s)
    <3> HIDE DEF s, part
    <3> QED BY <1>3, <1>5, <2>3, <2>7, FlatKeeps
  <2> HIDE DEF flat, s, part, read
  <2>16. NearestParent(nodes, i) = ParentAt(a, j) BY <2>3, <2>7, <2>14, NearestIs
  <2>17. StackParent(nodes, i) = ParentAt(a, j) BY <2>3, <2>7, <2>14, StackIs
  <2>18. NearestParent(flat, i) = ParentAt(a, j) BY <2>3, <2>7, <2>14, <2>15, NearestIs
  <2>19. nodes[i].at = h + r
    <3>1. part[r].at = h + r BY <2>3, <2>11 DEF Lined
    <3> QED BY <2>3, <3>1
  <2>20. line(ParentAt(a, j)) = ParentAt(h, j)
    <3>1. CASE j = 0 BY <3>1 DEF ParentAt
    <3>2. CASE j # 0
      <4>1. j \in 1..r - 1 BY <2>14, <3>2 DEF Above
      <4>2. j \in 1..n /\ a + j # 0 BY <2>3, <2>5, <4>1
      <4>3. nodes[a + j] = part[j] /\ part[j].at = h + j BY <2>3, <2>11, <4>2 DEF Lined
      <4> QED BY <3>2, <4>2, <4>3 DEF ParentAt
    <3> QED BY <3>1, <3>2
  <2> QED BY <2>14, <2>16, <2>17, <2>18, <2>19, <2>20
<1> HIDE DEF flat, line
<1>7. \A i \in DOMAIN nodes : Regular(lines, nodes, nodes[i].section) =>
        /\ StackParent(nodes, i) = NearestParent(nodes, i)
        /\ NearestParent(flat, i) = NearestParent(nodes, i)
        /\ <<nodes[i].at, line(NearestParent(nodes, i))>> \in ViewerTree(lines)
  BY <1>4, <1>6
<1>8. UnanimousOn(lines, nodes) BY <1>7, Zenon DEF UnanimousOn, flat, line
<1> QED BY <1>8 DEF Unanimous, nodes

\* The hierarchy of a Map is one, for every Map that users and saves can lead
\* to: ancestorIndexes, buildV3Snapshot, flattenState and parseRenderTree give
\* a node the same parent, and a save keeps it.
THEOREM OneHierarchyAlways ==
  ASSUME StartAssumption, SourceAssumption, OrderAssumption
  PROVE  HistorySpec => []OneHierarchy
<1>1. HistoryInit => Wellformed BY WellformedInit
<1>2. Wellformed /\ [HistoryNext]_historyVars => Wellformed' BY WellformedStep
<1>3. ASSUME Wellformed PROVE OneHierarchy
  <2>1. MapNodes(Render(Nodes)) = Nodes BY <1>3, NodesAre, RoundTrip
  <2>2. Unanimous(doc) BY <1>3, WellformedDoc, AllAgree
  <2> QED BY <2>1, <2>2 DEF OneHierarchy
<1> QED BY <1>1, <1>2, <1>3, PTL DEF HistorySpec
=============================================================================
