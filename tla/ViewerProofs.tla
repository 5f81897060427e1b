---------------------------- MODULE ViewerProofs ----------------------------
(***************************************************************************)
(* Proofs about the viewer: the sessions of the server (ViewServer), for   *)
(* any number of requests, projects and faults and any capacity, and the   *)
(* tree of the page (TreeView), for any trees, bindings and searches.      *)
(***************************************************************************)
EXTENDS ViewServer, TreeView, FiniteSetTheorems, WellFoundedInduction, TLAPS

\* What the stores of the sessions T are, given counts, entries and open stores.
Stores(T, count, entries, opened) ==
  /\ count = [t \in Requests |-> Cardinality(Users(t, T))]
  /\ entries \in [Projects -> Requests \cup {NoStore}]
  /\ opened \subseteq Requests
  /\ \A s \in T : storeOf[s] \in opened /\ entries[ProjectOf[s]] = storeOf[s]
  /\ \A t \in opened : request[t] # "binding" => Users(t, T) # {}
  /\ \A p \in Projects :
       entries[p] # NoStore => /\ entries[p] \in opened /\ ProjectOf[entries[p]] = p
                               /\ request[entries[p]] # "binding"
  /\ \A r \in Requests :
       request[r] = "binding" => r \in opened /\ entries[ProjectOf[r]] = NoStore

\* The queue holds the creations in progress, and only the first one binds.
Turns ==
  /\ \A r \in Requests : request[r] \in {"queued", "binding"} <=> r \in creating
  /\ \A r \in Requests : request[r] = "binding" => queue # <<>> /\ r = Head(queue)

\* A session belongs to a creation that has ended, and has not been removed.
Served ==
  /\ \A s \in sessions : request[s] \in {"answered", "lost"} /\ gone[s] = "no"
  /\ \A r \in Requests : gone[r] # "no" => request[r] \in {"answered", "lost"}

\* Without being told to, a daemon goes only when there is nothing left.
Resting ==
  lifecycle # "running" /\ ~shutdown => sessions = {} /\ queue = <<>> /\ lifecycle # "settling"

\* The sessions are strictly ordered by their last use.
Ordered ==
  /\ \A s, t \in sessions : s = t \/ <<s, t>> \in older \/ <<t, s>> \in older
  /\ \A s, t \in sessions : <<s, t>> \in older => s # t /\ <<t, s>> \notin older
  /\ \A s, t, u \in sessions : <<s, t>> \in older /\ <<t, u>> \in older => <<s, u>> \in older

\* No creation makes more sessions than there is room for.
Binding == {r \in Requests : request[r] = "binding"}
SessionsFit == Cardinality(sessions) + Cardinality(Binding) <= MaxSessions

IInv ==
  /\ TypeOK /\ Turns /\ Served /\ Resting /\ Ordered
  /\ Stores(sessions, refCount, projectStores, open)
  /\ SessionsFit /\ AnswersHold

-----------------------------------------------------------------------------
(* The queue.                                                              *)

LEMMA Enqueue ==
  ASSUME NEW q \in Seq(Requests), IsInjective(q), NEW r \in Requests, r \notin ToSet(q)
  PROVE  /\ Append(q, r) \in Seq(Requests) /\ IsInjective(Append(q, r))
         /\ ToSet(Append(q, r)) = ToSet(q) \cup {r}
         /\ q # <<>> => Head(Append(q, r)) = Head(q)
         /\ Append(q, r) # <<>>
<1> DEFINE b == Append(q, r)
<1>1. /\ b \in Seq(Requests) /\ Len(b) = Len(q) + 1 /\ Len(q) \in Nat
      /\ DOMAIN b = 1..(Len(q) + 1) /\ DOMAIN q = 1..Len(q)
      /\ \A i \in 1..Len(q) : b[i] = q[i]
      /\ b[Len(q) + 1] = r
  OBVIOUS
<1> HIDE DEF b
<1>2. IsInjective(b)
  BY <1>1 DEF IsInjective, ToSet
<1>3. ToSet(b) = ToSet(q) \cup {r}
  BY <1>1 DEF ToSet
<1>4. q # <<>> => Head(b) = Head(q)
  BY <1>1
<1>5. b # <<>>
  BY <1>1
<1>. QED
  BY <1>1, <1>2, <1>3, <1>4, <1>5 DEF b

LEMMA Dequeue ==
  ASSUME NEW q \in Seq(Requests), IsInjective(q), q # <<>>
  PROVE  /\ Tail(q) \in Seq(Requests) /\ IsInjective(Tail(q))
         /\ Head(q) \in ToSet(q) /\ ToSet(Tail(q)) = ToSet(q) \ {Head(q)}
<1> DEFINE b == Tail(q)
<1>1. /\ b \in Seq(Requests) /\ Len(b) = Len(q) - 1 /\ Len(q) \in Nat \ {0}
      /\ DOMAIN b = 1..(Len(q) - 1) /\ DOMAIN q = 1..Len(q)
      /\ \A i \in 1..(Len(q) - 1) : b[i] = q[i + 1]
      /\ Head(q) = q[1]
  OBVIOUS
<1> HIDE DEF b
<1>2. IsInjective(b)
  BY <1>1 DEF IsInjective
<1>3. ToSet(b) = ToSet(q) \ {Head(q)}
  <2>1. \A i \in 2..Len(q) : b[i - 1] = q[i] /\ i - 1 \in 1..(Len(q) - 1)
    BY <1>1
  <2>2. \A i \in 2..Len(q) : q[i] # q[1]
    BY <1>1 DEF IsInjective
  <2>3. ASSUME NEW x \in ToSet(b) PROVE x \in ToSet(q) \ {Head(q)}
    <3>1. PICK i \in 1..(Len(q) - 1) : x = q[i + 1]
      BY <1>1, <2>3 DEF ToSet
    <3>2. i + 1 \in 2..Len(q) /\ i + 1 \in 1..Len(q)
      BY <1>1
    <3>. QED
      BY <1>1, <2>2, <3>1, <3>2 DEF ToSet
  <2>4. ASSUME NEW x \in ToSet(q) \ {Head(q)} PROVE x \in ToSet(b)
    <3>1. PICK i \in 1..Len(q) : x = q[i]
      BY <1>1, <2>4 DEF ToSet
    <3>2. i \in 2..Len(q)
      BY <1>1, <2>4, <3>1
    <3>. QED
      BY <1>1, <2>1, <3>1, <3>2 DEF ToSet
  <2>. QED
    BY <2>3, <2>4
<1>4. Head(q) \in ToSet(q)
  BY <1>1 DEF ToSet
<1>. QED
  BY <1>1, <1>2, <1>3, <1>4 DEF b

-----------------------------------------------------------------------------
(* Counting the users of a store.                                          *)

LEMMA UsersFinite ==
  ASSUME NEW T \in SUBSET Requests
  PROVE  /\ IsFiniteSet(T) /\ Cardinality(T) \in 0..Cardinality(Requests)
         /\ \A t : /\ IsFiniteSet(Users(t, T))
                   /\ Cardinality(Users(t, T)) \in 0..Cardinality(Requests)
<1>1. \A U \in SUBSET Requests :
        IsFiniteSet(U) /\ Cardinality(U) \in 0..Cardinality(Requests)
  BY FS_Subset, FS_CardinalityType, ServerAssumption
<1>. QED
  BY <1>1 DEF Users

\* When the sessions S go, their stores lose as many users, and those that
\* nobody uses any more are the ones that are closed.
LEMMA Removed ==
  ASSUME NEW S \in SUBSET sessions, sessions \subseteq Requests,
         Stores(sessions, refCount, projectStores, open)
  PROVE  Stores(sessions \ S, CountAfter(S), StoresAfter(S), open \ Unused(S))
<1> USE ServerAssumption
<1> DEFINE T == sessions \ S
<1>1. \A t : /\ Users(t, T) = Users(t, sessions) \ Users(t, S)
             /\ Users(t, S) \subseteq Users(t, sessions)
  BY DEF Users
<1>2. \A t : Cardinality(Users(t, T)) = Cardinality(Users(t, sessions)) - Cardinality(Users(t, S))
  <2> TAKE t
  <2>1. IsFiniteSet(Users(t, sessions)) /\ Users(t, sessions) \cap Users(t, S) = Users(t, S)
    BY <1>1, UsersFinite
  <2>. QED
    BY <1>1, <2>1, FS_Difference
<1>3. CountAfter(S) = [t \in Requests |-> Cardinality(Users(t, T))]
  BY <1>2 DEF CountAfter, Stores
<1>4. \A t \in Requests : CountAfter(S)[t] <= 0 <=> Users(t, T) = {}
  <2> TAKE t \in Requests
  <2>1. IsFiniteSet(Users(t, T)) /\ Cardinality(Users(t, T)) \in Nat
    BY UsersFinite
  <2>2. CountAfter(S)[t] = Cardinality(Users(t, T))
    BY <1>3
  <2>3. Cardinality(Users(t, T)) = 0 <=> Users(t, T) = {}
    BY <2>1, FS_EmptySet
  <2>. QED
    BY <2>1, <2>2, <2>3
<1>5. /\ open \subseteq Requests
      /\ \A t \in open : t \in Unused(S) <=> Users(t, S) # {} /\ Users(t, T) = {}
  BY <1>4 DEF Unused, Stores
<1>6. StoresAfter(S) \in [Projects -> Requests \cup {NoStore}]
  BY DEF StoresAfter, Stores
<1>7. \A p \in Projects :
        IF projectStores[p] \in Unused(S) THEN StoresAfter(S)[p] = NoStore
                                          ELSE StoresAfter(S)[p] = projectStores[p]
  BY DEF StoresAfter
<1>8. ASSUME NEW s \in T
      PROVE  storeOf[s] \in open \ Unused(S) /\ StoresAfter(S)[ProjectOf[s]] = storeOf[s]
  <2>1. /\ storeOf[s] \in open /\ projectStores[ProjectOf[s]] = storeOf[s]
        /\ ProjectOf[s] \in Projects
    BY <1>8 DEF Stores
  <2>2. s \in Users(storeOf[s], T)
    BY <1>8 DEF Users
  <2>. QED
    BY <1>5, <1>7, <2>1, <2>2
<1>9. ASSUME NEW t \in open \ Unused(S), request[t] # "binding"
      PROVE  Users(t, T) # {}
  <2>1. Users(t, sessions) # {} /\ (Users(t, S) = {} \/ Users(t, T) # {})
    BY <1>5, <1>9 DEF Stores
  <2>. QED
    BY <1>1, <2>1
<1>10. ASSUME NEW p \in Projects, StoresAfter(S)[p] # NoStore
       PROVE  /\ StoresAfter(S)[p] \in open \ Unused(S) /\ ProjectOf[StoresAfter(S)[p]] = p
              /\ request[StoresAfter(S)[p]] # "binding"
  BY <1>7, <1>10 DEF Stores
<1>11. ASSUME NEW r \in Requests, request[r] = "binding"
       PROVE  r \in open \ Unused(S) /\ StoresAfter(S)[ProjectOf[r]] = NoStore
  <2>1. r \in open /\ projectStores[ProjectOf[r]] = NoStore /\ ProjectOf[r] \in Projects
    BY <1>11 DEF Stores
  <2>2. Users(r, S) = {}
    BY <1>11 DEF Stores, Users
  <2>. QED
    BY <1>5, <1>7, <2>1, <2>2
<1>. QED
  BY <1>3, <1>5, <1>6, <1>8, <1>9, <1>10, <1>11, Zenon DEF Stores

\* The counts are those of the type.
LEMMA CountsTyped ==
  ASSUME NEW T \in SUBSET Requests, NEW count, NEW entries, NEW opened,
         Stores(T, count, entries, opened)
  PROVE  /\ count \in [Requests -> 0..Cardinality(Requests)]
         /\ entries \in [Projects -> Requests \cup {NoStore}] /\ opened \subseteq Requests
  BY UsersFinite DEF Stores

-----------------------------------------------------------------------------
(* The order of last use.                                                  *)

LEMMA OrderAmong ==
  ASSUME Ordered, older \subseteq sessions \X sessions, NEW T \in SUBSET sessions,
         sessions' = T, older' = Among(T)
  PROVE  Ordered' /\ older' \subseteq sessions' \X sessions'
  BY DEF Ordered, Among

LEMMA OrderUsing ==
  ASSUME Ordered, older \subseteq sessions \X sessions, NEW T \in SUBSET sessions, NEW r,
         sessions' = T \cup {r}, older' = Using(r, T)
  PROVE  Ordered' /\ older' \subseteq sessions' \X sessions'
<1>1. \A s, t : <<s, t>> \in older' <=>
                  s \in T \ {r} /\ (t = r \/ (t \in T \ {r} /\ <<s, t>> \in older))
  BY DEF Using, Among
<1>2. older' \subseteq sessions' \X sessions'
  BY DEF Using, Among
<1>3. \A s, t \in sessions' : s = t \/ <<s, t>> \in older' \/ <<t, s>> \in older'
  BY <1>1 DEF Ordered
<1>4. \A s, t \in sessions' : <<s, t>> \in older' => s # t /\ <<t, s>> \notin older'
  BY <1>1 DEF Ordered
<1>5. \A s, t, u \in sessions' : <<s, t>> \in older' /\ <<t, u>> \in older' => <<s, u>> \in older'
  BY <1>1 DEF Ordered
<1>. QED
  BY <1>2, <1>3, <1>4, <1>5 DEF Ordered

\* One of any sessions was used least recently: one with the fewest before it.
LEMMA OldestExists ==
  ASSUME Ordered, sessions \subseteq Requests, NEW K \in SUBSET sessions, K # {}
  PROVE  \E s \in K : \A t \in K \ {s} : <<s, t>> \in older
<1> DEFINE Before(s) == {t \in K : <<t, s>> \in older}
           All       == {Before(s) : s \in K}
           R         == StrictSubsetOrdering(K)
<1>1. All \subseteq FiniteSubsetsOf(K) /\ All # {}
  <2>1. IsFiniteSet(K)
    BY UsersFinite
  <2>2. FiniteSubsetsOf(K) = SUBSET K
    BY <2>1, FS_FiniteSubsetsOfFinite
  <2>3. \A s \in K : Before(s) \in FiniteSubsetsOf(K)
    BY <2>2
  <2> HIDE DEF Before
  <2>. QED
    BY <2>3
<1>2. \E x \in All : \A y \in All : <<y, x>> \notin R
  <2> HIDE DEF All, R
  <2>1. IsWellFoundedOn(R, FiniteSubsetsOf(K))
    BY FS_StrictSubsetOrderingWellFounded DEF R
  <2>. QED
    BY <1>1, <2>1, WFMin
<1>3. PICK s \in K : \A u \in K : <<Before(u), Before(s)>> \notin R
  BY <1>2
<1>4. ASSUME NEW u \in Before(s) PROVE FALSE
  <2>1. Before(u) \subseteq Before(s) /\ u \notin Before(u) /\ u \in K
    BY <1>4 DEF Ordered
  <2>2. <<Before(u), Before(s)>> \in R
    BY <1>4, <2>1 DEF StrictSubsetOrdering
  <2>. QED
    BY <1>3, <2>1, <2>2
<1>5. \A t \in K \ {s} : <<s, t>> \in older
  BY <1>4 DEF Ordered
<1>. QED
  BY <1>5

-----------------------------------------------------------------------------
(* The steps.                                                              *)

LEMMA InitInv == Init => IInv
<1> SUFFICES ASSUME Init PROVE IInv
  OBVIOUS
<1> USE ServerAssumption DEF Init
<1>1. /\ Cardinality(Requests) \in Nat /\ Cardinality({}) = 0
      /\ \A t : Users(t, {}) = {}
  BY FS_CardinalityType, FS_EmptySet DEF Users
<1>2. creating = {} /\ IsInjective(queue) /\ queue \in Seq(Requests)
  BY DEF creating, ToSet, IsInjective
<1>3. TypeOK
  <2>1. 0 \in 0..Cardinality(Requests) /\ 0 \in 0..MaxFaults
    BY <1>1
  <2>2. refCount \in [Requests -> 0..Cardinality(Requests)]
    BY <2>1
  <2>. QED
    BY <1>2, <2>1, <2>2 DEF TypeOK
<1>4. Binding = {} /\ Cardinality(sessions) = 0
  BY <1>1 DEF Binding
<1>5. SessionsFit
  BY <1>1, <1>4 DEF SessionsFit
<1>6. Stores(sessions, refCount, projectStores, open)
  BY <1>1 DEF Stores
<1>7. Turns /\ Served /\ Resting /\ Ordered /\ AnswersHold
  BY <1>2 DEF Turns, Served, Resting, Ordered, AnswersHold, FailuresAreOwn, AnsweredStay
<1>. QED
  BY <1>3, <1>5, <1>6, <1>7 DEF IInv

\* The stores do not see what a request does, unless it binds one.
LEMMA StoresMove ==
  ASSUME NEW T, NEW count, NEW entries, NEW opened, Stores(T, count, entries, opened),
         sessions' = T, refCount' = count, projectStores' = entries, open' = opened,
         UNCHANGED storeOf,
         \A q \in Requests : request'[q] = "binding" <=> request[q] = "binding"
  PROVE  Stores(sessions, refCount, projectStores, open)'
<1>1. \A t : Users(t, sessions)' = Users(t, T)
  BY DEF Users
<1>. QED
  BY <1>1 DEF Stores

\* How many sessions there are, and that one creation at most is binding.
LEMMA Counted ==
  ASSUME IInv
  PROVE  /\ IsFiniteSet(sessions) /\ Cardinality(sessions) \in Nat /\ MaxSessions \in Nat \ {0}
         /\ \A r \in Requests : request[r] = "binding" => Binding = {r}
         /\ Cardinality(Binding) = IF Binding = {} THEN 0 ELSE 1
<1> USE ServerAssumption DEF IInv
<1>1. IsFiniteSet(sessions) /\ Cardinality(sessions) \in Nat
  BY FS_Subset, FS_CardinalityType DEF TypeOK
<1>2. \A r \in Requests : request[r] = "binding" => Binding = {r}
  BY DEF Binding, Turns
<1>3. Binding = {} \/ \E r \in Requests : Binding = {r}
  BY <1>2 DEF Binding
<1>. QED
  BY <1>1, <1>2, <1>3, FS_EmptySet, FS_Singleton

LEMMA ReceiveInv ==
  ASSUME IInv, NEW r \in Requests, Receive(r)
  PROVE  IInv'
<1> USE DEF IInv, Receive, sessionVars, closeVars, faultVars
<1>1. /\ request[r] = "none" /\ request' \in [Requests -> {"none", "body", "queued", "binding",
                                                          "answered", "refused", "lost"}]
      /\ request'[r] = "body" /\ \A q \in Requests \ {r} : request'[q] = request[q]
      /\ r \notin sessions /\ creating' = creating
  BY DEF TypeOK, Served, creating
<1>2. TypeOK'
  BY <1>1 DEF TypeOK
<1>3. Turns' /\ Served' /\ Resting' /\ Ordered'
  BY <1>1 DEF Turns, Served, Resting, Ordered
<1>4. Stores(sessions, refCount, projectStores, open)'
  BY <1>1, StoresMove
<1>5. SessionsFit'
  BY <1>1 DEF SessionsFit, Binding
<1>6. AnswersHold'
  BY <1>1 DEF AnswersHold, FailuresAreOwn, AnsweredStay
<1>. QED
  BY <1>2, <1>3, <1>4, <1>5, <1>6

LEMMA ReadBodyInv ==
  ASSUME IInv, NEW r \in Requests, ReadBody(r)
  PROVE  IInv'
<1> USE DEF IInv, ReadBody, sessionVars, closeVars, faultVars
<1>1. /\ request[r] = "body" /\ request' \in [Requests -> {"none", "body", "queued", "binding",
                                                          "answered", "refused", "lost"}]
      /\ request'[r] = "queued" /\ \A q \in Requests \ {r} : request'[q] = request[q]
      /\ r \notin sessions /\ r \notin creating
  BY DEF TypeOK, Served, Turns
<1>2. /\ queue' \in Seq(Requests) /\ IsInjective(queue') /\ creating' = creating \cup {r}
      /\ queue # <<>> => Head(queue') = Head(queue)
      /\ queue' # <<>>
  BY <1>1, Enqueue DEF TypeOK, creating
<1>3. TypeOK'
  BY <1>1, <1>2 DEF TypeOK
<1>4. Turns' /\ Served' /\ Ordered'
  BY <1>1, <1>2 DEF Turns, Served, Ordered
<1>5. Resting'
  BY DEF Resting, Listening
<1>6. Stores(sessions, refCount, projectStores, open)'
  BY <1>1, StoresMove
<1>7. SessionsFit'
  BY <1>1 DEF SessionsFit, Binding
<1>8. AnswersHold'
  BY <1>1 DEF AnswersHold, FailuresAreOwn, AnsweredStay
<1>. QED
  BY <1>3, <1>4, <1>5, <1>6, <1>7, <1>8

\* A creation that ends leaves the queue to the next one.
LEMMA Left ==
  ASSUME TypeOK, Turns, NEW r \in Requests, queue # <<>>, r = Head(queue),
         NEW answer \in {"answered", "refused"}, Leave(r, answer)
  PROVE  /\ request' \in [Requests -> {"none", "body", "queued", "binding", "answered", "refused",
                                      "lost"}]
         /\ request'[r] \in {answer, "lost"} /\ \A q \in Requests \ {r} : request'[q] = request[q]
         /\ \A q \in Requests : request'[q] # "binding"
         /\ queue' \in Seq(Requests) /\ IsInjective(queue') /\ Turns'
<1> USE DEF Leave, TypeOK
<1>1. /\ queue' \in Seq(Requests) /\ IsInjective(queue')
      /\ creating' = creating \ {r}
  BY Dequeue DEF creating
<1>2. /\ request' \in [Requests -> {"none", "body", "queued", "binding", "answered", "refused",
                                   "lost"}]
      /\ request'[r] \in {answer, "lost"} /\ \A q \in Requests \ {r} : request'[q] = request[q]
  OBVIOUS
<1>3. \A q \in Requests : request'[q] # "binding"
  BY <1>2 DEF Turns
<1>4. Turns'
  BY <1>1, <1>2, <1>3 DEF Turns
<1>. QED
  BY <1>1, <1>2, <1>3, <1>4

LEMMA ResolveFailsInv ==
  ASSUME IInv, NEW r \in Requests, ResolveFails(r)
  PROVE  IInv'
<1> USE ServerAssumption DEF IInv, ResolveFails, sessionVars, closeVars
<1>1. /\ request' \in [Requests -> {"none", "body", "queued", "binding", "answered", "refused",
                                   "lost"}]
      /\ request'[r] \in {"refused", "lost"} /\ \A q \in Requests \ {r} : request'[q] = request[q]
      /\ \A q \in Requests : request'[q] # "binding"
      /\ queue' \in Seq(Requests) /\ IsInjective(queue') /\ Turns'
  BY Left
<1>2. /\ r \notin sessions /\ gone[r] = "no" /\ \A q \in Requests : request[q] # "binding"
      /\ sessions \subseteq Requests
  BY DEF Served, Turns, TypeOK
<1>3. TypeOK'
  BY <1>1 DEF TypeOK
<1>4. Served' /\ Ordered'
  BY <1>1, <1>2 DEF Served, Ordered
<1>5. Resting'
  BY DEF Resting
<1>6. Stores(sessions, refCount, projectStores, open)'
  <2>1. \A t : Users(t, sessions)' = Users(t, sessions)
    BY DEF Users
  <2>. QED
    BY <1>1, <1>2, <2>1 DEF Stores
<1>7. SessionsFit'
  BY <1>1, <1>2 DEF SessionsFit, Binding
<1>8. AnswersHold'
  BY <1>1 DEF AnswersHold, FailuresAreOwn, AnsweredStay
<1>. QED
  BY <1>1, <1>3, <1>4, <1>5, <1>6, <1>7, <1>8

\* Removing the sessions S, for the reasons given.
LEMMA Pruned ==
  ASSUME IInv, NEW expired, NEW evicted, expired \cup evicted \subseteq sessions,
         gone' = Reason(expired, evicted)
  PROVE  LET T == sessions \ (expired \cup evicted)
         IN  /\ gone' \in [Requests -> {"no", "expired", "evicted", "closed"}]
             /\ \A s \in T : request[s] \in {"answered", "lost"} /\ gone'[s] = "no"
             /\ \A q \in Requests : gone'[q] # "no" => request[q] \in {"answered", "lost"}
             /\ \A q \in Requests :
                  request[q] = "answered" /\ ~shutdown => q \in T \/ gone'[q] \in {"expired", "evicted"}
<1> USE DEF IInv
<1>1. gone' \in [Requests -> {"no", "expired", "evicted", "closed"}]
  BY DEF Reason, TypeOK
<1>2. \A q \in Requests : IF q \in expired \cup evicted THEN gone'[q] \in {"expired", "evicted"}
                                                       ELSE gone'[q] = gone[q]
  BY DEF Reason
<1>3. sessions \subseteq Requests
  BY DEF TypeOK
<1>. QED
  BY <1>1, <1>2, <1>3 DEF Served, AnswersHold, AnsweredStay

\* There are fewer sessions when some go.
LEMMA Fewer ==
  ASSUME IInv, NEW T \in SUBSET sessions
  PROVE  IsFiniteSet(T) /\ Cardinality(T) \in Nat /\ Cardinality(T) <= Cardinality(sessions)
  BY Counted, FS_Subset, FS_CardinalityType

LEMMA TouchInv ==
  ASSUME IInv, NEW r \in Requests, Touch(r)
  PROVE  IInv'
<1> USE ServerAssumption DEF IInv, Touch, RemoveAll, closeVars, faultVars
<1>1. overdue \cup {} = overdue /\ overdue \subseteq sessions /\ sessions \subseteq Requests
      /\ sessions' = sessions \ overdue /\ overdue' = {}
  BY DEF TypeOK
<1>2. /\ gone' \in [Requests -> {"no", "expired", "evicted", "closed"}]
      /\ \A s \in sessions' : request[s] \in {"answered", "lost"} /\ gone'[s] = "no"
      /\ \A q \in Requests : gone'[q] # "no" => request[q] \in {"answered", "lost"}
      /\ \A q \in Requests :
           request[q] = "answered" /\ ~shutdown => q \in sessions' \/ gone'[q] \in {"expired", "evicted"}
  BY <1>1, Pruned
<1>3. Ordered' /\ older' \subseteq sessions' \X sessions'
  <2>1. CASE r \in sessions \ overdue
    <3>1. sessions' = (sessions \ overdue) \cup {r} /\ older' = Using(r, sessions \ overdue)
      BY <1>1, <2>1
    <3>2. Ordered /\ older \subseteq sessions \X sessions /\ sessions \ overdue \in SUBSET sessions
      BY DEF TypeOK
    <3>. QED
      BY ONLY <3>1, <3>2, OrderUsing
  <2>2. CASE r \notin sessions \ overdue
    BY <1>1, <2>2, OrderAmong DEF TypeOK
  <2>. QED
    BY <2>1, <2>2
<1>4. Stores(sessions, refCount, projectStores, open)'
  <2>1. Stores(sessions \ overdue, CountAfter(overdue), StoresAfter(overdue), open \ Unused(overdue))
    BY <1>1, Removed
  <2>. QED
    BY <1>1, <2>1, StoresMove
<1>5. TypeOK'
  <2>0. /\ Stores(sessions \ overdue, CountAfter(overdue), StoresAfter(overdue), open \ Unused(overdue))
        /\ sessions \ overdue \in SUBSET Requests
    BY <1>1, Removed
  <2>1. /\ refCount' \in [Requests -> 0..Cardinality(Requests)]
        /\ projectStores' \in [Projects -> Requests \cup {NoStore}] /\ open' \subseteq Requests
    BY <2>0, CountsTyped
  <2>. QED
    BY <1>1, <1>2, <1>3, <2>1 DEF TypeOK
<1>6. Turns' /\ Served' /\ Resting'
  BY <1>1, <1>2 DEF Turns, Served, Resting, creating
<1>7. SessionsFit'
  <2>1. Binding' = Binding /\ Cardinality(Binding) \in Nat
    BY Counted DEF Binding
  <2>. QED
    BY <1>1, <2>1, Fewer, Counted DEF SessionsFit
<1>8. AnswersHold'
  BY <1>2 DEF AnswersHold, FailuresAreOwn, AnsweredStay
<1>. QED
  BY <1>3, <1>4, <1>5, <1>6, <1>7, <1>8

LEMMA DeadlineInv ==
  ASSUME IInv, NEW r \in Requests, Deadline(r)
  PROVE  IInv'
<1> USE DEF IInv, Deadline, closeVars, faultVars
<1>1. TypeOK'
  BY DEF TypeOK
<1>2. Turns' /\ Served' /\ Resting' /\ Ordered'
  BY DEF Turns, Served, Resting, Ordered, creating
<1>3. Stores(sessions, refCount, projectStores, open)'
  BY StoresMove
<1>4. SessionsFit'
  BY DEF SessionsFit, Binding
<1>5. AnswersHold'
  BY DEF AnswersHold, FailuresAreOwn, AnsweredStay
<1>. QED
  BY <1>1, <1>2, <1>3, <1>4, <1>5

LEMMA IdleCheckInv ==
  ASSUME IInv, IdleCheck
  PROVE  IInv'
<1> USE ServerAssumption DEF IInv, IdleCheck, RemoveAll, faultVars
<1>1. overdue \cup {} = overdue /\ overdue \subseteq sessions /\ sessions \subseteq Requests
      /\ sessions' = sessions \ overdue /\ overdue' = {}
  BY DEF TypeOK
<1>2. /\ gone' \in [Requests -> {"no", "expired", "evicted", "closed"}]
      /\ \A s \in sessions' : request[s] \in {"answered", "lost"} /\ gone'[s] = "no"
      /\ \A q \in Requests : gone'[q] # "no" => request[q] \in {"answered", "lost"}
      /\ \A q \in Requests :
           request[q] = "answered" /\ ~shutdown => q \in sessions' \/ gone'[q] \in {"expired", "evicted"}
  BY <1>1, Pruned
<1>3. Ordered' /\ older' \subseteq sessions' \X sessions'
  BY <1>1, OrderAmong DEF TypeOK
<1>4. Stores(sessions, refCount, projectStores, open)'
  <2>1. Stores(sessions \ overdue, CountAfter(overdue), StoresAfter(overdue), open \ Unused(overdue))
    BY <1>1, Removed
  <2>. QED
    BY <1>1, <2>1, StoresMove
<1>5. /\ lifecycle' \in {"running", "settling", "stopping", "closed"} /\ awaited' \subseteq Requests
      /\ Resting'
  <2>1. creating \subseteq Requests /\ (queue = <<>> => creating = {})
    BY DEF creating, ToSet, TypeOK
  <2>2. CASE HasActivity(sessions \ overdue)
    BY <2>2 DEF TypeOK, Resting
  <2>3. CASE ~HasActivity(sessions \ overdue)
    BY <1>1, <2>1, <2>3 DEF HasActivity, BeginClose, Resting
  <2>. QED
    BY <2>2, <2>3
<1>6. TypeOK'
  <2>0. /\ Stores(sessions \ overdue, CountAfter(overdue), StoresAfter(overdue), open \ Unused(overdue))
        /\ sessions \ overdue \in SUBSET Requests
    BY <1>1, Removed
  <2>1. /\ refCount' \in [Requests -> 0..Cardinality(Requests)]
        /\ projectStores' \in [Projects -> Requests \cup {NoStore}] /\ open' \subseteq Requests
    BY <2>0, CountsTyped
  <2>. QED
    BY <1>1, <1>2, <1>3, <1>5, <2>1 DEF TypeOK
<1>7. Turns' /\ Served'
  BY <1>1, <1>2 DEF Turns, Served, creating
<1>8. SessionsFit'
  <2>1. Binding' = Binding /\ Cardinality(Binding) \in Nat
    BY Counted DEF Binding
  <2>. QED
    BY <1>1, <2>1, Fewer, Counted DEF SessionsFit
<1>9. AnswersHold'
  BY <1>2 DEF AnswersHold, FailuresAreOwn, AnsweredStay
<1>. QED
  BY <1>3, <1>4, <1>5, <1>6, <1>7, <1>8, <1>9

LEMMA ShutdownInv ==
  ASSUME IInv, Shutdown \/ StopServer
  PROVE  IInv'
<1> USE DEF IInv, Shutdown, StopServer, sessionVars, faultVars
<1>1. creating \subseteq Requests
  BY DEF creating, ToSet, TypeOK
<1>2. UNCHANGED <<request, queue, sessions, older, overdue, storeOf, projectStores, refCount, open,
                  gone, failed, faults>>
  OBVIOUS
<1>3. /\ lifecycle' \in {"running", "settling", "stopping", "closed"} /\ awaited' \subseteq Requests
      /\ shutdown' \in BOOLEAN /\ (shutdown => shutdown') /\ Resting'
  BY <1>1 DEF BeginClose, TypeOK, Resting
<1>4. TypeOK'
  BY <1>2, <1>3 DEF TypeOK
<1>5. Turns' /\ Served' /\ Ordered'
  BY <1>2 DEF Turns, Served, Ordered, creating
<1>6. Stores(sessions, refCount, projectStores, open)'
  BY <1>2, StoresMove
<1>7. SessionsFit'
  BY <1>2 DEF SessionsFit, Binding
<1>8. AnswersHold'
  BY <1>2, <1>3 DEF AnswersHold, FailuresAreOwn, AnsweredStay
<1>. QED
  BY <1>3, <1>4, <1>5, <1>6, <1>7, <1>8

LEMMA CloseSessionsInv ==
  ASSUME IInv, CloseSessions
  PROVE  IInv'
<1> USE ServerAssumption DEF IInv, CloseSessions, RemoveAll, faultVars
<1>1. sessions' = {} /\ overdue' = {} /\ older' = {} /\ sessions \subseteq Requests
  BY DEF TypeOK
<1>2. /\ request' \in [Requests -> {"none", "body", "queued", "binding", "answered", "refused",
                                   "lost"}]
      /\ \A q \in Requests : IF request[q] = "body" THEN request'[q] = "lost"
                                                   ELSE request'[q] = request[q]
  BY DEF TypeOK
<1>3. /\ gone' \in [Requests -> {"no", "expired", "evicted", "closed"}]
      /\ \A q \in Requests : IF q \in sessions THEN gone'[q] = "closed" ELSE gone'[q] = gone[q]
  BY DEF TypeOK
<1>4. Stores(sessions, refCount, projectStores, open)'
  <2>1. /\ sessions \ sessions = {}
        /\ Stores(sessions \ sessions, CountAfter(sessions), StoresAfter(sessions),
                  open \ Unused(sessions))
    BY <1>1, Removed
  <2>. QED
    BY <1>1, <1>2, <2>1, StoresMove
<1>5. TypeOK'
  <2>0. /\ Stores(sessions \ sessions, CountAfter(sessions), StoresAfter(sessions), open \ Unused(sessions))
        /\ sessions \ sessions \in SUBSET Requests
    BY <1>1, Removed
  <2>1. /\ refCount' \in [Requests -> 0..Cardinality(Requests)]
        /\ projectStores' \in [Projects -> Requests \cup {NoStore}] /\ open' \subseteq Requests
    BY <2>0, CountsTyped
  <2>. QED
    BY <1>1, <1>2, <1>3, <2>1 DEF TypeOK
<1>6. Turns' /\ Served' /\ Ordered' /\ Resting'
  BY <1>1, <1>2, <1>3 DEF Turns, Served, Ordered, Resting, creating
<1>7. SessionsFit'
  <2>1. Binding' = Binding /\ Cardinality(Binding) \in Nat
    BY <1>2, Counted DEF Binding
  <2>. QED
    BY <1>1, <2>1, Fewer, Counted DEF SessionsFit
<1>8. AnswersHold'
  BY <1>1, <1>2, <1>3 DEF AnswersHold, FailuresAreOwn, AnsweredStay, Resting
<1>. QED
  BY <1>4, <1>5, <1>6, <1>7, <1>8

\* A session r more, of a store that is open or has just been bound.
LEMMA Joined ==
  ASSUME NEW T \in SUBSET Requests, NEW r \in Requests \ T, NEW store \in Requests,
         storeOf \in [Requests -> Requests \cup {NoStore}],
         storeOf' = [storeOf EXCEPT ![r] = store], sessions' = T \cup {r}
  PROVE  /\ storeOf'[r] = store /\ \A s \in T : storeOf'[s] = storeOf[s]
         /\ \A t \in Requests :
              /\ Users(t, sessions)' = IF t = store THEN Users(t, T) \cup {r} ELSE Users(t, T)
              /\ Cardinality(Users(t, sessions)') =
                   IF t = store THEN Cardinality(Users(t, T)) + 1 ELSE Cardinality(Users(t, T))
<1>1. storeOf'[r] = store /\ \A s \in T : storeOf'[s] = storeOf[s]
  OBVIOUS
<1>2. \A t \in Requests :
        Users(t, sessions)' = IF t = store THEN Users(t, T) \cup {r} ELSE Users(t, T)
  BY <1>1 DEF Users
<1>3. \A t \in Requests : IsFiniteSet(Users(t, T)) /\ r \notin Users(t, T)
  BY UsersFinite DEF Users
<1>4. \A t \in Requests : Cardinality(Users(t, T) \cup {r}) = Cardinality(Users(t, T)) + 1
  BY <1>3, FS_AddElement
<1>. QED
  BY <1>1, <1>2, <1>4

LEMMA AdmitInv ==
  ASSUME IInv, NEW r \in Requests, Admit(r)
  PROVE  IInv'
<1> USE ServerAssumption DEF IInv, closeVars, faultVars
<1> DEFINE S     == overdue \cup Evicted(overdue)
           T     == sessions \ S
           store == StoresAfter(S)[ProjectOf[r]]
<1>1. /\ queue # <<>> /\ r = Head(queue) /\ request[r] = "queued" /\ r \notin sessions
      /\ gone[r] = "no" /\ \A q \in Requests : request[q] # "binding"
      /\ gone' = Reason(overdue, Evicted(overdue)) /\ overdue' = {}
      /\ projectStores' = StoresAfter(S)
      /\ UNCHANGED <<lifecycle, awaited, shutdown, failed, faults>>
  BY DEF Admit, Turns, Served
<1>2. S \subseteq sessions /\ sessions \subseteq Requests /\ T \in SUBSET sessions /\ T \in SUBSET Requests
  BY DEF TypeOK, Evicted
<1>3. Stores(T, CountAfter(S), StoresAfter(S), open \ Unused(S))
  BY <1>2, Removed
<1>4. /\ CountAfter(S) \in [Requests -> 0..Cardinality(Requests)]
      /\ StoresAfter(S) \in [Projects -> Requests \cup {NoStore}] /\ open \ Unused(S) \subseteq Requests
      /\ store \in Requests \cup {NoStore}
  BY <1>2, <1>3, CountsTyped
<1>5. /\ gone' \in [Requests -> {"no", "expired", "evicted", "closed"}]
      /\ \A s \in T : request[s] \in {"answered", "lost"} /\ gone'[s] = "no"
      /\ \A q \in Requests : gone'[q] # "no" => request[q] \in {"answered", "lost"}
      /\ \A q \in Requests :
           request[q] = "answered" /\ ~shutdown => q \in T \/ gone'[q] \in {"expired", "evicted"}
  BY <1>1, <1>2, Pruned
<1>6. IsFiniteSet(T) /\ Cardinality(T) \in Nat /\ Cardinality(T) + 1 <= MaxSessions
  <2> DEFINE K == sessions \ overdue
  <2>1. /\ IsFiniteSet(K) /\ Cardinality(K) \in Nat /\ Cardinality(K) <= MaxSessions
        /\ MaxSessions \in Nat \ {0}
    BY Fewer, Counted DEF SessionsFit
  <2>2. CASE Cardinality(K) < MaxSessions
    <3>1. T \in SUBSET K
      OBVIOUS
    <3>2. IsFiniteSet(T) /\ Cardinality(T) \in Nat /\ Cardinality(T) <= Cardinality(K)
      BY <2>1, <3>1, FS_Subset, FS_CardinalityType
    <3>. QED
      BY <2>1, <2>2, <3>2
  <2>3. CASE Cardinality(K) >= MaxSessions
    <3>1. K # {}
      BY <2>1, <2>3, FS_EmptySet
    <3>2. PICK s \in K : \A t \in K \ {s} : <<s, t>> \in older
      BY <1>2, <3>1, OldestExists
    <3>3. s \in Evicted(overdue)
      BY <2>3, <3>2 DEF Evicted
    <3>4. /\ IsFiniteSet(K \ {s}) /\ Cardinality(K \ {s}) = Cardinality(K) - 1
          /\ T \in SUBSET (K \ {s})
      BY <2>1, <3>2, <3>3, FS_RemoveElement
    <3>5. IsFiniteSet(T) /\ Cardinality(T) \in Nat /\ Cardinality(T) <= Cardinality(K \ {s})
      BY <3>4, FS_Subset, FS_CardinalityType
    <3>. QED
      BY <2>1, <3>4, <3>5
  <2>. QED
    BY <2>1, <2>2, <2>3
<1>7. CASE store = NoStore
  <2>1. /\ sessions' = T /\ older' = Among(T) /\ refCount' = CountAfter(S)
        /\ open' = (open \ Unused(S)) \cup {r} /\ UNCHANGED <<queue, storeOf>>
        /\ request' \in [Requests -> {"none", "body", "queued", "binding", "answered", "refused",
                                     "lost"}]
        /\ request'[r] = "binding" /\ \A q \in Requests \ {r} : request'[q] = request[q]
    BY <1>7 DEF Admit, Found, TypeOK
  <2>2. Ordered' /\ older' \subseteq sessions' \X sessions'
    BY <1>2, <2>1, OrderAmong DEF TypeOK
  <2>3. TypeOK'
    BY <1>1, <1>2, <1>4, <1>5, <2>1, <2>2 DEF TypeOK
  <2>4. Turns' /\ Served' /\ Resting'
    <3>1. Turns'
      BY <1>1, <2>1 DEF Turns, creating
    <3>2. Served'
      BY <1>1, <1>2, <1>5, <2>1 DEF Served
    <3>3. Resting'
      BY <1>1, <2>1 DEF Resting
    <3>. QED
      BY <3>1, <3>2, <3>3
  <2>5. Stores(sessions, refCount, projectStores, open)'
    <3>1. \A t : Users(t, sessions)' = Users(t, T)
      BY <2>1 DEF Users
    <3> HIDE DEF S, T
    <3>2. /\ refCount' = [t \in Requests |-> Cardinality(Users(t, sessions)')]
          /\ open' \subseteq Requests
          /\ \A s \in sessions' : storeOf'[s] \in open' /\ projectStores'[ProjectOf[s]] = storeOf'[s]
      BY <1>1, <1>3, <2>1, <3>1 DEF Stores
    <3>3. \A t \in open' : request'[t] # "binding" => Users(t, sessions)' # {}
      BY <1>1, <1>3, <2>1, <3>1 DEF Stores
    <3>4. \A p \in Projects :
            projectStores'[p] # NoStore => /\ projectStores'[p] \in open' /\ ProjectOf[projectStores'[p]] = p
                                           /\ request'[projectStores'[p]] # "binding"
      <4>1. \A p \in Projects : StoresAfter(S)[p] # NoStore =>
              /\ StoresAfter(S)[p] \in open \ Unused(S) /\ ProjectOf[StoresAfter(S)[p]] = p
        BY <1>3 DEF Stores
      <4>2. \A p \in Projects : StoresAfter(S)[p] # NoStore => StoresAfter(S)[p] # r
        BY <1>7, <4>1
      <4>3. \A q \in open \ Unused(S) : q \in Requests /\ (q # r => request'[q] # "binding")
        BY <1>1, <1>4, <2>1
      <4>4. projectStores' = StoresAfter(S) /\ open \ Unused(S) \subseteq open'
        BY <1>1, <2>1
      <4>. QED
        BY ONLY <4>1, <4>2, <4>3, <4>4
    <3>5. \A q \in Requests :
            request'[q] = "binding" => q \in open' /\ projectStores'[ProjectOf[q]] = NoStore
      BY <1>1, <1>7, <2>1
    <3>. QED
      BY <1>1, <1>4, <3>2, <3>3, <3>4, <3>5 DEF Stores
  <2>6. SessionsFit'
    <3>1. Binding' = {r}
      BY <1>1, <2>1 DEF Binding
    <3>. QED
      BY <1>6, <2>1, <3>1, FS_Singleton DEF SessionsFit
  <2>7. AnswersHold'
    BY <1>1, <1>5, <2>1 DEF AnswersHold, FailuresAreOwn, AnsweredStay
  <2>. QED
    BY <2>2, <2>3, <2>4, <2>5, <2>6, <2>7
<1>8. CASE store # NoStore
  <2>1. /\ sessions' = T \cup {r} /\ older' = Using(r, T)
        /\ refCount' = [CountAfter(S) EXCEPT ![store] = @ + 1] /\ open' = open \ Unused(S)
        /\ storeOf' = [storeOf EXCEPT ![r] = store] /\ Leave(r, "answered")
    BY <1>8 DEF Admit, Found
  <2>2. /\ request' \in [Requests -> {"none", "body", "queued", "binding", "answered", "refused",
                                     "lost"}]
        /\ request'[r] \in {"answered", "lost"}
        /\ \A q \in Requests \ {r} : request'[q] = request[q]
        /\ \A q \in Requests : request'[q] # "binding"
        /\ queue' \in Seq(Requests) /\ IsInjective(queue') /\ Turns'
    BY <1>1, <2>1, Left
  <2>3. Ordered' /\ older' \subseteq sessions' \X sessions'
    BY <1>2, <2>1, OrderUsing DEF TypeOK
  <2>4. store \in Requests /\ storeOf \in [Requests -> Requests \cup {NoStore}]
    BY <1>4, <1>8 DEF TypeOK
  <2>5. Stores(sessions, refCount, projectStores, open)'
    <3>1. r \in Requests \ T
      BY <1>1, <1>2
    <3> HIDE DEF S, T, store
    <3>2. /\ storeOf'[r] = store /\ \A s \in T : storeOf'[s] = storeOf[s]
          /\ \A t \in Requests :
               /\ Users(t, sessions)' = IF t = store THEN Users(t, T) \cup {r} ELSE Users(t, T)
               /\ Cardinality(Users(t, sessions)') =
                    IF t = store THEN Cardinality(Users(t, T)) + 1 ELSE Cardinality(Users(t, T))
      BY <1>2, <2>1, <2>4, <3>1, Joined
    <3>3. \A t \in Requests : CountAfter(S)[t] = Cardinality(Users(t, T))
      BY <1>3 DEF Stores
    <3>4. refCount' = [t \in Requests |-> Cardinality(Users(t, sessions)')]
      BY <1>4, <2>1, <2>4, <3>2, <3>3
    <3>5. store \in open \ Unused(S) /\ StoresAfter(S)[ProjectOf[r]] = store
      BY <1>3, <1>8 DEF Stores, store
    <3>6. \A s \in sessions' : storeOf'[s] \in open' /\ projectStores'[ProjectOf[s]] = storeOf'[s]
      BY <1>1, <1>3, <2>1, <3>2, <3>5 DEF Stores
    <3>7. \A t \in open' : Users(t, sessions)' # {}
      <4>1. \A t \in open \ Unused(S) : t \in Requests /\ Users(t, T) # {}
        BY <1>1, <1>3, <1>4 DEF Stores
      <4>. QED
        BY <2>1, <3>2, <4>1
    <3>8. \A p \in Projects :
            projectStores'[p] # NoStore => projectStores'[p] \in open' /\ ProjectOf[projectStores'[p]] = p
      BY <1>1, <1>3, <2>1 DEF Stores
    <3>. QED
      BY <1>1, <1>4, <2>1, <2>2, <3>4, <3>6, <3>7, <3>8 DEF Stores
  <2>6. TypeOK'
    <3>1. sessions' \in SUBSET Requests /\ storeOf' \in [Requests -> Requests \cup {NoStore}]
      BY <1>2, <2>1, <2>4
    <3>2. /\ refCount' \in [Requests -> 0..Cardinality(Requests)]
          /\ projectStores' \in [Projects -> Requests \cup {NoStore}] /\ open' \subseteq Requests
      <4>1. \A t : Cardinality(Users(t, sessions)') \in 0..Cardinality(Requests)
        BY <3>1, UsersFinite DEF Users
      <4>2. refCount' = [t \in Requests |-> Cardinality(Users(t, sessions)')]
        BY <2>5 DEF Stores
      <4>3. refCount' \in [Requests -> 0..Cardinality(Requests)]
        BY ONLY <4>1, <4>2, Zenon
      <4>. QED
        BY <1>1, <1>4, <2>1, <4>3
    <3>. QED
      BY <1>1, <1>5, <2>2, <2>3, <3>1, <3>2 DEF TypeOK
  <2>7. Served' /\ Resting'
    <3>1. Served'
      BY <1>1, <1>2, <1>5, <2>1, <2>2 DEF Served
    <3>2. Resting'
      BY <1>1 DEF Resting
    <3>. QED
      BY <3>1, <3>2
  <2>8. SessionsFit'
    <3>1. Binding' = {}
      BY <2>2 DEF Binding
    <3>2. Cardinality(T \cup {r}) = Cardinality(T) + 1
      BY <1>1, <1>2, <1>6, FS_AddElement
    <3>. QED
      BY <1>6, <2>1, <3>1, <3>2, FS_EmptySet DEF SessionsFit
  <2>9. AnswersHold'
    BY <1>1, <1>5, <2>1, <2>2 DEF AnswersHold, FailuresAreOwn, AnsweredStay
  <2>. QED
    BY <2>2, <2>3, <2>5, <2>6, <2>7, <2>8, <2>9
<1>. QED
  BY <1>7, <1>8

LEMMA BindInv ==
  ASSUME IInv, NEW r \in Requests, Bind(r)
  PROVE  IInv'
<1> USE ServerAssumption DEF IInv, Bind, closeVars, faultVars
<1>1. /\ request[r] = "binding" /\ queue # <<>> /\ r = Head(queue) /\ r \notin sessions
      /\ gone[r] = "no" /\ sessions \subseteq Requests /\ Binding = {r}
      /\ storeOf \in [Requests -> Requests \cup {NoStore}]
  BY Counted DEF Turns, Served, TypeOK
<1>2. /\ request' \in [Requests -> {"none", "body", "queued", "binding", "answered", "refused",
                                   "lost"}]
      /\ request'[r] \in {"answered", "lost"}
      /\ \A q \in Requests \ {r} : request'[q] = request[q]
      /\ \A q \in Requests : request'[q] # "binding"
      /\ queue' \in Seq(Requests) /\ IsInjective(queue') /\ Turns'
  BY <1>1, Left
<1>3. Ordered' /\ older' \subseteq sessions' \X sessions'
  BY OrderUsing DEF TypeOK
<1>4. Stores(sessions, refCount, projectStores, open)'
  <2>1. /\ storeOf'[r] = r /\ \A s \in sessions : storeOf'[s] = storeOf[s]
        /\ \A t \in Requests :
             /\ Users(t, sessions)' = IF t = r THEN Users(t, sessions) \cup {r} ELSE Users(t, sessions)
             /\ Cardinality(Users(t, sessions)') = IF t = r THEN Cardinality(Users(t, sessions)) + 1
                                                          ELSE Cardinality(Users(t, sessions))
    BY <1>1, Joined
  <2>2. /\ r \in open /\ projectStores[ProjectOf[r]] = NoStore /\ ProjectOf[r] \in Projects
        /\ \A s \in sessions : storeOf[s] # r
    BY <1>1 DEF Stores
  <2>3. Users(r, sessions) = {} /\ Cardinality(Users(r, sessions)) = 0
    BY <2>2, FS_EmptySet DEF Users
  <2>4. refCount' = [t \in Requests |-> Cardinality(Users(t, sessions)')]
    <3>1. refCount = [t \in Requests |-> Cardinality(Users(t, sessions))]
      BY DEF Stores
    <3>2. \A t \in Requests : refCount'[t] = Cardinality(Users(t, sessions)')
      <4>1. refCount' = [refCount EXCEPT ![r] = 1] /\ refCount \in [Requests -> Int]
        BY DEF TypeOK
      <4>2. Cardinality(Users(r, sessions)') = 1
        <5>1. Users(r, sessions)' = {r}
          BY <2>1, <2>3
        <5>. QED
          BY <5>1, FS_Singleton
      <4>3. \A t \in Requests \ {r} : Cardinality(Users(t, sessions)') = refCount[t]
        BY <2>1, <3>1
      <4>. QED
        BY <4>1, <4>2, <4>3
    <3>3. refCount' = [t \in Requests |-> refCount'[t]]
      BY <3>1
    <3>. QED
      BY ONLY <3>2, <3>3, Zenon
  <2>5. /\ \A p \in Projects : projectStores'[p] = IF p = ProjectOf[r] THEN r ELSE projectStores[p]
        /\ projectStores' \in [Projects -> Requests \cup {NoStore}]
        /\ open' = open /\ open \subseteq Requests /\ sessions' = sessions \cup {r}
    BY <2>2 DEF Stores
  <2>6. \A s \in sessions' : storeOf'[s] \in open' /\ projectStores'[ProjectOf[s]] = storeOf'[s]
    BY <1>1, <2>1, <2>2, <2>5 DEF Stores
  <2>7. \A t \in open' : Users(t, sessions)' # {}
    <3>1. \A t \in open \ {r} : request[t] # "binding"
      BY <1>1, <2>5 DEF Binding
    <3>2. \A t \in open \ {r} : t \in Requests /\ Users(t, sessions) # {}
      BY <2>5, <3>1 DEF Stores
    <3>3. r \in Users(r, sessions)'
      BY <2>1
    <3>. QED
      BY <2>1, <2>5, <3>2, <3>3
  <2>8. \A p \in Projects :
          projectStores'[p] # NoStore => projectStores'[p] \in open' /\ ProjectOf[projectStores'[p]] = p
    BY <2>2, <2>5 DEF Stores
  <2>. QED
    BY <1>2, <2>4, <2>5, <2>6, <2>7, <2>8 DEF Stores
<1>5. TypeOK'
  <2>1. sessions' \in SUBSET Requests /\ storeOf' \in [Requests -> Requests \cup {NoStore}]
    BY <1>1
  <2>2. \A t : Cardinality(Users(t, sessions)') \in 0..Cardinality(Requests)
    BY <2>1, UsersFinite DEF Users
  <2>3. /\ refCount' = [t \in Requests |-> Cardinality(Users(t, sessions)')]
        /\ projectStores' \in [Projects -> Requests \cup {NoStore}] /\ open' \subseteq Requests
    BY <1>4 DEF Stores
  <2>4. refCount' \in [Requests -> 0..Cardinality(Requests)]
    BY ONLY <2>2, <2>3, Zenon
  <2>5. UNCHANGED <<overdue, gone, lifecycle, awaited, shutdown, failed, faults>>
        /\ sessions \subseteq sessions'
    OBVIOUS
  <2>. QED
    BY <1>2, <1>3, <2>1, <2>3, <2>4, <2>5 DEF TypeOK
<1>6. Served' /\ Resting'
  BY <1>1, <1>2 DEF Served, Resting
<1>7. SessionsFit'
  <2>1. Binding' = {} /\ Cardinality({}) = 0 /\ Cardinality(Binding) = 1
    BY <1>1, <1>2, FS_EmptySet, FS_Singleton DEF Binding
  <2>2. Cardinality(sessions') = Cardinality(sessions) + 1 /\ Cardinality(sessions) \in Nat
    BY <1>1, Counted, FS_AddElement
  <2>. QED
    BY <2>1, <2>2 DEF SessionsFit
<1>8. AnswersHold'
  BY <1>1, <1>2 DEF AnswersHold, FailuresAreOwn, AnsweredStay
<1>. QED
  BY <1>2, <1>3, <1>4, <1>5, <1>6, <1>7, <1>8

LEMMA BindFailsInv ==
  ASSUME IInv, NEW r \in Requests, BindFails(r)
  PROVE  IInv'
<1> USE ServerAssumption DEF IInv, BindFails, closeVars
<1>1. /\ request[r] = "binding" /\ queue # <<>> /\ r = Head(queue) /\ r \notin sessions
      /\ gone[r] = "no" /\ sessions \subseteq Requests /\ Binding = {r}
  BY Counted DEF Turns, Served, TypeOK
<1>2. /\ request' \in [Requests -> {"none", "body", "queued", "binding", "answered", "refused",
                                   "lost"}]
      /\ request'[r] \in {"refused", "lost"}
      /\ \A q \in Requests \ {r} : request'[q] = request[q]
      /\ \A q \in Requests : request'[q] # "binding"
      /\ queue' \in Seq(Requests) /\ IsInjective(queue') /\ Turns'
  BY <1>1, Left
<1>3. TypeOK'
  BY <1>2 DEF TypeOK
<1>4. Stores(sessions, refCount, projectStores, open)'
  <2>1. \A t : Users(t, sessions)' = Users(t, sessions)
    BY DEF Users
  <2>2. /\ \A s \in sessions : storeOf[s] # r
        /\ \A p \in Projects : projectStores[p] # r
    BY <1>1 DEF Stores
  <2>3. \A t \in open' : t \in open /\ request[t] # "binding"
    BY <1>1 DEF Binding, Stores
  <2>. QED
    BY <1>2, <2>1, <2>2, <2>3 DEF Stores
<1>5. Served' /\ Ordered' /\ Resting'
  BY <1>1, <1>2 DEF Served, Ordered, Resting
<1>6. SessionsFit'
  <2>1. Binding' = {} /\ Cardinality({}) = 0 /\ Cardinality(Binding) = 1
    BY <1>1, <1>2, FS_EmptySet, FS_Singleton DEF Binding
  <2>. QED
    BY <2>1, Counted DEF SessionsFit
<1>7. AnswersHold'
  BY <1>1, <1>2 DEF AnswersHold, FailuresAreOwn, AnsweredStay
<1>. QED
  BY <1>2, <1>3, <1>4, <1>5, <1>6, <1>7

LEMMA NextInv == IInv /\ [Next]_vars => IInv'
<1> SUFFICES ASSUME IInv, [Next]_vars PROVE IInv'
  OBVIOUS
<1>1. CASE Next
  BY <1>1, ReceiveInv, ReadBodyInv, AdmitInv, ResolveFailsInv, BindInv, BindFailsInv, TouchInv,
     DeadlineInv, IdleCheckInv, ShutdownInv, CloseSessionsInv DEF Next, Create
<1>2. CASE UNCHANGED vars
  <2> USE <1>2 DEF IInv, vars, sessionVars, closeVars, faultVars
  <2>1. TypeOK' /\ Turns' /\ Served' /\ Resting'
    BY DEF TypeOK, Turns, Served, Resting, creating
  <2>2. Ordered' /\ SessionsFit' /\ AnswersHold'
    BY DEF Ordered, SessionsFit, Binding, AnswersHold, FailuresAreOwn, AnsweredStay
  <2>3. Stores(sessions, refCount, projectStores, open)'
    BY StoresMove
  <2>. QED
    BY <2>1, <2>2, <2>3
<1>. QED
  BY <1>1, <1>2

LEMMA Invariance == Spec => []IInv
  BY InitInv, NextInv, PTL DEF Spec

-----------------------------------------------------------------------------

(* No session is left with a store that was closed, and no store is left   *)
(* open without a session: the counts are those of the sessions there are, *)
(* also where several of them go at once, or where one that shares a store *)
(* comes as the others go.                                                 *)
THEOREM StoresAreKept == Spec => []StoresFollowSessions
<1>1. IInv => StoresFollowSessions
  <2> SUFFICES ASSUME IInv PROVE StoresFollowSessions
    OBVIOUS
  <2>1. \A t \in open : t \in Requests /\ (request[t] # "binding" => Users(t, sessions) # {})
    BY DEF IInv, Stores
  <2>2. \A t \in open : refCount[t] = Cardinality(Users(t, sessions))
    BY <2>1 DEF IInv, Stores
  <2>3. \A t \in Requests : Users(t, sessions) # {} => Cardinality(Users(t, sessions)) > 0
    <3>1. sessions \in SUBSET Requests
      BY DEF IInv, TypeOK
    <3>2. \A t : /\ IsFiniteSet(Users(t, sessions)) /\ Cardinality(Users(t, sessions)) \in Nat
      BY <3>1, UsersFinite
    <3>. QED
      BY <3>2, FS_EmptySet
  <2>. QED
    BY <2>1, <2>2, <2>3
    DEF IInv, Stores, StoresFollowSessions, SessionStoresOpen, OpenStoresUsed
<1>. QED
  BY Invariance, <1>1, PTL

(* A creation fails only by its own path or store, and the URL it returns  *)
(* stays good until it expires, is evicted or a shutdown is asked for: the *)
(* idle timer never closes a daemon that somebody has just been given.     *)
THEOREM AnswersAreKept == Spec => []AnswersHold
  BY Invariance, PTL DEF IInv

(* There are never more sessions than there is room for, the one that is   *)
(* being bound included: the eviction makes room before a store is bound.  *)
THEOREM CapacityHolds == Spec => []SessionsFit
  BY Invariance, PTL DEF IInv

(* Only the session that was used least recently is evicted.               *)
THEOREM OldestIsEvicted == Spec => EvictsOldest
<1>1. ASSUME IInv, [Next]_vars, NEW s \in sessions, NEW t \in sessions,
             <<s, t>> \in older, gone'[t] = "evicted"
      PROVE  s \in overdue
  <2> USE <1>1 DEF IInv
  <2>1. gone[t] = "no" /\ t \in Requests /\ s # t /\ <<t, s>> \notin older
    BY DEF Served, TypeOK, Ordered
  <2>2. PICK r \in Requests : Admit(r)
    <3>1. ASSUME NEW r \in Requests, Receive(r) \/ ReadBody(r) \/ ResolveFails(r) \/ Bind(r)
                                     \/ BindFails(r) \/ Deadline(r) \/ Touch(r)
          PROVE  FALSE
      BY <2>1, <3>1 DEF Receive, ReadBody, ResolveFails, Bind, BindFails, Deadline, Touch,
         sessionVars, Reason
    <3>2. ASSUME IdleCheck \/ Shutdown \/ StopServer \/ CloseSessions PROVE FALSE
      BY <2>1, <3>2 DEF IdleCheck, Shutdown, StopServer, CloseSessions, sessionVars, Reason
    <3>3. ~UNCHANGED vars
      BY <2>1 DEF vars, sessionVars
    <3>. QED
      BY <3>1, <3>2, <3>3 DEF Next, Create
  <2>3. t \in Evicted(overdue)
    BY <2>1, <2>2 DEF Admit, Reason
  <2>. QED
    BY <2>1, <2>3 DEF Evicted
<1>2. IInv /\ [Next]_vars =>
        [\A s, t \in sessions :
           <<s, t>> \in older /\ gone'[t] = "evicted" => s \in overdue]_vars
  BY <1>1
<1>. QED
  BY Invariance, <1>2, PTL DEF Spec, EvictsOldest

-----------------------------------------------------------------------------
(* Trees of the page.                                                      *)

\* What document order says of a place.
LEMMA Places ==
  ASSUME NEW t \in Trees
  PROVE  /\ Root(t) \in Range(t.order)
         /\ \A n \in Range(t.order) : Place(t, n) \in Nat
<1>1. /\ t.order \in Seq(Range(t.order)) /\ t.order # <<>>
  BY TreeAssumption
<1>2. Root(t) \in Range(t.order)
  BY <1>1 DEF Root, Range
<1>3. ASSUME NEW n \in Range(t.order) PROVE Place(t, n) \in Nat
  <2>1. PICK k \in 1..Len(t.order) : t.order[k] = n
    BY <1>1 DEF Range
  <2>2. Place(t, n) \in 1..Len(t.order)
    BY <2>1 DEF Place
  <2> QED BY <1>1, <2>2
<1> QED BY <1>2, <1>3

\* The ancestors of a node are its parent and the ancestors of that: a function
\* that says so exists, with the least set that is closed under parents.
LEMMA AboveIs ==
  ASSUME NEW t \in Trees
  PROVE  \A m \in Range(t.order) :
           Ancestors(t, m) = IF m = Root(t) THEN {}
                             ELSE {t.parent[m]} \cup Ancestors(t, t.parent[m])
<1> DEFINE S == Range(t.order)
           Eqn(g) == g = [m \in S |-> IF m = Root(t) THEN {}
                                     ELSE {t.parent[m]} \cup g[t.parent[m]]]
           Closed(X) == \A x \in X : x # Root(t) => t.parent[x] \in X
           Up(m) == {a \in S : \A X \in SUBSET S : Closed(X) /\ m \in X => a \in X}
           f == [m \in S |-> IF m = Root(t) THEN {} ELSE Up(t.parent[m])]
<1>1. \A m \in S : m # Root(t) => t.parent[m] \in S
  BY TreeAssumption
<1>2. \A m \in S : m \in Up(m)
  OBVIOUS
<1>3. ASSUME NEW p \in S
      PROVE  Up(p) = {p} \cup (IF p = Root(t) THEN {} ELSE Up(t.parent[p]))
  <2> DEFINE Y == {p} \cup (IF p = Root(t) THEN {} ELSE Up(t.parent[p]))
  <2>1. Y \subseteq Up(p)
    <3>1. p # Root(t) => Up(t.parent[p]) \subseteq Up(p)
      OBVIOUS
    <3> QED BY <1>2, <3>1
  <2>2. Closed(Y) /\ p \in Y /\ Y \in SUBSET S
    <3>1. ASSUME NEW x \in Y, x # Root(t) PROVE t.parent[x] \in Y
      <4>1. CASE x = p
        BY <1>1, <1>2, <3>1, <4>1
      <4>2. CASE x # p
        <5>1. p # Root(t) /\ x \in Up(t.parent[p])
          BY <4>2
        <5>2. t.parent[x] \in S
          BY <1>1, <3>1, <5>1
        <5>3. t.parent[x] \in Up(t.parent[p])
          BY <3>1, <5>1, <5>2
        <5> QED BY <5>1, <5>3
      <4> QED BY <4>1, <4>2
    <3> QED BY <3>1
  <2>3. Up(p) \subseteq Y
    <3> HIDE DEF Y, Closed
    <3> QED BY <2>2
  <2> QED BY <2>1, <2>3
<1>4. Eqn(f)
  <2> HIDE DEF Up
  <2>1. \A m \in S : f[m] = IF m = Root(t) THEN {} ELSE {t.parent[m]} \cup f[t.parent[m]]
    BY <1>1, <1>3
  <2> QED BY <2>1
<1>5. Above[t] = CHOOSE above : Eqn(above)
  BY DEF Above
<1>6. Eqn(Above[t])
  <2> HIDE DEF f, Eqn
  <2> QED BY <1>4, <1>5
<1> QED BY <1>6 DEF Ancestors

\* So an ancestor comes before the node in document order.
LEMMA AboveEarlier ==
  ASSUME NEW t \in Trees
  PROVE  \A m \in Range(t.order) : \A a \in Ancestors(t, m) :
           a \in Range(t.order) /\ Place(t, a) < Place(t, m)
<1> DEFINE S == Range(t.order)
           Good(m) == \A a \in Ancestors(t, m) : a \in S /\ Place(t, a) < Place(t, m)
           Bad == {k \in Nat : \E m \in S : Place(t, m) = k /\ ~Good(m)}
           R == {r \in Nat \X Nat : r[1] < r[2]}
<1>1. IsWellFoundedOn(R, Nat)
  BY NatLessThanWellFounded DEF OpToRel
<1>2. SUFFICES ASSUME Bad # {} PROVE FALSE
  BY Places
<1>3. PICK k \in Bad : \A j \in Bad : <<j, k>> \notin R
  <2>1. Bad \subseteq Nat
    OBVIOUS
  <2> HIDE DEF Bad, R
  <2> QED BY <1>1, <1>2, <2>1, WFMin
<1>4. PICK m \in S : Place(t, m) = k /\ ~Good(m)
  OBVIOUS
<1>5. m # Root(t)
  BY <1>4, AboveIs
<1>6. t.parent[m] \in S /\ Place(t, t.parent[m]) < k
  BY <1>4, <1>5, TreeAssumption
<1>7. Good(t.parent[m])
  <2>1. Place(t, t.parent[m]) \in Nat /\ k \in Nat
    BY <1>6, Places
  <2> QED BY <1>3, <1>6, <2>1
<1>8. Good(m)
  <2>1. Ancestors(t, m) = {t.parent[m]} \cup Ancestors(t, t.parent[m])
    BY <1>5, AboveIs
  <2>2. Place(t, t.parent[m]) \in Nat /\ Place(t, m) \in Nat
    BY <1>6, Places
  <2>3. \A a \in S : Place(t, a) \in Nat
    BY Places
  <2> QED BY <1>4, <1>6, <1>7, <2>1, <2>2, <2>3
<1> QED BY <1>4, <1>8

LEMMA TreeNodes ==
  ASSUME NEW t \in Trees
  PROVE  Range(t.order) \subseteq Nodes /\ Parented(t) \subseteq Range(t.order)
BY TreeAssumption DEF Nodes

\* The root is never hidden, nor is what a search finds, whatever is folded.
LEMMA AlwaysShown ==
  ASSUME NEW t \in Trees, NEW closed, NEW wanted
  PROVE  /\ Root(t) \in Range(t.order) \ Hidden(t, closed, wanted)
         /\ wanted \in Queries =>
              Matches(t, wanted) \subseteq Range(t.order) \ Hidden(t, closed, wanted)
<1>1. Root(t) \in Range(t.order) /\ Ancestors(t, Root(t)) = {}
  BY Places, AboveIs
<1>2. ASSUME wanted \in Queries, NEW m \in Matches(t, wanted)
      PROVE  m \in Range(t.order) \ Hidden(t, closed, wanted)
  <2>1. m \in Range(t.order)
    BY <1>2 DEF Matches, MatchTable
  <2>2. Ancestors(t, m) \subseteq Opened[t][wanted]
    BY <1>2 DEF Opened
  <2> QED BY <2>1, <2>2 DEF Hidden
<1> QED BY <1>1, <1>2 DEF Hidden

\* Where nothing is shown there is no focus to lose; where a tree is, rendering
\* leaves the focus on something visible.
LEMMA RefocusShown ==
  ASSUME NEW focus \in Nodes \cup {None}, tree' \in Trees \cup {None},
         selected' \in Nodes \cup {None}, Refocus(focus)
  PROVE  /\ treeFocus' \in Nodes \cup {None}
         /\ tree' # None => treeFocus' \in Shown'
<1>1. CASE tree' = None \/ focus \in Shown'
  BY <1>1 DEF Refocus
<1>2. CASE tree' # None /\ focus \notin Shown'
  <2>1. tree' \in Trees
    BY <1>2
  <2>2. Root(tree') \in Shown' /\ Root(tree') \in Nodes
    BY <2>1, AlwaysShown, TreeNodes DEF Shown
  <2>3. treeFocus' = IF selected' \in Shown' THEN selected' ELSE Root(tree')
    BY <1>2 DEF Refocus
  <2> QED BY <2>2, <2>3
<1> QED BY <1>1, <1>2

\* A step that renders all views.
LEMMA RenderedVisible ==
  ASSUME NEW focus \in Nodes \cup {None}, NEW center \in Nodes \cup {None},
         tree' \in Trees \cup {None}, selected' \in Nodes \cup {None},
         RenderAllViews(focus, center)
  PROVE  /\ treeFocus' \in Nodes \cup {None} /\ mapFocus' \in Nodes \cup {None}
         /\ FocusVisible'
<1>1. treeFocus' \in Nodes \cup {None} /\ (tree' # None => treeFocus' \in Shown')
  BY RefocusShown DEF RenderAllViews
<1>2. mapFocus' \in Nodes \cup {None}
  BY DEF RenderAllViews, Recenter
<1> QED BY <1>1, <1>2 DEF FocusVisible, Live

-----------------------------------------------------------------------------
(* The tree of the page under every step.                                  *)

TreeInv == TreeTypeOK /\ FocusVisible /\ DetailsBelong

LEMMA TreeInitInv == TreeInit => TreeInv
BY TreeAssumption DEF TreeInit, TreeInv, TreeTypeOK, FocusVisible, Live, DetailsBelong

\* What a snapshot makes of what was there: of the view, or of a blank one.
LEMMA TransitionKeeps ==
  ASSUME TreeTypeOK, DetailsBelong, NEW next \in Snapshots, NEW was \in {Blank, Current},
         Transition(next, was)
  PROVE  /\ tree' \in Trees \cup {None} /\ folded' \subseteq Nodes
         /\ overviewPending' \in BOOLEAN /\ detailOpen' \in BOOLEAN
         /\ selected' \in Nodes \cup {None} /\ DetailsBelong'
<1>1. /\ was.tree \in Trees \cup {None} /\ was.folded \subseteq Nodes
      /\ was.pending \in BOOLEAN /\ was.open \in BOOLEAN
      /\ was.selected \in Nodes \cup {None}
      /\ was.selected # None => was.tree # None /\ was.selected \in Range(was.tree.order)
      /\ was.open => was.selected # None
  <2>1. CASE was = Blank
    BY <2>1 DEF Blank
  <2>2. CASE was = Current
    BY <2>2 DEF Current, TreeTypeOK, DetailsBelong
  <2> QED BY <2>1, <2>2
<1>2. next.tree \in Trees \cup {None}
  BY DEF Snapshots
<1>3. CASE next.tree = None \/ (next.status # "synced" /\ was.tree # None)
  <2>1. /\ tree' = was.tree /\ folded' = was.folded /\ overviewPending' = was.pending
        /\ selected' = was.selected /\ detailOpen' = was.open
    BY <1>3 DEF Transition
  <2> QED BY <1>1, <2>1 DEF DetailsBelong
<1>4. CASE ~(next.tree = None \/ (next.status # "synced" /\ was.tree # None))
  <2> DEFINE overview == was.pending /\ next.status = "synced"
  <2>1. /\ tree' = next.tree
        /\ folded' = IF overview THEN InitialOverviewFolds(next.tree)
                     ELSE was.folded \cap Range(next.tree.order)
        /\ overviewPending' = (was.pending /\ ~overview)
        /\ Reselect(next.tree, was.selected, was.open)
    BY <1>4 DEF Transition
  <2>2. next.tree \in Trees /\ next.tree # None
    BY <1>2, <1>4
  <2>3. folded' \subseteq Nodes
    BY <1>1, <2>1, <2>2, TreeNodes DEF InitialOverviewFolds, Children
  <2>4. overviewPending' \in BOOLEAN
    BY <2>1
  <2>5. /\ selected' = IF was.selected \in Range(next.tree.order) THEN was.selected ELSE None
        /\ detailOpen' = (was.open /\ selected' # None)
    BY <2>1 DEF Reselect
  <2>6. selected' \in Nodes \cup {None} /\ detailOpen' \in BOOLEAN
    BY <1>1, <2>5
  <2>7. DetailsBelong'
    BY <2>1, <2>2, <2>5 DEF DetailsBelong
  <2> QED BY <2>1, <2>2, <2>3, <2>4, <2>6, <2>7
<1> QED BY <1>3, <1>4

\* A snapshot that says something new.
LEMMA ApplyNewInv ==
  ASSUME TreeInv, NEW next \in Snapshots, ApplyNew(next)
  PROVE  TreeInv'
<1> USE DEF TreeInv
<1> DEFINE rebound == binding # None /\ binding # next.binding
           was == IF rebound THEN Blank ELSE Current
<1>1. /\ was \in {Blank, Current} /\ Transition(next, was)
      /\ snapshot' = next /\ binding' = next.binding /\ terminal' = terminal
      /\ query' = IF rebound THEN {} ELSE query
      /\ displayMode' = IF rebound THEN "split" ELSE displayMode
  BY DEF ApplyNew
<1>2. PICK focus \in {None, treeFocus}, center \in {None, mapFocus} : RenderAllViews(focus, center)
  BY DEF ApplyNew
<1> HIDE DEF was, rebound
<1>3. /\ tree' \in Trees \cup {None} /\ folded' \subseteq Nodes
      /\ overviewPending' \in BOOLEAN /\ detailOpen' \in BOOLEAN
      /\ selected' \in Nodes \cup {None} /\ DetailsBelong'
  BY <1>1, TransitionKeeps
<1>4. /\ treeFocus' \in Nodes \cup {None} /\ mapFocus' \in Nodes \cup {None}
      /\ FocusVisible'
  <2>1. focus \in Nodes \cup {None} /\ center \in Nodes \cup {None}
    BY DEF TreeTypeOK
  <2> QED BY <1>2, <1>3, <2>1, RenderedVisible
<1>5. /\ snapshot' \in Snapshots \cup {None} /\ binding' \in Bindings \cup {None}
      /\ query' \in Queries /\ displayMode' \in {"tree", "map", "split"}
      /\ terminal' \in BOOLEAN
  BY <1>1, TreeAssumption DEF Snapshots, TreeTypeOK
<1> QED BY <1>3, <1>4, <1>5 DEF TreeTypeOK

\* What the user does and all views show.
LEMMA RenderedInv ==
  ASSUME TreeInv, Live,
         folded' \subseteq Nodes, query' \in Queries, displayMode' \in {"tree", "map", "split"},
         UNCHANGED <<snapshot, binding, tree, overviewPending, terminal>>,
         \/ UNCHANGED <<selected, detailOpen>>
         \/ selected' \in Shown /\ detailOpen' \in BOOLEAN,
         NEW focus \in Nodes \cup {None}, NEW center \in Nodes \cup {None},
         RenderAllViews(focus, center)
  PROVE  TreeInv'
<1> USE DEF TreeInv
<1>1. tree \in Trees /\ tree # None /\ tree' = tree
  BY DEF Live, TreeTypeOK
<1>2. Shown \subseteq Range(tree.order) /\ Range(tree.order) \subseteq Nodes
  BY <1>1, TreeNodes DEF Shown
<1>3. /\ selected' \in Nodes \cup {None} /\ detailOpen' \in BOOLEAN
  BY <1>2 DEF TreeTypeOK
<1>4. DetailsBelong'
  <2>1. CASE UNCHANGED <<selected, detailOpen>>
    BY <1>1, <2>1 DEF DetailsBelong
  <2>2. CASE selected' \in Shown
    BY <1>1, <1>2, <2>2, TreeAssumption DEF DetailsBelong
  <2> QED BY <2>1, <2>2
<1>5. /\ treeFocus' \in Nodes \cup {None} /\ mapFocus' \in Nodes \cup {None}
      /\ FocusVisible'
  BY <1>1, <1>3, RenderedVisible
<1> QED BY <1>1, <1>3, <1>4, <1>5 DEF TreeTypeOK

LEMMA FoldsInv ==
  ASSUME TreeInv,
         \/ \E n \in Nodes : ToggleFold(n) \/ (\E s \in {"tree", "map"} : SelectNode(n, s))
         \/ ExpandAll \/ CollapseAll
         \/ \E wanted \in Queries : Search(wanted)
         \/ \E mode \in {"tree", "map", "split"} : SetDisplayMode(mode)
  PROVE  TreeInv'
<1> USE DEF TreeInv
<1>1. /\ folded \subseteq Nodes /\ query \in Queries /\ displayMode \in {"tree", "map", "split"}
      /\ treeFocus \in Nodes \cup {None} /\ mapFocus \in Nodes \cup {None}
  BY DEF TreeTypeOK
<1>2. ASSUME NEW n \in Nodes, ToggleFold(n) PROVE TreeInv'
  <2>1. folded' \subseteq Nodes
    BY <1>1, <1>2 DEF ToggleFold
  <2>2. RenderAllViews(treeFocus, mapFocus)
    BY <1>2 DEF ToggleFold
  <2> QED BY <1>1, <1>2, <2>1, <2>2, RenderedInv DEF ToggleFold
<1>3. ASSUME NEW n \in Nodes, NEW s \in {"tree", "map"}, SelectNode(n, s) PROVE TreeInv'
  <2>1. folded' \subseteq Nodes /\ selected' \in Shown /\ detailOpen' \in BOOLEAN
    BY <1>1, <1>3 DEF SelectNode
  <2>2. PICK focus \in {n, treeFocus} : RenderAllViews(focus, n)
    BY <1>3 DEF SelectNode
  <2>3. focus \in Nodes \cup {None} /\ n \in Nodes \cup {None}
    BY <1>1
  <2> QED BY <1>1, <1>3, <2>1, <2>2, <2>3, RenderedInv DEF SelectNode
<1>4. ASSUME ExpandAll PROVE TreeInv'
  <2>1. folded' \subseteq Nodes
    BY <1>4 DEF ExpandAll
  <2>2. RenderAllViews(treeFocus, mapFocus)
    BY <1>4 DEF ExpandAll
  <2> QED BY <1>1, <1>4, <2>1, <2>2, RenderedInv DEF ExpandAll
<1>5. ASSUME CollapseAll PROVE TreeInv'
  <2>1. tree \in Trees
    BY <1>5 DEF CollapseAll, Live, TreeTypeOK
  <2>2. folded' \subseteq Nodes
    BY <1>5, <2>1, TreeNodes DEF CollapseAll, Children
  <2>3. RenderAllViews(treeFocus, mapFocus)
    BY <1>5 DEF CollapseAll
  <2> QED BY <1>1, <1>5, <2>2, <2>3, RenderedInv DEF CollapseAll
<1>6. ASSUME NEW wanted \in Queries, Search(wanted) PROVE TreeInv'
  <2>1. tree \in Trees
    BY <1>6 DEF Search, Live, TreeTypeOK
  <2>2. Matches(tree, wanted) \subseteq Nodes
    BY <2>1, AlwaysShown, TreeNodes
  <2>3. PICK center \in {None} \cup Matches(tree, wanted) : RenderAllViews(treeFocus, center)
    BY <1>6 DEF Search
  <2>4. center \in Nodes \cup {None}
    BY <2>2
  <2>5. /\ Live /\ query' = wanted /\ UNCHANGED <<snapshot, binding, tree, folded,
             overviewPending, displayMode, selected, detailOpen, terminal>>
    BY <1>6 DEF Search
  <2> QED BY <1>1, <2>3, <2>4, <2>5, RenderedInv
<1>7. ASSUME NEW mode \in {"tree", "map", "split"}, SetDisplayMode(mode) PROVE TreeInv'
  <2>1. RenderAllViews(treeFocus, mapFocus)
    BY <1>7 DEF SetDisplayMode
  <2> QED BY <1>1, <1>7, <2>1, RenderedInv DEF SetDisplayMode
<1> QED BY <1>2, <1>3, <1>4, <1>5, <1>6, <1>7

\* The keyboard goes to visible items only: a node is not below itself, and what
\* hides a parent hides its children.
LEMMA KeyboardInv ==
  ASSUME TreeInv,
         \/ \E n \in Nodes : Disclose(n)
         \/ \E by \in {-1, 1} : Arrow(by)
         \/ ToParent
  PROVE  TreeInv'
<1> USE DEF TreeInv
<1>1. /\ tree \in Trees /\ Live
      /\ Shown \subseteq Range(tree.order) /\ Range(tree.order) \subseteq Nodes
  <2>1. Live
    BY DEF Disclose, Arrow, ToParent
  <2> QED BY <2>1, TreeNodes DEF Live, TreeTypeOK, Shown
<1>2. ASSUME NEW n \in Nodes, Disclose(n) PROVE TreeInv'
  <2>1. /\ UNCHANGED <<snapshot, binding, tree, query, overviewPending, displayMode,
                       selected, detailOpen, terminal>>
        /\ n \in Shown /\ treeFocus' = n /\ Recenter(mapFocus)
        /\ folded' = IF n \in folded THEN folded \ {n} ELSE folded \cup {n}
    BY <1>2 DEF Disclose
  <2>2. n \notin Ancestors(tree, n)
    <3>1. n \in Range(tree.order)
      BY <1>1, <2>1
    <3>2. Place(tree, n) \in Nat
      BY <1>1, <3>1, Places
    <3> QED BY <1>1, <3>1, <3>2, AboveEarlier
  <2>3. n \in Shown'
    <3>1. Ancestors(tree, n) \cap (folded' \ Opened[tree][query]) = {}
      BY <2>1, <2>2 DEF Shown, Hidden
    <3>2. n \in Range(tree'.order) /\ n \notin Hidden(tree', folded', query')
      BY <1>1, <2>1, <3>1 DEF Hidden
    <3> QED BY <3>2 DEF Shown
  <2>4. /\ treeFocus' \in Nodes \cup {None} /\ folded' \subseteq Nodes
        /\ mapFocus' \in Nodes \cup {None}
    BY <1>2, <2>1 DEF Recenter, TreeTypeOK
  <2>5. FocusVisible' /\ DetailsBelong'
    BY <2>1, <2>3 DEF FocusVisible, DetailsBelong
  <2> QED BY <2>1, <2>4, <2>5 DEF TreeTypeOK
<1>3. ASSUME UNCHANGED <<snapshot, view, mapFocus, terminal>>, treeFocus' \in Shown PROVE TreeInv'
  <2>1. UNCHANGED <<binding, tree, folded, query, overviewPending, displayMode, selected, detailOpen>>
    BY <1>3 DEF view
  <2>2. Shown' = Shown
    BY <2>1 DEF Shown, Hidden
  <2>3. FocusVisible' /\ DetailsBelong'
    BY <1>3, <2>1, <2>2 DEF FocusVisible, DetailsBelong
  <2> QED BY <1>1, <1>3, <2>1, <2>3 DEF TreeTypeOK
<1>4. ASSUME NEW by \in {-1, 1}, Arrow(by) PROVE TreeInv'
  BY <1>3, <1>4 DEF Arrow
<1>5. ASSUME ToParent PROVE TreeInv'
  <2> DEFINE p == tree.parent[treeFocus]
  <2>1. treeFocus \in Shown /\ treeFocus # Root(tree) /\ treeFocus' = p
    BY <1>1, <1>5 DEF FocusVisible, ToParent
  <2>2. treeFocus \in Range(tree.order)
    BY <1>1, <2>1
  <2>3. p \in Range(tree.order)
    BY <1>1, <2>1, <2>2, TreeAssumption
  <2>4. Ancestors(tree, treeFocus) = {p} \cup Ancestors(tree, p)
    BY <1>1, <2>1, <2>2, AboveIs
  <2>5. p \in Shown
    BY <2>1, <2>3, <2>4 DEF Shown, Hidden
  <2> QED BY <1>3, <1>5, <2>1, <2>5 DEF ToParent
<1> QED BY <1>2, <1>4, <1>5

LEMMA TreeStepInv ==
  ASSUME TreeInv, [TreeNext]_treeVars
  PROVE  TreeInv'
<1> USE DEF TreeInv
<1>1. ASSUME view' = view, UNCHANGED <<treeFocus, mapFocus, terminal>>,
             snapshot' \in Snapshots \cup {None}
      PROVE  TreeInv'
  <2>1. UNCHANGED <<binding, tree, folded, query, overviewPending, displayMode, selected, detailOpen>>
    BY <1>1 DEF view
  <2>2. Shown' = Shown
    BY <2>1 DEF Shown, Hidden
  <2>3. FocusVisible' /\ DetailsBelong'
    BY <1>1, <2>1, <2>2 DEF FocusVisible, Live, DetailsBelong
  <2> QED BY <1>1, <2>1, <2>3 DEF TreeTypeOK
<1>2. ASSUME NEW next \in Snapshots, ApplySame(next) PROVE TreeInv'
  BY <1>1, <1>2 DEF ApplySame
<1>3. ASSUME Expire PROVE TreeInv'
  BY <1>3 DEF Expire, TreeTypeOK, FocusVisible, Live, DetailsBelong
<1>4. ASSUME CloseDetails PROVE TreeInv'
  <2>1. /\ UNCHANGED <<snapshot, binding, tree, folded, query, overviewPending, displayMode,
                       selected, treeFocus, mapFocus, terminal>>
        /\ detailOpen' = FALSE
    BY <1>4 DEF CloseDetails
  <2>2. Shown' = Shown
    BY <2>1 DEF Shown, Hidden
  <2>3. FocusVisible' /\ DetailsBelong'
    BY <2>1, <2>2 DEF FocusVisible, Live, DetailsBelong
  <2> QED BY <2>1, <2>3 DEF TreeTypeOK
<1>5. ASSUME UNCHANGED treeVars PROVE TreeInv'
  BY <1>1, <1>5 DEF treeVars, TreeTypeOK
<1>6. ASSUME User PROVE TreeInv'
  BY <1>4, <1>6, FoldsInv, KeyboardInv DEF User
<1> QED BY <1>2, <1>3, <1>5, <1>6, ApplyNewInv DEF TreeNext

LEMMA TreeInvariance == TreeSpec => []TreeInv
BY TreeInitInv, TreeStepInv, PTL DEF TreeSpec

-----------------------------------------------------------------------------

\* Whatever is folded, searched or replaced, the item that has the focus is on
\* the screen, and so is every match of the search (app.mjs, renderNavigationTree;
\* model.mjs, buildVisibleTree).
THEOREM InUseIsVisibleAlways == TreeSpec => []InUseIsVisible
<1>1. TreeInv => InUseIsVisible
  <2> SUFFICES ASSUME TreeInv PROVE InUseIsVisible
    OBVIOUS
  <2>1. MatchesVisible
    <3> SUFFICES ASSUME Live PROVE Matches(tree, query) \subseteq Shown
      BY DEF MatchesVisible
    <3>1. tree \in Trees /\ query \in Queries
      BY DEF TreeInv, TreeTypeOK, Live
    <3> QED BY <3>1, AlwaysShown DEF Shown
  <2> QED BY <2>1 DEF TreeInv, InUseIsVisible
<1> QED BY <1>1, TreeInvariance, PTL

\* The details are never open on a node that the shown tree does not have
\* (model.mjs, reconcileSelectedNode).
THEOREM DetailsBelongAlways == TreeSpec => []DetailsBelong
<1>1. TreeInv => DetailsBelong
  BY DEF TreeInv
<1> QED BY <1>1, TreeInvariance, PTL

\* A snapshot of the same project takes away neither a fold nor the last valid
\* tree (model.mjs, transitionSnapshotViewState).
THEOREM SnapshotsKeepViewAlways == TreeSpec => SnapshotsKeepView
<1> DEFINE
      KeepsFolds == snapshot' # snapshot /\ binding' = binding /\ ~overviewPending /\ tree # None =>
                 tree' # None /\
                   \A n \in Range(tree.order) \cap Range(tree'.order) :
                     n \in folded <=> n \in folded'
      KeepsTree == snapshot' # snapshot /\ binding' = binding /\ tree # None =>
                 tree' # None /\ (snapshot'.status # "synced" => tree' = tree)
<1>1. ASSUME TreeInv, [TreeNext]_treeVars PROVE KeepsFolds /\ KeepsTree
  <2> SUFFICES ASSUME snapshot' # snapshot, binding' = binding, tree # None
               PROVE  /\ tree' # None /\ (snapshot'.status # "synced" => tree' = tree)
                      /\ ~overviewPending =>
                           \A n \in Range(tree.order) \cap Range(tree'.order) :
                             n \in folded <=> n \in folded'
    OBVIOUS
  <2>1. PICK next \in Snapshots : ApplySame(next) \/ ApplyNew(next)
    BY <1>1 DEF TreeNext, treeVars, User, Expire, ToggleFold, Disclose, SelectNode, Arrow, ToParent,
                CloseDetails, ExpandAll, CollapseAll, Search, SetDisplayMode
  <2>2. CASE ApplySame(next)
    BY <2>2 DEF ApplySame, view
  <2>3. CASE ApplyNew(next)
    <3>1. snapshot' = next /\ Transition(next, Current)
      BY <2>3 DEF ApplyNew
    <3>2. CASE next.tree = None \/ next.status # "synced"
      BY <3>1, <3>2 DEF Transition, Current
    <3>3. CASE next.tree # None /\ next.status = "synced"
      BY <3>1, <3>3 DEF Transition, Current
    <3> QED BY <3>2, <3>3
  <2> QED BY <2>1, <2>2, <2>3
<1>2. TreeSpec => [][KeepsFolds]_treeVars /\ [][KeepsTree]_treeVars
  BY <1>1, TreeInvariance, PTL DEF TreeSpec
<1> QED BY <1>2, PTL DEF SnapshotsKeepView, FoldsAreUsers, LastValidStays
=============================================================================
