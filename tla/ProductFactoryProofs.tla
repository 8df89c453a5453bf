------------------------ MODULE ProductFactoryProofs ------------------------
(***************************************************************************)
(* The properties of ProductFactory for every order of stages that ends in *)
(* ACCEPT, every limit of the ledger and every set of products.            *)
(***************************************************************************)
EXTENDS ProductFactory, FiniteSetTheorems, TLAPS

(* The types and the numbers. *)

\* A run is at a stage while it is running, and past the last one when it was accepted.
RunsAreTyped(f) ==
  /\ f \in [Runs -> Run \cup {None}]
  /\ \A r \in Runs : f[r] # None =>
       /\ f[r].state = "RUNNING" => f[r].stage \in 1..Len(StageOrder)
       /\ f[r].state = "ACCEPTED" => f[r].stage = Len(StageOrder) + 1

\* Every entry has the number that follows that of the one before it.
LedgerIsTyped(l) ==
  /\ l.sequence \in Nat /\ l.entries \in Seq(Entry)
  /\ Len(l.entries) <= MaxEntries /\ Len(l.entries) <= l.sequence
  /\ \A i \in DOMAIN l.entries : l.entries[i].sequence = l.sequence - (Len(l.entries) - i)

\* What is stored has its tasks in the graph g.
Backed(f, g) ==
  \A r \in Runs : f[r] # None => TasksOf(r, f[r].product, f[r].spec) \subseteq g

FactoryTypes ==
  /\ RunsAreTyped(runs) /\ RunsAreTyped(saved.runs)
  /\ LedgerIsTyped(ledger) /\ LedgerIsTyped(saved.ledger)
  /\ tasks \subseteq Task /\ saved.tasks \subseteq Task /\ promotions \subseteq Promotion
  /\ earned \subseteq Products \X (Commits \cup {None})
  /\ restarts \in Nat

TasksAreThere ==
  Backed(runs, tasks) /\ Backed(saved.runs, tasks) /\ Backed(saved.runs, saved.tasks)

\* What was accepted was earned.
AcceptedIsEarned(f) ==
  \A r \in Runs : f[r] # None /\ f[r].state = "ACCEPTED" => <<f[r].product, f[r].commit>> \in earned

\* An entry of the ledger before the i-th tells of the promotion.
Told(entries, i, c, d) ==
  \E j \in 1..(i - 1) : /\ entries[j].kind = "promoted"
                        /\ entries[j].deployment = d /\ entries[j].commit = c

\* It is known unless an entry was dropped.
Known(l, i, c, d) == l.sequence > Len(l.entries) \/ Told(l.entries, i, c, d)

\* A commit that goes live was earned, and its promotion told if nothing was dropped or undone.
LiveWasEarned(l) ==
  \A i \in DOMAIN l.entries : l.entries[i].kind = "production-accepted" =>
    /\ <<l.entries[i].product, l.entries[i].commit>> \in earned
    /\ restarts > 0 \/ Known(l, i, l.entries[i].commit, l.entries[i].deployment)

LiveInv ==
  /\ AcceptedIsEarned(runs) /\ AcceptedIsEarned(saved.runs)
  /\ \A p \in promotions :
       /\ <<p.product, p.commit>> \in earned
       /\ restarts > 0 \/ Known(ledger, Len(ledger.entries) + 1, p.commit, p.deployment)
  /\ LiveWasEarned(ledger) /\ LiveWasEarned(saved.ledger)

----------------------------------------------------------------------------
(* The audit trail. *)

Mine(s, r, i) == {j \in 1..i : s[j].run = r}

Starts(s, r, i) == {j \in Mine(s, r, i) : s[j].kind = "created"}

\* The stages among the entries of run r since it was created for the last time, up to the i-th.
Passed(s, r, i) ==
  {j \in Mine(s, r, i) : (\A k \in Starts(s, r, i) : k <= j) /\ s[j].stage # None}

\* They are the first n stages, accepted in order.
InOrder(s, S, n) ==
  /\ Cardinality(S) = n
  /\ \A j \in S : /\ s[j].kind = "stage-accepted"
                  /\ s[j].stage = StageOrder[Cardinality({k \in S : k <= j})]

\* Unless the creation of the run was dropped.
Audited(s, r, i, n) == Starts(s, r, i) # {} => InOrder(s, Passed(s, r, i), n)

\* A promotion shows every stage, and a run that has not failed those before its own.
TrailsAreWhole(f, s) ==
  /\ \A i \in DOMAIN s : s[i].kind = "promoted" => Audited(s, s[i].run, i, Len(StageOrder))
  /\ \A r \in Runs : f[r] # None /\ f[r].state # "FAILED" =>
       Audited(s, r, Len(s), f[r].stage - 1)

AuditInv == TrailsAreWhole(runs, ledger.entries) /\ TrailsAreWhole(saved.runs, saved.ledger.entries)

FInv == FactoryTypes /\ TasksAreThere /\ LiveInv /\ AuditInv

\* The members of a trail are numbers of entries up to the i-th.
LEMMA TrailIsFinite ==
  ASSUME NEW s, NEW r, NEW i \in Nat
  PROVE  /\ Passed(s, r, i) \subseteq 1..i
         /\ \A S \in SUBSET (1..i) : IsFiniteSet(S) /\ Cardinality(S) \in Nat
<1>1. IsFiniteSet(1..i)
  BY FS_Interval
<1>2. \A S \in SUBSET (1..i) : IsFiniteSet(S) /\ Cardinality(S) \in Nat
  BY <1>1, FS_Subset, FS_CardinalityType
<1>3. Passed(s, r, i) \subseteq 1..i
  BY DEF Passed, Mine
<1>4. QED
  BY <1>2, <1>3

\* A trail is a matter of the entries up to its end.
LEMMA SameTrail ==
  ASSUME NEW s, NEW a, NEW r, NEW i \in Nat, \A j \in 1..i : s[j] = a[j], NEW n
  PROVE  Audited(s, r, i, n) <=> Audited(a, r, i, n)
<1>1. Mine(s, r, i) = Mine(a, r, i) /\ Mine(s, r, i) \subseteq 1..i
  BY DEF Mine
<1>2. Starts(s, r, i) = Starts(a, r, i)
  BY <1>1 DEF Starts
<1>3. Passed(s, r, i) = Passed(a, r, i)
  BY <1>1, <1>2 DEF Passed
<1>4. \A j \in Passed(s, r, i) : s[j] = a[j]
  BY <1>1 DEF Passed
<1>5. QED
  BY <1>2, <1>3, <1>4 DEF Audited, InOrder

\* What is not of the run, or of no stage and no creation of it, does not change its trail.
LEMMA OtherTrail ==
  ASSUME NEW a, NEW r, NEW i \in Nat, NEW n,
         a[i + 1].run # r \/ (a[i + 1].kind # "created" /\ a[i + 1].stage = None)
  PROVE  Audited(a, r, i, n) <=> Audited(a, r, i + 1, n)
<1>1. 1..(i + 1) = (1..i) \cup {i + 1}
  OBVIOUS
<1>2. Starts(a, r, i + 1) = Starts(a, r, i)
  BY <1>1 DEF Starts, Mine
<1>3. Passed(a, r, i + 1) = Passed(a, r, i)
  BY <1>1, <1>2 DEF Passed, Mine
<1>4. QED
  BY <1>2, <1>3 DEF Audited

LEMMA CreationTrail ==
  ASSUME NEW a, NEW r, NEW i \in Nat, a[i + 1].run = r, a[i + 1].kind = "created",
         a[i + 1].stage = None
  PROVE  Audited(a, r, i + 1, 0)
<1>1. i + 1 \in Starts(a, r, i + 1)
  BY DEF Starts, Mine
<1>2. Passed(a, r, i + 1) = {}
  <2> SUFFICES ASSUME NEW j \in Passed(a, r, i + 1)
               PROVE  FALSE
    OBVIOUS
  <2>1. j \in 1..(i + 1) /\ i + 1 <= j /\ a[j].stage # None
    BY <1>1 DEF Passed, Mine
  <2>2. j = i + 1
    BY <2>1
  <2>3. QED
    BY <2>1, <2>2
<1>3. QED
  BY <1>2, FS_EmptySet DEF Audited, InOrder

\* The next stage in order, accepted.
LEMMA StageTrail ==
  ASSUME NEW a, NEW r, NEW i \in Nat, NEW n \in Nat, Audited(a, r, i, n),
         a[i + 1].run = r, a[i + 1].kind = "stage-accepted",
         a[i + 1].stage # None, a[i + 1].stage = StageOrder[n + 1]
  PROVE  Audited(a, r, i + 1, n + 1)
<1> DEFINE S == Passed(a, r, i)
           T == Passed(a, r, i + 1)
<1>1. 1..(i + 1) = (1..i) \cup {i + 1} /\ i + 1 \notin 1..i
  OBVIOUS
<1>2. Starts(a, r, i + 1) = Starts(a, r, i)
  BY <1>1 DEF Starts, Mine
<1>3. \A k \in Starts(a, r, i) : k \in 1..i
  BY DEF Starts, Mine
<1>4. T = S \cup {i + 1}
  <2>1. \A k \in Starts(a, r, i) : k <= i + 1
    BY <1>3
  <2>2. QED
    BY <1>1, <1>2, <2>1 DEF Passed, Mine
<1>5. S \subseteq 1..i /\ IsFiniteSet(S)
  BY TrailIsFinite
<1> SUFFICES ASSUME Starts(a, r, i) # {}
             PROVE  InOrder(a, T, n + 1)
  BY <1>2 DEF Audited
<1>6. InOrder(a, S, n)
  BY DEF Audited
<1> HIDE DEF S, T
<1>7. Cardinality(S) = n
  BY <1>6 DEF InOrder
<1>8. Cardinality(T) = n + 1
  BY <1>1, <1>4, <1>5, <1>7, FS_AddElement
<1>9. \A j \in S : {k \in T : k <= j} = {k \in S : k <= j}
  BY <1>4, <1>5
<1>10. {k \in T : k <= i + 1} = T
  <2>1. \A k \in 1..i : k <= i + 1
    OBVIOUS
  <2>2. \A k \in T : k \in 1..i \/ k = i + 1
    BY <1>4, <1>5, Zenon
  <2>3. \A k \in T : k <= i + 1
    BY <2>1, <2>2
  <2>4. QED
    BY <2>3
<1>11. \A j \in S : /\ a[j].kind = "stage-accepted"
                    /\ a[j].stage = StageOrder[Cardinality({k \in T : k <= j})]
  BY <1>6, <1>9 DEF InOrder
<1>12. a[i + 1].stage = StageOrder[Cardinality({k \in T : k <= i + 1})]
  BY <1>8, <1>10
<1>13. QED
  BY <1>4, <1>8, <1>11, <1>12 DEF InOrder

\* A set of numbers moved up by one is as large.
LEMMA MovedIsAsLarge ==
  ASSUME NEW i \in Nat, NEW S \in SUBSET (1..i)
  PROVE  Cardinality({j + 1 : j \in S}) = Cardinality(S)
<1> DEFINE T == {j + 1 : j \in S}
           f == [j \in S |-> j + 1]
<1>1. IsFiniteSet(S) /\ \A j \in S : j \in Nat
  BY TrailIsFinite
<1>2. f \in Bijection(S, T)
  <2>1. f \in [S -> T]
    OBVIOUS
  <2>2. \A x, y \in S : f[x] = f[y] => x = y
    BY <1>1
  <2>3. \A t \in T : \E x \in S : f[x] = t
    OBVIOUS
  <2> HIDE DEF f, T
  <2>4. QED
    <3>1. f \in Injection(S, T)
      BY <2>1, <2>2 DEF Injection, IsInjective
    <3>2. f \in Surjection(S, T)
      BY <2>1, <2>3 DEF Surjection
    <3>3. QED
      BY <3>1, <3>2 DEF Bijection
<1>3. ExistsBijection(S, T)
  BY <1>2 DEF ExistsBijection
<1>4. QED
  BY <1>1, <1>3, FS_Bijection

\* A trail whose creation is still there is not touched when the oldest entry is dropped.
LEMMA CutTrail ==
  ASSUME NEW a, NEW t, NEW r, NEW i \in Nat, NEW n, \A j \in 1..i : t[j] = a[j + 1],
         Audited(a, r, i + 1, n)
  PROVE  Audited(t, r, i, n)
<1> DEFINE S == Passed(t, r, i)
           U == Passed(a, r, i + 1)
<1> SUFFICES ASSUME Starts(t, r, i) # {}
             PROVE  InOrder(t, S, n)
  BY DEF Audited
<1>1. \A j \in 2..(i + 1) : j - 1 \in 1..i /\ (j - 1) + 1 = j /\ a[j] = t[j - 1]
  OBVIOUS
<1>2. \A j \in 1..i : j \in Mine(t, r, i) <=> j + 1 \in Mine(a, r, i + 1)
  BY DEF Mine
<1>3. \A j \in 1..i : j \in Starts(t, r, i) <=> j + 1 \in Starts(a, r, i + 1)
  BY <1>2 DEF Starts
<1>4. /\ Starts(t, r, i) \subseteq 1..i /\ Mine(t, r, i) \subseteq 1..i
      /\ Starts(a, r, i + 1) \subseteq 1..(i + 1) /\ Mine(a, r, i + 1) \subseteq 1..(i + 1)
  BY DEF Starts, Mine
<1>5. PICK first \in Starts(t, r, i) : first + 1 \in Starts(a, r, i + 1)
  BY <1>3, <1>4
<1>6. \A j \in U : j \in 2..(i + 1)
  BY <1>4, <1>5 DEF Passed
<1>7. \A j \in 1..i : (\A k \in Starts(t, r, i) : k <= j)
                        <=> (\A k \in Starts(a, r, i + 1) : k <= j + 1)
  <2> SUFFICES ASSUME NEW j \in 1..i
               PROVE  (\A k \in Starts(t, r, i) : k <= j)
                        <=> (\A k \in Starts(a, r, i + 1) : k <= j + 1)
    OBVIOUS
  <2>1. ASSUME \A k \in Starts(t, r, i) : k <= j, NEW k \in Starts(a, r, i + 1)
        PROVE  k <= j + 1
    <3>1. CASE k = 1
      BY <3>1
    <3>2. CASE k \in 2..(i + 1)
      <4>1. k - 1 \in Starts(t, r, i)
        BY <1>1, <1>3, <3>2
      <4>2. QED
        BY <2>1, <3>2, <4>1
    <3>3. QED
      BY <1>4, <3>1, <3>2
  <2>2. ASSUME \A k \in Starts(a, r, i + 1) : k <= j + 1, NEW k \in Starts(t, r, i)
        PROVE  k <= j
    <3>1. k \in 1..i /\ k + 1 <= j + 1
      BY <1>3, <1>4, <2>2
    <3>2. QED
      BY <3>1
  <2>3. QED
    BY <2>1, <2>2
<1>8. \A j \in 1..i : j \in S <=> j + 1 \in U
  <2> SUFFICES ASSUME NEW j \in 1..i
               PROVE  j \in S <=> j + 1 \in U
    OBVIOUS
  <2>1. t[j].stage = a[j + 1].stage
    OBVIOUS
  <2>2. QED
    BY <1>2, <1>7, <2>1 DEF Passed
<1>9. S \subseteq 1..i
  BY <1>4 DEF Passed
<1>10. InOrder(a, U, n)
  BY <1>5 DEF Audited
<1> HIDE DEF S, U
<1>11. U = {j + 1 : j \in S}
  <2>1. \A u \in U : u - 1 \in S /\ (u - 1) + 1 = u
    BY <1>1, <1>6, <1>8
  <2>2. \A j \in S : j + 1 \in U
    BY <1>8, <1>9
  <2>3. QED
    BY <2>1, <2>2
<1>12. Cardinality(S) = n
  BY <1>9, <1>10, <1>11, MovedIsAsLarge DEF InOrder
<1>13. ASSUME NEW j \in S
       PROVE  /\ t[j].kind = "stage-accepted"
              /\ t[j].stage = StageOrder[Cardinality({k \in S : k <= j})]
  <2>1. j \in 1..i /\ j + 1 \in U /\ t[j] = a[j + 1]
    BY <1>8, <1>9
  <2>2. {k \in U : k <= j + 1} = {k + 1 : k \in {k \in S : k <= j}}
    <3>1. \A k \in S : k \in Nat /\ (k + 1 <= j + 1 <=> k <= j)
      BY <1>9, <2>1
    <3>2. QED
      BY <1>11, <3>1
  <2>3. Cardinality({k \in U : k <= j + 1}) = Cardinality({k \in S : k <= j})
    <3>1. {k \in S : k <= j} \in SUBSET (1..i)
      BY <1>9
    <3>2. QED
      BY <2>2, <3>1, MovedIsAsLarge
  <2>4. QED
    BY <1>10, <2>1, <2>3 DEF InOrder
<1>14. QED
  BY <1>12, <1>13 DEF InOrder

----------------------------------------------------------------------------
(* What recording an entry does. *)

\* Entry e follows those of l, and the oldest k of them are dropped, none or one.
RecordsOne(l, e, m) ==
  \E a \in Seq(Entry), k \in {0, 1} :
    /\ Len(a) = Len(l.entries) + 1 /\ \A i \in 1..Len(l.entries) : a[i] = l.entries[i]
    /\ a[Len(a)] = [e EXCEPT !.sequence = l.sequence + 1]
    /\ m.sequence = l.sequence + 1
    /\ m.entries \in Seq(Entry) /\ Len(a) = Len(m.entries) + k
    /\ \A i \in DOMAIN m.entries : m.entries[i] = a[i + k]

LEMMA RenumberedIsEntry ==
  ASSUME NEW e \in Entry, NEW n \in Nat
  PROVE  LET x == [e EXCEPT !.sequence = n] IN
         /\ x \in Entry /\ x.sequence = n
         /\ x.run = e.run /\ x.kind = e.kind /\ x.stage = e.stage /\ x.product = e.product
         /\ x.commit = e.commit /\ x.deployment = e.deployment
         /\ e.run \in Runs
BY DEF Entry

LEMMA RecordedIsOneMore ==
  ASSUME NEW l, LedgerIsTyped(l), NEW e \in Entry
  PROVE  RecordsOne(l, e, Recorded(l, e)) /\ LedgerIsTyped(Recorded(l, e))
<1> DEFINE x == [e EXCEPT !.sequence = l.sequence + 1]
           a == Append(l.entries, x)
           k == IF Len(a) > MaxEntries THEN 1 ELSE 0
           m == Recorded(l, e)
<1>1. /\ l.sequence \in Nat /\ l.entries \in Seq(Entry) /\ Len(l.entries) \in Nat
      /\ DOMAIN l.entries = 1..Len(l.entries)
      /\ Len(l.entries) <= MaxEntries /\ Len(l.entries) <= l.sequence
      /\ \A i \in DOMAIN l.entries : l.entries[i].sequence = l.sequence - (Len(l.entries) - i)
  BY DEF LedgerIsTyped
<1>2. x \in Entry /\ x.sequence = l.sequence + 1
  BY <1>1, RenumberedIsEntry
<1>3. m = [entries |-> SubSeq(a, 1 + k, Len(a)), sequence |-> l.sequence + 1]
  BY DEF Recorded
<1> HIDE DEF x, m
<1>4. /\ a \in Seq(Entry) /\ Len(a) = Len(l.entries) + 1 /\ a[Len(a)] = x
      /\ \A i \in 1..Len(l.entries) : a[i] = l.entries[i]
  BY <1>1, <1>2
<1> HIDE DEF a
<1>5. MaxEntries \in Nat \ {0}
  BY FactoryAssumption
<1>6. k \in {0, 1} /\ 1 + k \in 1..Len(a) /\ Len(a) - k <= MaxEntries
  BY <1>1, <1>4, <1>5
<1> HIDE DEF k
<1>7. /\ SubSeq(a, 1 + k, Len(a)) \in Seq(Entry)
      /\ Len(SubSeq(a, 1 + k, Len(a))) = Len(a) - k
      /\ \A i \in 1..(Len(a) - k) : SubSeq(a, 1 + k, Len(a))[i] = a[i + k]
  BY <1>1, <1>4, <1>6
<1>8. /\ m.entries \in Seq(Entry) /\ m.sequence = l.sequence + 1
      /\ Len(m.entries) = Len(a) - k /\ DOMAIN m.entries = 1..(Len(a) - k)
      /\ \A i \in DOMAIN m.entries : m.entries[i] = a[i + k]
  BY <1>3, <1>7
<1>9. RecordsOne(l, e, m)
  <2>1. Len(a) = Len(m.entries) + k
    BY <1>1, <1>4, <1>6, <1>8
  <2>2. QED
    BY <1>4, <1>6, <1>8, <2>1 DEF RecordsOne, x
<1>10. LedgerIsTyped(m)
  <2>1. m.sequence \in Nat /\ Len(m.entries) <= MaxEntries /\ Len(m.entries) <= m.sequence
    BY <1>1, <1>4, <1>6, <1>8
  <2>2. ASSUME NEW i \in DOMAIN m.entries
        PROVE  m.entries[i].sequence = m.sequence - (Len(m.entries) - i)
    <3>1. i \in Nat /\ i + k \in 1..Len(a) /\ m.entries[i] = a[i + k]
      BY <1>1, <1>4, <1>6, <1>8
    <3>2. CASE i + k = Len(a)
      <4>1. m.entries[i].sequence = l.sequence + 1
        BY <1>2, <1>4, <3>1, <3>2
      <4>2. Len(m.entries) \in Nat /\ Len(m.entries) - i = 0
        BY <1>1, <1>4, <1>6, <1>8, <3>1, <3>2
      <4>3. QED
        BY <1>1, <1>8, <4>1, <4>2
    <3>3. CASE i + k \in 1..Len(l.entries)
      <4>1. m.entries[i].sequence = l.sequence - (Len(l.entries) - (i + k))
        BY <1>1, <1>4, <3>1, <3>3
      <4>2. Len(m.entries) = Len(l.entries) + 1 - k
        BY <1>1, <1>4, <1>6, <1>8
      <4>3. QED
        <5> DEFINE L == Len(l.entries)
        <5>1. m.sequence - (Len(m.entries) - i) = (l.sequence + 1) - ((L + 1 - k) - i)
          BY <1>8, <4>2
        <5>2. L \in Nat /\ l.sequence \in Nat /\ i \in Nat /\ k \in Nat
          BY <1>1, <1>6, <3>1
        <5> HIDE DEF L
        <5>3. (l.sequence + 1) - ((L + 1 - k) - i) = l.sequence - (L - (i + k))
          BY <5>2
        <5>4. QED
          BY <4>1, <5>1, <5>3 DEF L
    <3>4. QED
      BY <1>1, <1>4, <3>1, <3>2, <3>3
  <2>3. QED
    BY <1>8, <2>1, <2>2 DEF LedgerIsTyped
<1>11. QED
  BY <1>9, <1>10 DEF m

\* What an entry of kind, for a run, says of it before (f) and after (g).
TellsOf(f, g, e) ==
  LET r == e.run IN
  \/ e.kind = "created" /\ e.stage = None /\ g[r].stage = 1
  \/ /\ e.kind = "stage-accepted" /\ f[r] # None /\ f[r].state = "RUNNING"
     /\ e.stage = StageOrder[f[r].stage] /\ g[r].stage = f[r].stage + 1
  \/ e.kind = "stage-failed" /\ g[r].state = "FAILED"
  \/ e.kind = "promoted" /\ e.stage = None /\ g[r] = f[r] /\ f[r] # None /\ f[r].state = "ACCEPTED"
  \/ e.kind \in {"production-accepted", "production-rejected"} /\ e.stage = None /\ g[r] = f[r]

LEMMA StagesAreNamed ==
  /\ Len(StageOrder) \in Nat \ {0}
  /\ \A n \in 1..Len(StageOrder) : StageOrder[n] \in StageNames /\ StageOrder[n] # None
<1>1. StageOrder \in Seq(STRING) /\ StageOrder # <<>>
  BY FactoryAssumption
<1>2. Len(StageOrder) \in Nat \ {0} /\ DOMAIN StageOrder = 1..Len(StageOrder)
  BY <1>1
<1>3. QED
  BY <1>2, FactoryAssumption DEF StageNames

LEMMA RecordingKeepsTrails ==
  ASSUME NEW l, LedgerIsTyped(l), NEW e \in Entry, NEW m, RecordsOne(l, e, m),
         NEW f, NEW g, RunsAreTyped(f), TrailsAreWhole(f, l.entries),
         TellsOf(f, g, e), \A q \in Runs : q # e.run => g[q] = f[q]
  PROVE  TrailsAreWhole(g, m.entries)
<1> DEFINE L == Len(l.entries)
           F == Len(StageOrder)
<1>1. PICK a \in Seq(Entry), k \in {0, 1} :
        /\ Len(a) = L + 1 /\ \A i \in 1..L : a[i] = l.entries[i]
        /\ a[Len(a)] = [e EXCEPT !.sequence = l.sequence + 1]
        /\ m.entries \in Seq(Entry) /\ Len(a) = Len(m.entries) + k
        /\ \A i \in DOMAIN m.entries : m.entries[i] = a[i + k]
  BY DEF RecordsOne
<1>2. L \in Nat /\ DOMAIN l.entries = 1..L
  BY DEF LedgerIsTyped
<1>3. /\ a[L + 1].run = e.run /\ a[L + 1].kind = e.kind /\ a[L + 1].stage = e.stage
      /\ e.run \in Runs
  <2>1. l.sequence + 1 \in Nat
    BY DEF LedgerIsTyped
  <2>2. QED
    BY <1>1, <2>1, RenumberedIsEntry
<1>4. \A r, i, n : i \in 0..L => (Audited(l.entries, r, i, n) <=> Audited(a, r, i, n))
  <2> SUFFICES ASSUME NEW r, NEW i \in 0..L, NEW n
               PROVE  Audited(l.entries, r, i, n) <=> Audited(a, r, i, n)
    OBVIOUS
  <2>1. i \in Nat /\ \A j \in 1..i : l.entries[j] = a[j]
    BY <1>1, <1>2
  <2>2. QED
    BY <2>1, SameTrail
<1>5. \A r \in Runs : f[r] # None /\ f[r].state # "FAILED" => Audited(a, r, L, f[r].stage - 1)
  BY <1>2, <1>4 DEF TrailsAreWhole
<1>6. \A r \in Runs : f[r] # None => /\ f[r].state = "RUNNING" => f[r].stage \in 1..F
                                     /\ f[r].state = "ACCEPTED" => f[r].stage = F + 1
  BY DEF RunsAreTyped
<1>7. ASSUME NEW r \in Runs, NEW n, Audited(a, r, L, n),
             e.run # r \/ (e.kind # "created" /\ e.stage = None)
      PROVE  Audited(a, r, L + 1, n)
  BY <1>2, <1>3, <1>7, OtherTrail
<1>8. \A i \in 1..(L + 1) : a[i].kind = "promoted" => Audited(a, a[i].run, i, F)
  <2>1. \A i \in 1..L : a[i].kind = "promoted" => Audited(a, a[i].run, i, F)
    <3> SUFFICES ASSUME NEW i \in 1..L, a[i].kind = "promoted"
                 PROVE  Audited(a, a[i].run, i, F)
      OBVIOUS
    <3>1. i \in 0..L /\ a[i] = l.entries[i]
      BY <1>1, <1>2
    <3>2. Audited(l.entries, a[i].run, i, F)
      BY <1>2, <3>1 DEF TrailsAreWhole
    <3>3. QED
      BY <1>4, <3>1, <3>2
  <2>2. ASSUME e.kind = "promoted"
        PROVE  Audited(a, e.run, L + 1, F)
    <3>1. f[e.run] # None /\ f[e.run].state = "ACCEPTED" /\ e.stage = None
      BY <2>2 DEF TellsOf
    <3>2. Audited(a, e.run, L, f[e.run].stage - 1) /\ f[e.run].stage - 1 = F
      BY <1>3, <1>5, <1>6, <3>1, StagesAreNamed
    <3>3. QED
      BY <1>3, <1>7, <2>2, <3>1, <3>2
  <2>3. QED
    <3>1. \A i \in 1..(L + 1) : i \in 1..L \/ i = L + 1
      BY <1>2
    <3>2. QED
      BY <1>3, <2>1, <2>2, <3>1
<1>9. ASSUME NEW r \in Runs, g[r] # None, g[r].state # "FAILED"
      PROVE  Audited(a, r, L + 1, g[r].stage - 1)
  <2>1. CASE r # e.run
    BY <1>5, <1>7, <1>9, <2>1
  <2>2. CASE r = e.run /\ e.kind = "created"
    <3>1. e.stage = None /\ g[r].stage - 1 = 0
      BY <2>2 DEF TellsOf
    <3>2. QED
      BY <1>2, <1>3, <2>2, <3>1, CreationTrail
  <2>3. CASE r = e.run /\ e.kind = "stage-accepted"
    <3>1. /\ f[r] # None /\ f[r].state = "RUNNING" /\ e.stage = StageOrder[f[r].stage]
          /\ g[r].stage = f[r].stage + 1
      BY <2>3 DEF TellsOf
    <3>2. f[r].stage \in 1..F /\ Audited(a, r, L, f[r].stage - 1)
      BY <1>5, <1>6, <3>1
    <3>3. /\ f[r].stage - 1 \in Nat /\ (f[r].stage - 1) + 1 = f[r].stage
          /\ g[r].stage - 1 = f[r].stage
      BY <3>1, <3>2
    <3>4. e.stage # None
      BY <3>1, <3>2, StagesAreNamed
    <3>5. Audited(a, r, L + 1, (f[r].stage - 1) + 1)
      BY <1>2, <1>3, <2>3, <3>1, <3>2, <3>3, <3>4, StageTrail
    <3>6. QED
      BY <3>3, <3>5
  <2>4. CASE r = e.run /\ e.kind \notin {"created", "stage-accepted"}
    <3>1. g[r] = f[r] /\ e.stage = None
      BY <1>9, <2>4 DEF TellsOf
    <3>2. QED
      BY <1>5, <1>7, <1>9, <2>4, <3>1
  <2>5. QED
    BY <2>1, <2>2, <2>3, <2>4
<1>10. ASSUME NEW r, NEW i \in 0..Len(m.entries), NEW n, Audited(a, r, i + k, n)
       PROVE  Audited(m.entries, r, i, n)
  <2>1. i \in Nat /\ \A j \in 1..i : j \in DOMAIN m.entries /\ m.entries[j] = a[j + k]
    BY <1>1
  <2>2. CASE k = 0
    <3>1. \A j \in 1..i : a[j] = m.entries[j]
      BY <2>1, <2>2
    <3>2. Audited(a, r, i, n)
      BY <1>10, <2>1, <2>2
    <3>3. QED
      BY <2>1, <3>1, <3>2, SameTrail
  <2>3. CASE k = 1
    BY <1>10, <2>1, <2>3, CutTrail
  <2>4. QED
    BY <2>2, <2>3
<1>11. Len(m.entries) \in Nat /\ DOMAIN m.entries = 1..Len(m.entries)
       /\ Len(m.entries) + k = L + 1
  BY <1>1
<1>12. ASSUME NEW i \in DOMAIN m.entries, m.entries[i].kind = "promoted"
       PROVE  Audited(m.entries, m.entries[i].run, i, F)
  <2>1. i \in 0..Len(m.entries) /\ i + k \in 1..(L + 1) /\ m.entries[i] = a[i + k]
    BY <1>1, <1>11
  <2>2. Audited(a, m.entries[i].run, i + k, F)
    BY <1>8, <1>12, <2>1
  <2>3. QED
    BY <1>10, <2>1, <2>2
<1>13. ASSUME NEW r \in Runs, g[r] # None, g[r].state # "FAILED"
       PROVE  Audited(m.entries, r, Len(m.entries), g[r].stage - 1)
  <2>1. Audited(a, r, Len(m.entries) + k, g[r].stage - 1) /\ Len(m.entries) \in 0..Len(m.entries)
    BY <1>9, <1>11, <1>13
  <2>2. QED
    BY <1>10, <2>1
<1>14. QED
  BY <1>12, <1>13 DEF TrailsAreWhole

\* Every entry was there or is the new one, and none has moved unless one was dropped.
LEMMA RecordedEntries ==
  ASSUME NEW l, LedgerIsTyped(l), NEW e \in Entry, NEW m, RecordsOne(l, e, m)
  PROVE  /\ \A i \in DOMAIN m.entries :
              \/ \E j \in DOMAIN l.entries : m.entries[i] = l.entries[j]
              \/ /\ m.entries[i].kind = e.kind /\ m.entries[i].product = e.product
                 /\ m.entries[i].commit = e.commit
         /\ l.sequence > Len(l.entries) => m.sequence > Len(m.entries)
         /\ Len(m.entries) \in Nat /\ DOMAIN m.entries = 1..Len(m.entries)
         /\ Len(l.entries) \in Nat /\ DOMAIN l.entries = 1..Len(l.entries)
         /\ \/ m.sequence > Len(m.entries)
            \/ /\ Len(m.entries) = Len(l.entries) + 1
               /\ \A i \in DOMAIN l.entries : m.entries[i] = l.entries[i]
               /\ m.entries[Len(m.entries)].kind = e.kind
               /\ m.entries[Len(m.entries)].commit = e.commit
               /\ m.entries[Len(m.entries)].deployment = e.deployment
<1> DEFINE L == Len(l.entries)
<1>1. PICK a \in Seq(Entry), k \in {0, 1} :
        /\ Len(a) = L + 1 /\ \A i \in 1..L : a[i] = l.entries[i]
        /\ a[Len(a)] = [e EXCEPT !.sequence = l.sequence + 1]
        /\ m.sequence = l.sequence + 1
        /\ m.entries \in Seq(Entry) /\ Len(a) = Len(m.entries) + k
        /\ \A i \in DOMAIN m.entries : m.entries[i] = a[i + k]
  BY DEF RecordsOne
<1>2. /\ L \in Nat /\ DOMAIN l.entries = 1..L /\ l.sequence \in Nat /\ L <= l.sequence
      /\ Len(m.entries) \in Nat /\ DOMAIN m.entries = 1..Len(m.entries)
  BY <1>1 DEF LedgerIsTyped
<1>3. /\ a[L + 1].kind = e.kind /\ a[L + 1].product = e.product
      /\ a[L + 1].commit = e.commit /\ a[L + 1].deployment = e.deployment
  BY <1>1, <1>2, RenumberedIsEntry
<1>4. ASSUME NEW i \in DOMAIN m.entries
      PROVE  \/ \E j \in DOMAIN l.entries : m.entries[i] = l.entries[j]
             \/ /\ m.entries[i].kind = e.kind /\ m.entries[i].product = e.product
                /\ m.entries[i].commit = e.commit
  <2>1. m.entries[i] = a[i + k] /\ (i + k \in 1..L \/ i + k = L + 1)
    BY <1>1, <1>2
  <2>2. CASE i + k \in 1..L
    BY <1>1, <1>2, <2>1, <2>2
  <2>3. CASE i + k = L + 1
    BY <1>3, <2>1, <2>3
  <2>4. QED
    BY <2>1, <2>2, <2>3
<1>5. l.sequence > L => m.sequence > Len(m.entries)
  BY <1>1, <1>2
<1>6. CASE k = 1
  <2>1. m.sequence > Len(m.entries)
    BY <1>1, <1>2, <1>6
  <2>2. QED
    BY <1>2, <1>4, <1>5, <2>1
<1>7. CASE k = 0
  <2>1. Len(m.entries) = L + 1 /\ \A i \in DOMAIN m.entries : m.entries[i] = a[i]
    BY <1>1, <1>2, <1>7
  <2>2. L + 1 \in DOMAIN m.entries /\ \A i \in 1..L : i \in DOMAIN m.entries
    BY <1>2, <2>1
  <2>3. (\A i \in DOMAIN l.entries : m.entries[i] = l.entries[i]) /\ m.entries[L + 1] = a[L + 1]
    BY <1>1, <1>2, <2>1, <2>2
  <2>4. QED
    BY <1>2, <1>3, <1>4, <1>5, <2>1, <2>3
<1>8. QED
  BY <1>1, <1>6, <1>7

\* What was known before the i-th entry is known before it and before any later one.
LEMMA KnownStays ==
  ASSUME NEW l, LedgerIsTyped(l), NEW e \in Entry, NEW m, RecordsOne(l, e, m), NEW c, NEW d,
         NEW i \in 1..(Len(l.entries) + 1), Known(l, i, c, d), NEW h \in Nat, h >= i
  PROVE  Known(m, h, c, d)
<1>1. CASE m.sequence > Len(m.entries)
  BY <1>1 DEF Known
<1>2. CASE ~(m.sequence > Len(m.entries))
  <2>1. /\ ~(l.sequence > Len(l.entries)) /\ \A j \in DOMAIN l.entries : m.entries[j] = l.entries[j]
        /\ Len(l.entries) \in Nat /\ DOMAIN l.entries = 1..Len(l.entries)
    BY <1>2, RecordedEntries
  <2>2. PICK j \in 1..(i - 1) : /\ l.entries[j].kind = "promoted"
                                /\ l.entries[j].deployment = d /\ l.entries[j].commit = c
    BY <2>1 DEF Known, Told
  <2>3. j \in 1..(h - 1) /\ j \in DOMAIN l.entries
    BY <2>1, <2>2
  <2>4. QED
    BY <2>1, <2>2, <2>3 DEF Known, Told
<1>3. QED
  BY <1>1, <1>2

LEMMA PromotionIsKnown ==
  ASSUME NEW l, LedgerIsTyped(l), NEW e \in Entry, NEW m, RecordsOne(l, e, m), e.kind = "promoted"
  PROVE  Known(m, Len(m.entries) + 1, e.commit, e.deployment)
<1>1. CASE m.sequence > Len(m.entries)
  BY <1>1 DEF Known
<1>2. CASE ~(m.sequence > Len(m.entries))
  <2> DEFINE j == Len(m.entries)
  <2>1. /\ j = Len(l.entries) + 1 /\ Len(l.entries) \in Nat
        /\ m.entries[j].kind = "promoted" /\ m.entries[j].commit = e.commit
        /\ m.entries[j].deployment = e.deployment
    BY <1>2, RecordedEntries
  <2> HIDE DEF j
  <2>2. j \in 1..((j + 1) - 1)
    BY <2>1
  <2>3. QED
    BY <2>1, <2>2 DEF Known, Told, j
<1>3. QED
  BY <1>1, <1>2

LEMMA RecordingKeepsLive ==
  ASSUME FactoryTypes, LiveInv, NEW e \in Entry, ledger' = Recorded(ledger, e),
         UNCHANGED <<saved, restarts>>, earned \subseteq earned', AcceptedIsEarned(runs)',
         \A p \in promotions' : p \in promotions \/
           /\ <<p.product, p.commit>> \in earned
           /\ e.kind = "promoted" /\ e.commit = p.commit /\ e.deployment = p.deployment,
         e.kind = "production-accepted" => \E p \in promotions :
           e.product = p.product /\ e.commit = p.commit /\ e.deployment = p.deployment
  PROVE  LiveInv'
<1>1. LedgerIsTyped(ledger) /\ RecordsOne(ledger, e, ledger')
  BY RecordedIsOneMore DEF FactoryTypes
<1> DEFINE L == Len(ledger.entries)
           M == Len(ledger'.entries)
<1>2. /\ \A i \in DOMAIN ledger'.entries :
           \/ \E j \in DOMAIN ledger.entries : ledger'.entries[i] = ledger.entries[j]
           \/ /\ ledger'.entries[i].kind = e.kind /\ ledger'.entries[i].product = e.product
              /\ ledger'.entries[i].commit = e.commit
      /\ M \in Nat /\ DOMAIN ledger'.entries = 1..M
      /\ L \in Nat /\ DOMAIN ledger.entries = 1..L
      /\ \/ ledger'.sequence > M
         \/ /\ M = L + 1 /\ \A i \in DOMAIN ledger.entries : ledger'.entries[i] = ledger.entries[i]
            /\ ledger'.entries[M].kind = e.kind /\ ledger'.entries[M].commit = e.commit
            /\ ledger'.entries[M].deployment = e.deployment
  BY <1>1, RecordedEntries
<1>3. AcceptedIsEarned(saved.runs)'
  BY DEF LiveInv, AcceptedIsEarned
<1>4. LiveWasEarned(saved.ledger)'
  BY DEF LiveInv, LiveWasEarned
<1>5. \A p \in promotions : /\ <<p.product, p.commit>> \in earned
                            /\ restarts > 0 \/ Known(ledger, L + 1, p.commit, p.deployment)
  BY DEF LiveInv
<1>6. \A i \in DOMAIN ledger.entries : ledger.entries[i].kind = "production-accepted" =>
        /\ <<ledger.entries[i].product, ledger.entries[i].commit>> \in earned
        /\ restarts > 0 \/ Known(ledger, i, ledger.entries[i].commit, ledger.entries[i].deployment)
  BY DEF LiveInv, LiveWasEarned
<1>7. ASSUME NEW p \in promotions'
      PROVE  /\ <<p.product, p.commit>> \in earned'
             /\ restarts' > 0 \/ Known(ledger', M + 1, p.commit, p.deployment)
  <2>1. <<p.product, p.commit>> \in earned'
    BY <1>5
  <2>2. CASE p \in promotions /\ ~(restarts > 0)
    <3>1. Known(ledger, L + 1, p.commit, p.deployment) /\ L + 1 \in 1..(L + 1)
      <4>1. restarts > 0 \/ Known(ledger, L + 1, p.commit, p.deployment)
        BY <1>5, <2>2
      <4>2. L + 1 \in 1..(L + 1)
        BY <1>2
      <4>3. QED
        BY <2>2, <4>1, <4>2, Zenon
    <3>2. CASE ledger'.sequence > M
      BY <2>1, <3>2 DEF Known
    <3>3. CASE M = L + 1
      <4>1. M + 1 \in Nat /\ M + 1 >= L + 1
        BY <1>2, <3>3
      <4>2. Known(ledger', M + 1, p.commit, p.deployment)
        BY <1>1, <3>1, <4>1, KnownStays
      <4>3. QED
        BY <2>1, <4>2
    <3>4. QED
      BY <1>2, <3>2, <3>3
  <2>3. CASE p \notin promotions
    <3>1. e.kind = "promoted" /\ e.commit = p.commit /\ e.deployment = p.deployment
      BY <2>3
    <3>2. Known(ledger', M + 1, e.commit, e.deployment)
      BY <1>1, <3>1, PromotionIsKnown
    <3>3. QED
      BY <2>1, <3>1, <3>2
  <2>4. QED
    BY <2>1, <2>2, <2>3
<1>8. ASSUME NEW i \in DOMAIN ledger'.entries, ledger'.entries[i].kind = "production-accepted"
      PROVE  /\ <<ledger'.entries[i].product, ledger'.entries[i].commit>> \in earned'
             /\ \/ restarts' > 0
                \/ Known(ledger', i, ledger'.entries[i].commit, ledger'.entries[i].deployment)
  <2>1. <<ledger'.entries[i].product, ledger'.entries[i].commit>> \in earned'
    <3>1. CASE \E j \in DOMAIN ledger.entries : ledger'.entries[i] = ledger.entries[j]
      BY <1>6, <1>8, <3>1
    <3>2. CASE /\ ledger'.entries[i].kind = e.kind /\ ledger'.entries[i].product = e.product
               /\ ledger'.entries[i].commit = e.commit
      <4>1. PICK p \in promotions : e.product = p.product /\ e.commit = p.commit
        BY <1>8, <3>2
      <4>2. QED
        BY <1>5, <3>2, <4>1
    <3>3. QED
      BY <1>2, <3>1, <3>2
  <2>2. ASSUME ~(restarts > 0), ~(ledger'.sequence > M)
        PROVE  Known(ledger', i, ledger'.entries[i].commit, ledger'.entries[i].deployment)
    <3>1. /\ M = L + 1 /\ \A j \in DOMAIN ledger.entries : ledger'.entries[j] = ledger.entries[j]
          /\ ledger'.entries[M].kind = e.kind /\ ledger'.entries[M].commit = e.commit
          /\ ledger'.entries[M].deployment = e.deployment
      BY <1>2, <2>2
    <3>2. i \in 1..L \/ i = M
      BY <1>2, <3>1
    <3>3. CASE i \in 1..L
      <4>1. /\ ledger'.entries[i] = ledger.entries[i] /\ i \in 1..(L + 1) /\ i \in Nat /\ i >= i
            /\ Known(ledger, i, ledger.entries[i].commit, ledger.entries[i].deployment)
        <5>1. i \in DOMAIN ledger.entries /\ ledger'.entries[i] = ledger.entries[i]
          BY <1>2, <3>1, <3>3
        <5>2. restarts > 0 \/ Known(ledger, i, ledger.entries[i].commit, ledger.entries[i].deployment)
          BY <1>6, <1>8, <5>1
        <5>3. i \in 1..(L + 1) /\ i \in Nat /\ i >= i
          BY <1>2, <3>3
        <5>4. QED
          BY <2>2, <5>1, <5>2, <5>3, Zenon
      <4>2. Known(ledger', i, ledger.entries[i].commit, ledger.entries[i].deployment)
        BY <1>1, <4>1, KnownStays
      <4>3. QED
        BY <4>1, <4>2
    <3>4. CASE i = M
      <4>1. PICK p \in promotions : e.commit = p.commit /\ e.deployment = p.deployment
        BY <1>8, <3>1, <3>4
      <4>2. Known(ledger, L + 1, e.commit, e.deployment)
        BY <1>5, <2>2, <4>1
      <4>3. L + 1 \in 1..(L + 1) /\ M \in Nat /\ M >= L + 1
        BY <1>2, <3>1
      <4>4. Known(ledger', M, e.commit, e.deployment)
        BY <1>1, <4>2, <4>3, KnownStays
      <4>5. QED
        BY <3>1, <3>4, <4>4
    <3>5. QED
      BY <3>2, <3>3, <3>4
  <2>3. ledger'.sequence > M =>
          Known(ledger', i, ledger'.entries[i].commit, ledger'.entries[i].deployment)
    BY DEF Known
  <2>4. QED
    BY <2>1, <2>2, <2>3
<1>9. LiveWasEarned(ledger)'
  BY <1>8 DEF LiveWasEarned
<1>10. QED
  BY <1>3, <1>4, <1>7, <1>9 DEF LiveInv

----------------------------------------------------------------------------
(* Every step keeps the invariant. *)

LEMMA FInvInit == FactoryInit => FInv
<1> SUFFICES ASSUME FactoryInit
             PROVE  FInv
  OBVIOUS
<1>1. /\ \A r \in Runs : runs[r] = None
      /\ runs \in [Runs -> Run \cup {None}] /\ saved.runs = runs
      /\ ledger = [entries |-> <<>>, sequence |-> 0] /\ saved.ledger = ledger
      /\ tasks = {} /\ saved.tasks = {} /\ promotions = {} /\ earned = {} /\ restarts = 0
  BY DEF FactoryInit
<1>2. ledger.entries \in Seq(Entry) /\ DOMAIN ledger.entries = {} /\ Len(ledger.entries) = 0
  BY <1>1
<1>3. LedgerIsTyped(ledger)
  BY <1>1, <1>2, FactoryAssumption DEF LedgerIsTyped
<1>4. FactoryTypes
  BY <1>1, <1>3 DEF FactoryTypes, RunsAreTyped
<1>5. TasksAreThere
  BY <1>1 DEF TasksAreThere, Backed
<1>6. LiveInv
  BY <1>1, <1>2 DEF LiveInv, AcceptedIsEarned, LiveWasEarned
<1>7. AuditInv
  BY <1>1, <1>2 DEF AuditInv, TrailsAreWhole
<1>8. QED
  BY <1>4, <1>5, <1>6, <1>7 DEF FInv

\* A step that records an entry about a run, and changes no other run.
LEMMA RecordingKeepsFInv ==
  ASSUME FInv, NEW e \in Entry, ledger' = Recorded(ledger, e), UNCHANGED <<saved, restarts>>,
         TellsOf(runs, runs', e), \A q \in Runs : q # e.run => runs'[q] = runs[q],
         RunsAreTyped(runs'),
         tasks \subseteq tasks', tasks' \subseteq Task, Backed(runs', tasks'),
         promotions' \subseteq Promotion,
         earned \subseteq earned', earned' \subseteq Products \X (Commits \cup {None}),
         LiveInv'
  PROVE  FInv'
<1>1. LedgerIsTyped(ledger) /\ RecordsOne(ledger, e, ledger') /\ LedgerIsTyped(ledger')
  BY RecordedIsOneMore DEF FInv, FactoryTypes
<1>2. FactoryTypes'
  BY <1>1 DEF FInv, FactoryTypes
<1>3. TasksAreThere'
  BY DEF FInv, TasksAreThere, Backed
<1>4. TrailsAreWhole(runs', ledger'.entries)
  BY <1>1, RecordingKeepsTrails DEF FInv, FactoryTypes, AuditInv
<1>5. AuditInv'
  BY <1>4 DEF FInv, AuditInv
<1>6. QED
  BY <1>2, <1>3, <1>5 DEF FInv

LEMMA NewEntryType ==
  ASSUME NEW r \in Runs, NEW p \in Products, NEW kind \in {"created", "stage-accepted",
           "stage-failed", "promoted", "production-accepted", "production-rejected"},
         NEW stage \in StageNames \cup {None}, NEW c \in Commits \cup {None},
         NEW d \in Deployments \cup {None}
  PROVE  NewEntry(r, p, kind, stage, c, d) \in Entry
BY DEF NewEntry, Entry

LEMMA TasksType ==
  ASSUME NEW r \in Runs, NEW p \in Products, NEW s \in Specs
  PROVE  DeltaTasks(r, p, s) \subseteq Task /\ TasksOf(r, p, s) \subseteq Task
BY DEF DeltaTasks, TasksOf, StageTasks, ResolveProductDelta, Task

\* What a step that leaves the promotions and the accepted runs alone has to show of LiveInv.
LEMMA QuietKeepsLive ==
  ASSUME FInv, NEW e \in Entry, ledger' = Recorded(ledger, e), e.kind # "production-accepted",
         UNCHANGED <<saved, restarts, promotions>>, earned \subseteq earned',
         AcceptedIsEarned(runs)'
  PROVE  LiveInv'
BY RecordingKeepsLive DEF FInv

LEMMA CreateKeepsFInv ==
  ASSUME FInv, NEW r \in Runs, NEW p \in Products, NEW s \in Specs, CreateProduct(r, p, s)
  PROVE  FInv'
<1> DEFINE e == NewEntry(r, p, "created", None, None, None)
<1>1. /\ e \in Entry /\ ledger' = Recorded(ledger, e)
      /\ UNCHANGED <<promotions, saved, earned, restarts>>
      /\ tasks' = tasks \cup TasksOf(r, p, s) /\ runs' = [runs EXCEPT ![r] = Created(p, s)]
  BY NewEntryType DEF CreateProduct
<1>2. e.run = r /\ e.kind = "created" /\ e.stage = None
  BY DEF NewEntry
<1> HIDE DEF e
<1>3. /\ Created(p, s) \in Run /\ Created(p, s).stage = 1 /\ Created(p, s).state = "RUNNING"
      /\ Created(p, s).product = p /\ Created(p, s).spec = s /\ 1 \in 1..Len(StageOrder)
  BY StagesAreNamed DEF Created, Run
<1>4. /\ runs \in [Runs -> Run \cup {None}] /\ runs' \in [Runs -> Run \cup {None}]
      /\ runs'[r] = Created(p, s) /\ \A q \in Runs : q # r => runs'[q] = runs[q]
  BY <1>1, <1>3 DEF FInv, FactoryTypes, RunsAreTyped
<1>5. RunsAreTyped(runs')
  BY <1>3, <1>4 DEF FInv, FactoryTypes, RunsAreTyped
<1>6. Backed(runs', tasks')
  BY <1>1, <1>3, <1>4 DEF FInv, TasksAreThere, Backed
<1>7. AcceptedIsEarned(runs)'
  BY <1>1, <1>3, <1>4 DEF FInv, LiveInv, AcceptedIsEarned
<1>8. LiveInv'
  BY <1>1, <1>2, <1>7, QuietKeepsLive
<1>9. tasks \subseteq tasks' /\ tasks' \subseteq Task
  BY <1>1, TasksType DEF FInv, FactoryTypes
<1>10. TellsOf(runs, runs', e)
  BY <1>2, <1>3, <1>4 DEF TellsOf
<1>11. promotions' \subseteq Promotion /\ earned' \subseteq Products \X (Commits \cup {None})
  BY <1>1 DEF FInv, FactoryTypes
<1>12. QED
  BY <1>1, <1>2, <1>4, <1>5, <1>6, <1>8, <1>9, <1>10, <1>11, RecordingKeepsFInv

LEMMA RefuseKeepsFInv ==
  ASSUME FInv, NEW r \in Runs, NEW p \in Products, NEW s \in Specs, RefuseProduct(r, p, s)
  PROVE  FInv'
<1>1. /\ tasks' = tasks \cup DeltaTasks(r, p, s)
      /\ UNCHANGED <<runs, ledger, promotions, saved, earned, restarts>>
  BY DEF RefuseProduct
<1>2. FactoryTypes'
  BY <1>1, TasksType DEF FInv, FactoryTypes
<1>3. TasksAreThere'
  BY <1>1 DEF FInv, TasksAreThere, Backed
<1>4. LiveInv' /\ AuditInv'
  BY <1>1 DEF FInv, LiveInv, AcceptedIsEarned, LiveWasEarned, AuditInv
<1>5. QED
  BY <1>2, <1>3, <1>4 DEF FInv

LEMMA EvidenceKeepsFInv ==
  ASSUME FInv, NEW r \in Runs, ApplyStageEvidence(r)
  PROVE  FInv'
<1> DEFINE run == runs[r]
           stage == StageOrder[run.stage]
<1>1. run # None /\ run.state = "RUNNING" /\ UNCHANGED <<tasks, promotions, saved, restarts>>
  BY DEF ApplyStageEvidence, Stored
<1>2. PICK e \in Evidence(stage), ok \in BOOLEAN :
        /\ runs' = [runs EXCEPT ![r] = Advanced(run, e, ok)]
        /\ ledger' = Recorded(ledger, NewEntry(r, run.product,
                       IF ok THEN "stage-accepted" ELSE "stage-failed", stage, None, None))
        /\ earned' = IF runs'[r].state = "ACCEPTED"
                     THEN earned \cup {<<run.product, e.commit>>} ELSE earned
  <2>1. \A e : ValidateStageEvidence(stage, e) \in BOOLEAN
    BY DEF ValidateStageEvidence
  <2>2. PICK e \in Evidence(stage) :
          LET ok == ValidateStageEvidence(stage, e) IN
          /\ runs' = [runs EXCEPT ![r] = Advanced(run, e, ok)]
          /\ ledger' = Recorded(ledger, NewEntry(r, run.product,
                         IF ok THEN "stage-accepted" ELSE "stage-failed", stage, None, None))
          /\ earned' = IF runs'[r].state = "ACCEPTED"
                       THEN earned \cup {<<run.product, e.commit>>} ELSE earned
    BY DEF ApplyStageEvidence
  <2>3. PICK ok \in BOOLEAN : ok = ValidateStageEvidence(stage, e)
    BY <2>1
  <2>4. QED
    BY <2>2, <2>3
<1> DEFINE after == Advanced(run, e, ok)
           x == NewEntry(r, run.product, IF ok THEN "stage-accepted" ELSE "stage-failed",
                         stage, None, None)
<1>3. /\ runs \in [Runs -> Run \cup {None}] /\ run \in Run
      /\ run.stage \in 1..Len(StageOrder) /\ Len(StageOrder) \in Nat
      /\ stage \in StageNames
  BY <1>1, StagesAreNamed DEF FInv, FactoryTypes, RunsAreTyped
<1>4. e.commit \in Commits \cup {None}
  BY DEF Evidence
<1>5. /\ run.product \in Products /\ run.spec \in Specs
      /\ run.commit \in Commits \cup {None}
  BY <1>3 DEF Run
<1>6. /\ x \in Entry /\ x.run = r /\ x.stage = stage
      /\ x.kind = IF ok THEN "stage-accepted" ELSE "stage-failed"
  <2>1. x \in Entry
    BY <1>3, <1>5, NewEntryType
  <2>2. QED
    BY <2>1 DEF NewEntry
<1>7. /\ after.product = run.product /\ after.spec = run.spec
      /\ after.stage = IF ok THEN run.stage + 1 ELSE run.stage
      /\ after.state = IF ~ok THEN "FAILED"
                       ELSE IF run.stage = Len(StageOrder) THEN "ACCEPTED" ELSE run.state
      /\ after.commit = IF stage = "ACCEPT" THEN e.commit ELSE run.commit
      /\ after \in Run
  <2>1. /\ after.product = run.product /\ after.spec = run.spec
        /\ after.stage = IF ok THEN run.stage + 1 ELSE run.stage
        /\ after.state = IF ~ok THEN "FAILED"
                         ELSE IF run.stage = Len(StageOrder) THEN "ACCEPTED" ELSE run.state
        /\ after.commit = IF stage = "ACCEPT" THEN e.commit ELSE run.commit
        /\ after = [product |-> after.product, spec |-> after.spec, stage |-> after.stage,
                    state |-> after.state, commit |-> after.commit]
    <3>1. after = [[[run EXCEPT !.commit = IF stage = "ACCEPT" THEN e.commit ELSE run.commit]
                     EXCEPT !.stage = IF ok THEN run.stage + 1 ELSE run.stage]
                     EXCEPT !.state = IF ~ok THEN "FAILED"
                       ELSE IF run.stage = Len(StageOrder) THEN "ACCEPTED" ELSE run.state]
      BY <1>3 DEF Advanced, Run
    <3>2. QED
      BY <1>3, <3>1 DEF Run
  <2>2. after.stage \in 1..(Len(StageOrder) + 1)
    BY <1>3, <2>1
  <2>3. after.state \in {"RUNNING", "FAILED", "ACCEPTED"}
    BY <1>1, <2>1
  <2>4. after.commit \in Commits \cup {None}
    BY <1>4, <1>5, <2>1
  <2> HIDE DEF after
  <2>5. after \in Run
    BY <1>5, <2>1, <2>2, <2>3, <2>4 DEF Run
  <2>6. QED
    BY <2>1, <2>5
<1> HIDE DEF after, x
<1>8. /\ runs' \in [Runs -> Run \cup {None}] /\ runs'[r] = after
      /\ \A q \in Runs : q # r => runs'[q] = runs[q]
  BY <1>2, <1>3, <1>7 DEF after
<1>9. /\ after.state = "RUNNING" => after.stage \in 1..Len(StageOrder)
      /\ after.state = "ACCEPTED" => after.stage = Len(StageOrder) + 1
  <2>1. CASE ok /\ run.stage # Len(StageOrder)
    BY <1>1, <1>3, <1>7, <2>1
  <2>2. CASE ok /\ run.stage = Len(StageOrder)
    BY <1>3, <1>7, <2>2
  <2>3. CASE ~ok
    BY <1>7, <2>3
  <2>4. QED
    BY <2>1, <2>2, <2>3
<1>10. RunsAreTyped(runs')
  BY <1>8, <1>9 DEF FInv, FactoryTypes, RunsAreTyped
<1>11. earned \subseteq earned' /\ earned' \subseteq Products \X (Commits \cup {None})
  BY <1>2, <1>4, <1>5 DEF FInv, FactoryTypes
<1>12. after.state = "ACCEPTED" => <<after.product, after.commit>> \in earned'
  <2> SUFFICES ASSUME after.state = "ACCEPTED"
               PROVE  <<after.product, after.commit>> \in earned'
    OBVIOUS
  <2>1. run.stage = Len(StageOrder)
    BY <1>1, <1>7
  <2>2. after.commit = e.commit
    BY <1>7, <2>1, FactoryAssumption
  <2>3. QED
    BY <1>2, <1>7, <1>8, <2>2
<1>13. AcceptedIsEarned(runs)'
  BY <1>8, <1>11, <1>12 DEF FInv, LiveInv, AcceptedIsEarned
<1>14. LiveInv'
  <2>1. x.kind # "production-accepted" /\ ledger' = Recorded(ledger, x)
    BY <1>2, <1>6 DEF x
  <2>2. QED
    BY <1>1, <1>6, <1>11, <1>13, <2>1, QuietKeepsLive
<1>15. TellsOf(runs, runs', x)
  BY <1>1, <1>6, <1>7, <1>8 DEF TellsOf
<1>16. Backed(runs', tasks')
  BY <1>1, <1>7, <1>8 DEF FInv, TasksAreThere, Backed
<1>17. tasks' \subseteq Task /\ promotions' \subseteq Promotion /\ tasks \subseteq tasks'
  BY <1>1 DEF FInv, FactoryTypes
<1>18. ledger' = Recorded(ledger, x) /\ \A q \in Runs : q # x.run => runs'[q] = runs[q]
  BY <1>2, <1>6, <1>8 DEF x
<1>19. QED
  BY <1>1, <1>6, <1>10, <1>11, <1>14, <1>15, <1>16, <1>17, <1>18, RecordingKeepsFInv

LEMMA PromoteKeepsFInv ==
  ASSUME FInv, NEW r \in Runs, NEW c \in Commits, NEW d \in Deployments, Promote(r, c, d)
  PROVE  FInv'
<1> DEFINE run == runs[r]
           x == NewEntry(r, run.product, "promoted", None, c, d)
           p == [run |-> r, product |-> run.product, commit |-> c, deployment |-> d]
<1>1. /\ run # None /\ run.state = "ACCEPTED" /\ run.commit = c
      /\ promotions' = promotions \cup {p} /\ ledger' = Recorded(ledger, x)
      /\ UNCHANGED <<runs, tasks, saved, earned, restarts>>
  BY DEF Promote, Stored, MayPromote
<1>2. run \in Run
  BY <1>1 DEF FInv, FactoryTypes, RunsAreTyped
<1>3. run.product \in Products
  BY <1>2 DEF Run
<1>4. /\ x \in Entry /\ x.run = r /\ x.kind = "promoted" /\ x.stage = None
      /\ x.commit = c /\ x.deployment = d
  <2>1. x \in Entry
    BY <1>3, NewEntryType
  <2>2. QED
    BY <2>1 DEF NewEntry
<1>5. p \in Promotion /\ p.product = run.product /\ p.commit = c /\ p.deployment = d
  BY <1>3 DEF Promotion
<1>6. <<run.product, c>> \in earned
  BY <1>1 DEF FInv, LiveInv, AcceptedIsEarned
<1>7. AcceptedIsEarned(runs)'
  BY <1>1 DEF FInv, LiveInv, AcceptedIsEarned
<1> HIDE DEF x, p
<1>8. LiveInv'
  <2>1. FactoryTypes /\ LiveInv /\ UNCHANGED <<saved, restarts>> /\ earned \subseteq earned'
    BY <1>1 DEF FInv
  <2>2. \A q \in promotions' : q \in promotions \/
          /\ <<q.product, q.commit>> \in earned
          /\ x.kind = "promoted" /\ x.commit = q.commit /\ x.deployment = q.deployment
    BY <1>1, <1>4, <1>5, <1>6
  <2>3. x.kind # "production-accepted"
    BY <1>4
  <2>4. QED
    BY <1>1, <1>4, <1>7, <2>1, <2>2, <2>3, RecordingKeepsLive
<1>9. TellsOf(runs, runs', x)
  BY <1>1, <1>4 DEF TellsOf
<1>10. /\ RunsAreTyped(runs') /\ tasks' \subseteq Task /\ tasks \subseteq tasks'
       /\ earned' \subseteq Products \X (Commits \cup {None}) /\ earned \subseteq earned'
       /\ promotions' \subseteq Promotion
  BY <1>1, <1>5 DEF FInv, FactoryTypes
<1>11. Backed(runs', tasks')
  BY <1>1 DEF FInv, TasksAreThere
<1>12. QED
  BY <1>1, <1>4, <1>8, <1>9, <1>10, <1>11, RecordingKeepsFInv

LEMMA VerifyKeepsFInv ==
  ASSUME FInv, NEW p \in promotions, NEW wrong, NEW full, VerifyProduction(p, wrong, full)
  PROVE  FInv'
<1>1. PICK kind \in {"production-accepted", "production-rejected"} :
        ledger' = Recorded(ledger, NewEntry(p.run, p.product, kind, None, p.commit, p.deployment))
  BY DEF VerifyProduction
<1>2. UNCHANGED <<runs, tasks, promotions, saved, earned, restarts>>
  BY DEF VerifyProduction
<1> DEFINE x == NewEntry(p.run, p.product, kind, None, p.commit, p.deployment)
<1>3. /\ p.run \in Runs /\ p.product \in Products /\ p.commit \in Commits
      /\ p.deployment \in Deployments
  BY DEF FInv, FactoryTypes, Promotion
<1>4. /\ x \in Entry /\ x.run = p.run /\ x.kind = kind /\ x.stage = None
      /\ x.product = p.product /\ x.commit = p.commit /\ x.deployment = p.deployment
  <2>1. x \in Entry
    BY <1>3, NewEntryType
  <2>2. QED
    BY <2>1 DEF NewEntry
<1>5. AcceptedIsEarned(runs)'
  BY <1>2 DEF FInv, LiveInv, AcceptedIsEarned
<1>6. ledger' = Recorded(ledger, x)
  BY <1>1
<1> HIDE DEF x
<1>7. LiveInv'
  BY <1>2, <1>4, <1>5, <1>6, RecordingKeepsLive DEF FInv
<1>8. TellsOf(runs, runs', x)
  BY <1>2, <1>4 DEF TellsOf
<1>9. /\ RunsAreTyped(runs') /\ tasks' \subseteq Task /\ tasks \subseteq tasks'
      /\ earned' \subseteq Products \X (Commits \cup {None}) /\ earned \subseteq earned'
      /\ promotions' \subseteq Promotion
  BY <1>2 DEF FInv, FactoryTypes
<1>10. Backed(runs', tasks')
  BY <1>2 DEF FInv, TasksAreThere
<1>11. QED
  BY <1>2, <1>4, <1>6, <1>7, <1>8, <1>9, <1>10, RecordingKeepsFInv

LEMMA SaveKeepsFInv == FInv /\ Save => FInv'
<1> SUFFICES ASSUME FInv, Save
             PROVE  FInv'
  OBVIOUS
<1>1. /\ UNCHANGED <<runs, ledger, tasks, promotions, earned, restarts>>
      /\ saved'.runs = runs /\ saved'.ledger = ledger /\ saved'.tasks = tasks
  BY DEF Save
<1>2. FactoryTypes' /\ TasksAreThere'
  BY <1>1 DEF FInv, FactoryTypes, TasksAreThere
<1>3. LiveInv' /\ AuditInv'
  BY <1>1 DEF FInv, LiveInv, AcceptedIsEarned, LiveWasEarned, AuditInv
<1>4. QED
  BY <1>2, <1>3 DEF FInv

LEMMA RestoreKeepsFInv == FInv /\ Restore => FInv'
<1> SUFFICES ASSUME FInv, Restore
             PROVE  FInv'
  OBVIOUS
<1>1. /\ runs' = saved.runs /\ ledger' = saved.ledger /\ UNCHANGED <<promotions, saved, earned>>
      /\ tasks' = saved.tasks \/ tasks' = tasks
      /\ restarts' = restarts + 1
  BY DEF Restore
<1>2. restarts' \in Nat /\ restarts' > 0
  BY <1>1 DEF FInv, FactoryTypes
<1>3. FactoryTypes'
  BY <1>1, <1>2 DEF FInv, FactoryTypes
<1>4. TasksAreThere'
  BY <1>1 DEF FInv, TasksAreThere
<1>5. LiveInv'
  BY <1>1, <1>2 DEF FInv, LiveInv, AcceptedIsEarned, LiveWasEarned
<1>6. AuditInv'
  BY <1>1 DEF FInv, AuditInv
<1>7. QED
  BY <1>3, <1>4, <1>5, <1>6 DEF FInv

LEMMA FInvNext == FInv /\ [FactoryNext]_factoryVars => FInv'
<1> SUFFICES ASSUME FInv, [FactoryNext]_factoryVars
             PROVE  FInv'
  OBVIOUS
<1>1. CASE UNCHANGED factoryVars
  <2>1. FactoryTypes' /\ TasksAreThere'
    BY <1>1 DEF FInv, FactoryTypes, TasksAreThere, factoryVars
  <2>2. LiveInv' /\ AuditInv'
    BY <1>1 DEF FInv, LiveInv, AcceptedIsEarned, LiveWasEarned, AuditInv, factoryVars
  <2>3. QED
    BY <2>1, <2>2 DEF FInv
<1>2. QED
  BY <1>1, CreateKeepsFInv, RefuseKeepsFInv, EvidenceKeepsFInv, PromoteKeepsFInv,
     VerifyKeepsFInv, SaveKeepsFInv, RestoreKeepsFInv DEF FactoryNext

LEMMA FactoryInductive == FactorySpec => []FInv
BY FInvInit, FInvNext, PTL DEF FactorySpec

----------------------------------------------------------------------------
(* The theorems. *)

\* Every number of the ledger names one record, through truncation and restarts, and a stored
\* run has all its tasks in the graph, though the sink may refuse a creation halfway.
THEOREM LedgerAndTasksAgree == FactorySpec => []FactoryInvariant
<1>1. FInv => FactoryInvariant
  <2> SUFFICES ASSUME FInv
               PROVE  FactoryInvariant
    OBVIOUS
  <2>1. LedgerIsOrdered
    BY DEF FInv, FactoryTypes, RunsAreTyped, LedgerIsTyped, LedgerIsOrdered
  <2>2. RunsHaveTheirTasks
    BY DEF FInv, TasksAreThere, Backed, RunsHaveTheirTasks, Stored
  <2>3. QED
    BY <2>1, <2>2 DEF FactoryInvariant
<1>2. QED
  BY <1>1, FactoryInductive, PTL

\* A commit that was accepted in production was accepted by a run of its product before, and
\* its promotion can be read in the ledger as far as nothing was dropped or undone.
THEOREM LiveCommitsWereAccepted == FactorySpec => []LiveIsEarned
<1>1. FInv => LiveIsEarned
  BY DEF FInv, LiveInv, LiveWasEarned, Known, Told, LiveIsEarned
<1>2. QED
  BY <1>1, FactoryInductive, PTL

\* The ledger shows, before a promotion, every stage of the run accepted once and in order, as
\* long as it still shows the creation of the run.
THEOREM PromotionsAreAudited == FactorySpec => []PromotionIsAudited
<1>1. FInv => PromotionIsAudited
  <2> SUFFICES ASSUME FInv, NEW i \in DOMAIN ledger.entries,
                      ledger.entries[i].kind = "promoted", TrailTo(i) # {}
               PROVE  LET stages == {j \in TrailTo(i) : ledger.entries[j].stage # None} IN
                      /\ Cardinality(stages) = Len(StageOrder)
                      /\ \A j \in stages :
                           /\ ledger.entries[j].kind = "stage-accepted"
                           /\ ledger.entries[j].stage
                                = StageOrder[Cardinality({k \in stages : k <= j})]
    BY DEF PromotionIsAudited
  <2> DEFINE s == ledger.entries
             r == s[i].run
  <2>1. Audited(s, r, i, Len(StageOrder))
    BY DEF FInv, AuditInv, TrailsAreWhole
  <2>2. Starts(s, r, i) # {} /\ {j \in TrailTo(i) : s[j].stage # None} = Passed(s, r, i)
    BY DEF TrailTo, Starts, Mine, Passed
  <2>3. InOrder(s, Passed(s, r, i), Len(StageOrder))
    BY <2>1, <2>2 DEF Audited
  <2>4. QED
    BY <2>2, <2>3 DEF InOrder
<1>2. QED
  BY <1>1, FactoryInductive, PTL
=============================================================================
