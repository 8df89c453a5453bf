-------------------------- MODULE EventJournalProofs --------------------------
(***************************************************************************)
(* The properties of RepairController and of EventJournal: calls under an  *)
(* idempotency key take effect once, and the repair budget holds with the  *)
(* calls that spend it, for every set of tasks, keys and failures, every   *)
(* budget, any size of the journal and any number of restarts from a       *)
(* snapshot that was captured at one moment and written at another.        *)
(***************************************************************************)
EXTENDS EventJournal, FiniteSetTheorems, TLAPS

----------------------------------------------------------------------------
(* Repairs: the inductive invariant, as a fact about one history and what was *)
(* granted under it: a snapshot pairs the two, so it holds of the saved pair. *)

\* Retries are attempts, and an attempt that leaves the breaker closed is within budget.
WithinBudget(h, g) ==
  /\ g.retries <= h.attempts
  /\ ~h.breakerOpen /\ h.attempts > 0 => h.attempts < MaxAttempts
  /\ g.retries > 0 => g.retries < MaxAttempts

\* sameFailure counts at least the identical failures at the end of the run.
RunIsCounted(h, g) ==
  ~h.breakerOpen /\ Len(g.run) > 0 =>
    /\ h.lastFailure = g.run[Len(g.run)]
    /\ h.sameFailure < BreakerThreshold
    /\ \A i \in 1..Len(g.run) :
         (\A j \in i..Len(g.run) : g.run[j] = g.run[Len(g.run)])
           => Len(g.run) - i + 1 <= h.sameFailure

NoIdenticalRun(g) ==
  \A f \in Failures, i \in 1..Len(g.run) :
    i + BreakerThreshold - 1 <= Len(g.run) =>
      \E j \in i..(i + BreakerThreshold - 1) : g.run[j] # f

Consistent(h, g) ==
  /\ h \in History
  /\ g \in GrantedType
  /\ WithinBudget(h, g)
  /\ RunIsCounted(h, g)
  /\ NoIdenticalRun(g)

RInv ==
  /\ history \in [Keys -> History]
  /\ granted \in [Keys -> GrantedType]
  /\ saved \in [history: [Keys -> History], granted: [Keys -> GrantedType]]
  /\ decisions \in Nat
  /\ \A k \in Keys : Consistent(history[k], granted[k])
  /\ \A k \in Keys : Consistent(saved.history[k], saved.granted[k])

----------------------------------------------------------------------------
(* What one decision does to one task. *)

LEMMA FreshIsConsistent == Consistent(Fresh, NothingGranted)
<1>1. <<>> \in Seq(Failures) /\ Len(<<>>) = 0
  OBVIOUS
<1>2. NothingGranted \in GrantedType /\ Fresh \in History
  BY <1>1 DEF NothingGranted, GrantedType, Fresh, History
<1>3. QED
  BY <1>1, <1>2
     DEF Consistent, NothingGranted, Fresh, WithinBudget, RunIsCounted, NoIdenticalRun

\* A retry adds one failure to the run, and is granted only below both limits.
LEMMA RetryKeepsConsistent ==
  ASSUME NEW h \in History, NEW g \in GrantedType, Consistent(h, g), NEW f \in Failures,
         ~h.breakerOpen, ~Counted(h, f).breakerOpen
  PROVE  Consistent(Counted(h, f), [retries |-> g.retries + 1, run |-> Append(g.run, f)])
<1> DEFINE hh == Counted(h, f)
           gg == [retries |-> g.retries + 1, run |-> Append(g.run, f)]
           n  == Len(g.run)
<1>1. SameFailure(h, f) \in Nat /\ SameFailure(h, f) >= 1
  BY DEF SameFailure, History
<1>2. /\ hh \in History
      /\ hh.attempts = h.attempts + 1
      /\ hh.sameFailure = SameFailure(h, f)
      /\ hh.lastFailure = f
      /\ ~hh.breakerOpen
      /\ h.attempts + 1 < MaxAttempts
      /\ SameFailure(h, f) < BreakerThreshold
  <2>1. hh.breakerOpen <=> h.attempts + 1 >= MaxAttempts \/ SameFailure(h, f) >= BreakerThreshold
    BY DEF Counted
  <2>2. h.attempts + 1 < MaxAttempts /\ SameFailure(h, f) < BreakerThreshold
    BY <1>1, <2>1, BudgetAssumption DEF History
  <2>3. QED
    BY <1>1, <2>2 DEF Counted, History
<1>3. /\ g.run \in Seq(Failures)
      /\ g.retries \in Nat
      /\ n \in Nat
      /\ gg \in GrantedType
      /\ gg.retries = g.retries + 1
      /\ Len(gg.run) = n + 1
      /\ gg.run[n + 1] = f
      /\ \A j \in 1..n : gg.run[j] = g.run[j]
  BY DEF GrantedType
<1>4. h.attempts \in Nat /\ h.sameFailure \in Nat
  BY DEF History
<1> HIDE DEF hh, gg
<1>5. WithinBudget(hh, gg)
  BY <1>2, <1>3, <1>4, BudgetAssumption DEF WithinBudget, Consistent
<1>6. \A i \in 1..(n + 1) :
        (\A j \in i..(n + 1) : gg.run[j] = f) => n + 1 - i + 1 <= SameFailure(h, f)
  <2> SUFFICES ASSUME NEW i \in 1..(n + 1), \A j \in i..(n + 1) : gg.run[j] = f
               PROVE  n + 1 - i + 1 <= SameFailure(h, f)
    OBVIOUS
  <2>1. CASE i = n + 1
    BY <2>1, <1>3, <1>4 DEF SameFailure
  <2>2. CASE i # n + 1
    <3>1. i \in 1..n /\ n > 0
      BY <2>2, <1>3
    <3>2. \A j \in i..n : g.run[j] = f
      BY <3>1, <1>3
    <3>3. g.run[n] = f
      BY <3>1, <3>2, <1>3
    <3>4. h.lastFailure = f /\ n - i + 1 <= h.sameFailure
      BY <3>1, <3>2, <3>3 DEF Consistent, RunIsCounted
    <3>5. QED
      BY <3>1, <3>4, <1>3, <1>4 DEF SameFailure
  <2>3. QED
    BY <2>1, <2>2
<1>7. RunIsCounted(hh, gg)
  BY <1>2, <1>3, <1>6 DEF RunIsCounted
<1>8. NoIdenticalRun(gg)
  <2> SUFFICES ASSUME NEW e \in Failures, NEW i \in 1..(n + 1),
                      i + BreakerThreshold - 1 <= n + 1,
                      \A j \in i..(i + BreakerThreshold - 1) : gg.run[j] = e
               PROVE  FALSE
    BY <1>3 DEF NoIdenticalRun
  <2>1. CASE i + BreakerThreshold - 1 <= n /\ i \in 1..n
    <3>1. \A j \in i..(i + BreakerThreshold - 1) : j \in 1..n
      BY <2>1, <1>3, BudgetAssumption
    <3>2. \A j \in i..(i + BreakerThreshold - 1) : g.run[j] = e
      BY <3>1, <1>3
    <3>3. QED
      BY <2>1, <3>2 DEF Consistent, NoIdenticalRun
  <2>2. CASE ~(i + BreakerThreshold - 1 <= n /\ i \in 1..n)
    <3>1. BreakerThreshold \in Nat /\ BreakerThreshold >= 2
      BY <1>2, <1>1, BudgetAssumption
    <3>2. BreakerThreshold >= 2 /\ i + BreakerThreshold - 1 = n + 1
      <4>1. n \in Nat /\ i \in Nat /\ i >= 1 /\ i <= n + 1
        BY <1>3
      <4>2. i + BreakerThreshold - 1 <= n + 1
        OBVIOUS
      <4>3. i <= n
        BY <3>1, <4>1, <4>2
      <4>4. i + BreakerThreshold - 1 > n
        BY <2>2, <3>1, <4>1, <4>3
      <4>5. QED
        BY <3>1, <4>1, <4>2, <4>4
    <3>3. e = f
      BY <3>2, <1>3, BudgetAssumption
    <3>4. \A j \in i..(n + 1) : gg.run[j] = f
      BY <3>2, <3>3
    <3>5. n + 1 - i + 1 <= SameFailure(h, f)
      BY <3>4, <1>6
    <3>6. QED
      BY <3>1, <3>2, <3>5, <1>2, <1>3, <1>1
  <2>3. QED
    BY <2>1, <2>2
<1>9. QED
  BY <1>2, <1>3, <1>5, <1>7, <1>8 DEF Consistent, hh, gg

\* The failure that opens the breaker grants nothing.
LEMMA TripKeepsConsistent ==
  ASSUME NEW h \in History, NEW g \in GrantedType, Consistent(h, g), NEW f \in Failures,
         ~h.breakerOpen, Counted(h, f).breakerOpen
  PROVE  Consistent(Counted(h, f), g)
BY BudgetAssumption
   DEF Consistent, Counted, SameFailure, History, GrantedType, WithinBudget, RunIsCounted

\* An acceptance empties the run.
LEMMA AcceptKeepsConsistent ==
  ASSUME NEW h \in History, NEW g \in GrantedType, Consistent(h, g)
  PROVE  Consistent(Accepted(h), [g EXCEPT !.run = <<>>])
<1>1. <<>> \in Seq(Failures) /\ Len(<<>>) = 0
  OBVIOUS
<1>2. Accepted(h) \in History /\ [g EXCEPT !.run = <<>>] \in GrantedType
  BY <1>1 DEF Accepted, History, GrantedType
<1>3. QED
  BY <1>1, <1>2
     DEF Consistent, Accepted, History, GrantedType, WithinBudget, RunIsCounted, NoIdenticalRun

LEMMA DecisionKeepsConsistent ==
  ASSUME NEW h \in History, NEW g \in GrantedType, Consistent(h, g), NEW v \in Verification
  PROVE  Consistent(HistoryAfter(h, v), GrantedAfter(g, ActionFor(h, v), v))
<1>1. CASE h.breakerOpen
  BY <1>1 DEF HistoryAfter, ActionFor, GrantedAfter
<1>2. CASE ~h.breakerOpen /\ v.verdict = "ACCEPT"
  BY <1>2, AcceptKeepsConsistent DEF HistoryAfter, ActionFor, GrantedAfter
<1>3. CASE ~h.breakerOpen /\ v.verdict = "REPAIR"
  <2>1. v.failure \in Failures
    BY <1>3 DEF Verification
  <2>2. HistoryAfter(h, v) = Counted(h, v.failure)
    BY <1>3 DEF HistoryAfter
  <2>3. CASE Counted(h, v.failure).breakerOpen
    <3>1. ActionFor(h, v) = "TERMINATE"
      BY <1>3, <2>3 DEF ActionFor
    <3>2. QED
      BY <1>3, <2>1, <2>2, <2>3, <3>1, TripKeepsConsistent DEF GrantedAfter
  <2>4. CASE ~Counted(h, v.failure).breakerOpen
    <3>1. ActionFor(h, v) = "RETRY_REPAIR"
      BY <1>3, <2>4 DEF ActionFor
    <3>2. QED
      BY <1>3, <2>1, <2>2, <2>4, <3>1, RetryKeepsConsistent DEF GrantedAfter
  <2>5. QED
    BY <2>3, <2>4
<1>4. CASE ~h.breakerOpen /\ v.verdict \in {"ESCALATE", "REJECT"}
  BY <1>4 DEF HistoryAfter, ActionFor, GrantedAfter
<1>5. QED
  BY <1>1, <1>2, <1>3, <1>4 DEF Verification

----------------------------------------------------------------------------
(* Every step keeps the invariant. *)

LEMMA RInvInit == RepairInit => RInv
<1> SUFFICES ASSUME RepairInit PROVE RInv
  OBVIOUS
<1>1. Fresh \in History /\ NothingGranted \in GrantedType
  BY FreshIsConsistent DEF Consistent
<1>2. QED
  BY <1>1, FreshIsConsistent DEF RepairInit, RInv, NothingSaved

LEMMA RInvNext == RInv /\ [RepairNext]_repairVars => RInv'
<1> SUFFICES ASSUME RInv, [RepairNext]_repairVars PROVE RInv'
  OBVIOUS
<1>1. ASSUME NEW k \in Keys, NEW v \in Verification, Decide(k, v)
      PROVE  RInv'
  <2> DEFINE h == HistoryAfter(history[k], v)
             g == GrantedAfter(granted[k], ActionFor(history[k], v), v)
  <2>1. Consistent(h, g)
    BY DecisionKeepsConsistent DEF RInv
  <2>2. h \in History /\ g \in GrantedType
    BY <2>1 DEF Consistent
  <2>3. /\ history' = [history EXCEPT ![k] = h]
        /\ granted' = [granted EXCEPT ![k] = g]
        /\ saved' = saved
        /\ decisions' = decisions + 1
    BY <1>1 DEF Decide
  <2> HIDE DEF h, g
  <2>4. QED
    BY <2>1, <2>2, <2>3 DEF RInv
<1>2. ASSUME NEW k \in Keys, Reset(k)
      PROVE  RInv'
  <2>1. Fresh \in History /\ NothingGranted \in GrantedType
    BY FreshIsConsistent DEF Consistent
  <2>2. QED
    BY <1>2, <2>1, FreshIsConsistent DEF Reset, RInv
<1>3. CASE SaveRepairs
  BY <1>3 DEF SaveRepairs, RInv
<1>4. CASE RestoreRepairs
  BY <1>4 DEF RestoreRepairs, RInv
<1>5. CASE UNCHANGED repairVars
  BY <1>5 DEF repairVars, RInv
<1>6. QED
  BY <1>1, <1>2, <1>3, <1>4, <1>5 DEF RepairNext

THEOREM RepairInductive == RepairSpec => []RInv
BY RInvInit, RInvNext, PTL DEF RepairSpec

----------------------------------------------------------------------------
(* The theorems of the repair controller. *)

\* The variables of the repair controller keep their types.
THEOREM RepairTypeCorrect == RepairSpec => []RepairTypeOK
<1>1. RInv => RepairTypeOK
  BY DEF RInv, RepairTypeOK
<1>2. QED
  BY <1>1, RepairInductive, PTL

\* A task is granted fewer repairs than MaxAttempts between two resets.
THEOREM RetriesAreBounded == RepairSpec => []RetryBudget
<1>1. RInv => RetryBudget
  BY DEF RInv, Consistent, WithinBudget, RetryBudget
<1>2. QED
  BY <1>1, RepairInductive, PTL

\* BreakerThreshold identical failures in a row are never all granted a repair.
THEOREM IdenticalFailuresAreBounded == RepairSpec => []IdenticalFailuresTrip
<1>1. RInv => IdenticalFailuresTrip
  BY DEF RInv, Consistent, NoIdenticalRun, IdenticalFailuresTrip
<1>2. QED
  BY <1>1, RepairInductive, PTL

\* An open breaker grants nothing until a reset or a restart.
THEOREM OpenBreakerGrantsNothing == RepairSpec => OpenBreakerHolds
<1> DEFINE Held == \A k \in Keys :
       history[k].breakerOpen =>
         \/ history'[k] = history[k] /\ granted'[k] = granted[k]
         \/ history'[k] = Fresh /\ granted'[k] = NothingGranted
         \/ history'[k] = saved.history[k] /\ granted'[k] = saved.granted[k]
<1>1. ASSUME RInv, RepairNext, NEW k \in Keys, history[k].breakerOpen
      PROVE  \/ history'[k] = history[k] /\ granted'[k] = granted[k]
             \/ history'[k] = Fresh /\ granted'[k] = NothingGranted
             \/ history'[k] = saved.history[k] /\ granted'[k] = saved.granted[k]
  <2>1. ASSUME NEW m \in Keys, NEW v \in Verification, Decide(m, v)
        PROVE  history'[k] = history[k] /\ granted'[k] = granted[k]
    <3>1. CASE m = k
      BY <1>1, <2>1, <3>1 DEF Decide, RInv, HistoryAfter, ActionFor, GrantedAfter
    <3>2. CASE m # k
      BY <1>1, <2>1, <3>2 DEF Decide, RInv
    <3>3. QED
      BY <3>1, <3>2
  <2>2. ASSUME NEW m \in Keys, Reset(m)
        PROVE  \/ history'[k] = history[k] /\ granted'[k] = granted[k]
               \/ history'[k] = Fresh /\ granted'[k] = NothingGranted
    BY <1>1, <2>2 DEF Reset, RInv
  <2>3. QED
    BY <1>1, <2>1, <2>2 DEF RepairNext, SaveRepairs, RestoreRepairs
<1>2. RInv /\ [RepairNext]_repairVars => [Held]_repairVars
  BY <1>1
<1>3. QED
  BY <1>2, RepairInductive, PTL DEF RepairSpec, OpenBreakerHolds

----------------------------------------------------------------------------
(* The journal: the inductive invariant, of what is live, captured and in the *)
(* file alike.                                                                *)

\* A key that was never used has no effect, and a used one has had one.
UsedOnce(ks, effects) ==
  \A i \in Ids : effects[i] \in {0, 1} /\ (ks[i] = Unused => effects[i] = 0)

ConsistentRepairs(r) ==
  /\ r \in [history: [Keys -> History], granted: [Keys -> GrantedType]]
  /\ \A k \in Keys : Consistent(r.history[k], r.granted[k])

JInv ==
  /\ RInv
  /\ UsedOnce(keys, took)
  /\ capture.taken => /\ ConsistentRepairs(capture.repairs)
                      /\ UsedOnce(capture.live.keys, capture.live.took)
  /\ file.written => UsedOnce(file.live.keys, file.live.took)

LEMMA JournalInitInv == JournalInit => JInv
<1> SUFFICES ASSUME JournalInit PROVE JInv
  OBVIOUS
<1>1. RInv
  BY RInvInit DEF JournalInit
<1>2. UsedOnce(keys, took)
  BY DEF JournalInit, UsedOnce
<1>3. ~capture.taken /\ ~file.written
  BY DEF JournalInit, NoCapture, NoFile
<1>4. QED
  BY <1>1, <1>2, <1>3 DEF JInv

----------------------------------------------------------------------------
(* The steps. *)

\* A recorded call uses a key that was not used before.
LEMMA OnceKeeps ==
  ASSUME JInv, RInv', NEW id, NEW request, request.call # "none", NEW events,
         Once(id, request, events)
  PROVE  JInv'
<1>1. /\ New(id, request) /\ UNCHANGED <<capture, file>>
      /\ keys' = [i \in Ids |-> IF i = id THEN request ELSE keys[i]]
      /\ took' = [i \in Ids |-> IF i = id THEN took[i] + 1 ELSE took[i]]
  BY DEF Once
<1>2. request # Unused
  BY DEF Unused
<1>3. UsedOnce(keys', took')
  <2> SUFFICES ASSUME NEW i \in Ids
               PROVE  took'[i] \in {0, 1} /\ (keys'[i] = Unused => took'[i] = 0)
    BY DEF UsedOnce
  <2>1. CASE i = id
    <3>1. keys[i] = Unused
      BY <1>1, <2>1 DEF New
    <3>2. took[i] = 0
      BY <3>1 DEF JInv, UsedOnce
    <3>3. QED
      BY <1>1, <1>2, <2>1, <3>2
  <2>2. CASE i # id
    BY <1>1, <2>2 DEF JInv, UsedOnce
  <2>3. QED
    BY <2>1, <2>2
<1>4. QED
  BY <1>1, <1>3 DEF JInv

LEMMA CompleteKeeps ==
  ASSUME JInv, NEW id, NEW r \in Results, Complete(id, r)
  PROVE  JInv'
<1>1. r.call # "none" /\ r.task \in Keys /\ r.verification \in Verification
  BY DEF Results
<1>2. Decide(r.task, r.verification) /\ Once(id, r, 1)
  BY DEF Complete
<1>3. RInv'
  BY <1>1, <1>2, RInvNext DEF JInv, RepairNext
<1>4. QED
  BY <1>1, <1>2, <1>3, OnceKeeps

\* A command changes no history.
LEMMA CommandKeeps ==
  ASSUME JInv, NEW id, \/ \E r \in Releases : Release(id, r)
                       \/ \E r \in Switches : Switch(id, r)
  PROVE  JInv'
<1>1. \E r, n : r.call # "none" /\ Once(id, r, n)
  <2>1. CASE \E r \in Releases : Release(id, r)
    <3>1. PICK r \in Releases : Once(id, r, 2)
      BY <2>1 DEF Release
    <3>2. r.call # "none"
      BY DEF Releases
    <3>3. QED
      BY <3>1, <3>2
  <2>2. CASE \E r \in Switches : Switch(id, r)
    <3>1. PICK r \in Switches : Once(id, r, 1)
      BY <2>2 DEF Switch
    <3>2. r.call # "none"
      BY DEF Switches
    <3>3. QED
      BY <3>1, <3>2
  <2>3. QED
    BY <2>1, <2>2
<1>2. UNCHANGED repairVars
  BY DEF Release, Switch
<1>3. RInv'
  BY <1>2, RInvNext DEF JInv
<1>4. QED
  BY <1>1, <1>3, OnceKeeps

LEMMA CloseKeeps ==
  ASSUME JInv, NEW k \in Keys, CloseByRepair(k)
  PROVE  JInv'
<1>1. Reset(k) /\ UNCHANGED <<keys, took, capture, file>>
  BY DEF CloseByRepair
<1>2. RInv'
  BY <1>1, RInvNext DEF JInv, RepairNext
<1>3. QED
  BY <1>1, <1>2 DEF JInv

\* What is captured is as sound as what is live.
LEMMA CaptureKeeps ==
  ASSUME JInv, Capture
  PROVE  JInv'
<1>1. /\ capture' = [taken |-> TRUE, live |-> Live, sequence |-> journal.sequence,
                     repairs |-> [history |-> history, granted |-> granted]]
      /\ UNCHANGED repairVars /\ UNCHANGED <<keys, took, file>>
  BY DEF Capture, liveVars
<1>2. RInv'
  BY <1>1, RInvNext DEF JInv
<1>3. ConsistentRepairs(capture'.repairs)
  BY <1>1 DEF JInv, RInv, ConsistentRepairs
<1>4. capture'.live.keys = keys /\ capture'.live.took = took
  BY <1>1 DEF Live
<1>5. QED
  BY <1>1, <1>2, <1>3, <1>4 DEF JInv

\* The file gets what was captured, whatever happened since.
LEMMA WriteKeeps ==
  ASSUME JInv, Write
  PROVE  JInv'
<1>1. /\ capture.taken /\ saved' = capture.repairs /\ capture' = NoCapture
      /\ file'.live = capture.live
      /\ UNCHANGED <<history, granted, decisions, keys, took>>
  BY DEF Write, liveVars
<1>2. RInv'
  BY <1>1 DEF JInv, RInv, ConsistentRepairs
<1>3. ~capture'.taken
  BY <1>1 DEF NoCapture
<1>4. QED
  BY <1>1, <1>2, <1>3 DEF JInv

\* The histories, the keys and the effects that come back are of one moment.
LEMMA RestartKeeps ==
  ASSUME JInv, Restart
  PROVE  JInv'
<1>1. /\ file.written /\ RestoreRepairs
      /\ keys' = file.live.keys /\ took' = file.live.took
      /\ capture' = NoCapture /\ file' = NoFile
  BY DEF Restart, RestoredKeys
<1>2. RInv'
  BY <1>1, RInvNext DEF JInv, RepairNext
<1>3. ~capture'.taken /\ ~file'.written
  BY <1>1 DEF NoCapture, NoFile
<1>4. QED
  BY <1>1, <1>2, <1>3 DEF JInv

LEMMA JournalNextInv == JInv /\ [JournalNext]_journalVars => JInv'
<1> SUFFICES ASSUME JInv, [JournalNext]_journalVars PROVE JInv'
  OBVIOUS
<1>1. CASE \E id \in Ids \cup {NoId}, r \in Results : Complete(id, r)
  BY <1>1, CompleteKeeps
<1>2. CASE \E id \in Ids \cup {NoId} : \/ \E r \in Releases : Release(id, r)
                                       \/ \E r \in Switches : Switch(id, r)
  BY <1>2, CommandKeeps
<1>3. CASE \E k \in Keys : CloseByRepair(k)
  BY <1>3, CloseKeeps
<1>4. CASE Read \/ UNCHANGED journalVars
  <2>1. UNCHANGED repairVars /\ UNCHANGED <<keys, took, capture, file>>
    BY <1>4 DEF Read, journalVars, liveVars
  <2>2. RInv'
    BY <2>1, RInvNext DEF JInv
  <2>3. QED
    BY <2>1, <2>2 DEF JInv
<1>5. CASE Capture
  BY <1>5, CaptureKeeps
<1>6. CASE Write
  BY <1>6, WriteKeeps
<1>7. CASE Restart
  BY <1>7, RestartKeeps
<1>8. QED
  BY <1>1, <1>2, <1>3, <1>4, <1>5, <1>6, <1>7 DEF JournalNext

LEMMA JournalInductive == JournalSpec => []JInv
BY JournalInitInv, JournalNextInv, PTL DEF JournalSpec

----------------------------------------------------------------------------
(* The journal's numbers: what the reader saw, the entries and those in the file agree on *)
(* what each number stands for, until a restart takes numbers back.                       *)

EntryType == [sequence: Nat, stamp: Nat]

Elements(entries) == {entries[n] : n \in DOMAIN entries}

Ordered(entries) ==
  \A m, n \in DOMAIN entries : m < n => entries[m].sequence < entries[n].sequence

UpTo(A, last) == \A e \in A : e.sequence <= last

Agree(A, B) == \A a \in A, b \in B : a.sequence = b.sequence => a = b

NumberTypes ==
  /\ journal.entries \in Seq(EntryType) /\ journal.sequence \in Nat /\ journal.stamp \in Nat
  /\ reader.after \in Nat /\ reader.seen \subseteq EntryType
  /\ restarts \in Nat
  /\ capture.taken => capture.sequence \in Nat
  /\ file.written => file.sequence \in Nat /\ file.entries \in Seq(EntryType)

NumbersAgree ==
  /\ Ordered(journal.entries) /\ UpTo(Elements(journal.entries), journal.sequence)
  /\ reader.after <= journal.sequence /\ UpTo(reader.seen, reader.after)
  /\ Agree(Elements(journal.entries), reader.seen)
  /\ file.written => /\ Ordered(file.entries) /\ UpTo(Elements(file.entries), journal.sequence)
                     /\ Agree(Elements(file.entries), Elements(journal.entries))
                     /\ Agree(Elements(file.entries), reader.seen)
  /\ restarts = 0 =>
       \A e \in Elements(journal.entries) : e.sequence <= reader.after => e \in reader.seen

NInv == NumberTypes /\ (~rewound => NumbersAgree)

\* The newest entries are the last of them.
LEMMA NewestIsSuffix ==
  ASSUME NEW s \in Seq(EntryType)
  PROVE  /\ Newest(s) \in Seq(EntryType)
         /\ \E k \in Nat : /\ Len(s) = Len(Newest(s)) + k
                           /\ \A n \in DOMAIN Newest(s) : Newest(s)[n] = s[n + k]
<1> DEFINE k == IF Len(s) <= MaxEntries THEN 0 ELSE Len(s) - MaxEntries
<1>1. MaxEntries \in Nat /\ Len(s) \in Nat
  BY JournalAssumption
<1>2. CASE Len(s) <= MaxEntries
  BY <1>1, <1>2 DEF Newest
<1>3. CASE Len(s) > MaxEntries
  <2>1. k = Len(s) - MaxEntries /\ k \in Nat /\ k <= Len(s) /\ ~(Len(s) <= MaxEntries)
    BY <1>1, <1>3
  <2>2. Newest(s) = SubSeq(s, k + 1, Len(s))
    BY <2>1 DEF Newest
  <2>3. /\ SubSeq(s, k + 1, Len(s)) \in Seq(EntryType)
        /\ Len(SubSeq(s, k + 1, Len(s))) = Len(s) - k
        /\ \A n \in 1..(Len(s) - k) : SubSeq(s, k + 1, Len(s))[n] = s[n + k]
    <3> HIDE DEF k
    <3>1. QED
      BY <1>1, <2>1
  <2> HIDE DEF k
  <2>4. Newest(s) \in Seq(EntryType) /\ Len(Newest(s)) = Len(s) - k
    BY <2>2, <2>3
  <2>5. DOMAIN Newest(s) = 1..(Len(s) - k) /\ Len(s) = Len(Newest(s)) + k
    BY <1>1, <2>1, <2>4
  <2>6. \A n \in DOMAIN Newest(s) : Newest(s)[n] = s[n + k]
    BY <2>2, <2>3, <2>5
  <2>7. QED
    BY <2>1, <2>4, <2>5, <2>6
<1>4. Len(s) <= MaxEntries \/ Len(s) > MaxEntries
  BY <1>1
<1>5. QED
  BY <1>2, <1>3, <1>4, Zenon

LEMMA EntriesAreTyped ==
  ASSUME NEW s \in Seq(EntryType)
  PROVE  /\ Len(s) \in Nat /\ DOMAIN s = 1..Len(s)
         /\ \A n \in DOMAIN s : s[n] \in EntryType /\ s[n].sequence \in Nat
<1>1. Len(s) \in Nat /\ DOMAIN s = 1..Len(s) /\ \A n \in DOMAIN s : s[n] \in EntryType
  OBVIOUS
<1>2. \A e \in EntryType : e.sequence \in Nat
  BY DEF EntryType
<1>3. QED
  BY <1>1, <1>2

LEMMA ElementsAreEntries ==
  ASSUME NEW s \in Seq(EntryType)
  PROVE  Elements(s) \subseteq EntryType /\ \A e \in Elements(s) : e.sequence \in Nat
<1>1. \A n \in DOMAIN s : s[n] \in EntryType
  OBVIOUS
<1>2. QED
  BY <1>1 DEF Elements, EntryType

\* The journal a has what entries up to the number sequence had, and more after it.
Continues(entries, sequence, a) ==
  /\ a.entries \in Seq(EntryType) /\ a.stamp \in Nat
  /\ a.sequence \in Nat /\ sequence <= a.sequence
  /\ \A e \in Elements(a.entries) : e \in Elements(entries) \/ e.sequence > sequence
  /\ Ordered(entries) /\ UpTo(Elements(entries), sequence)
       => Ordered(a.entries) /\ UpTo(Elements(a.entries), a.sequence)

\* What append adds has numbers of its own, in order.
LEMMA AppendedContinues ==
  ASSUME NEW entries \in Seq(EntryType), NEW sequence \in Nat, NEW stamp \in Nat, NEW count \in Nat
  PROVE  Continues(entries, sequence,
           Appended([sequence |-> sequence, stamp |-> stamp, entries |-> entries], count))
<1> DEFINE new == [n \in 1..count |-> [sequence |-> sequence + n, stamp |-> stamp + n]]
           all == entries \o new
           a   == Appended([sequence |-> sequence, stamp |-> stamp, entries |-> entries], count)
<1>1. new \in Seq(EntryType) /\ Len(new) = count
  BY DEF EntryType
<1>2. /\ all \in Seq(EntryType) /\ Len(all) = Len(entries) + count /\ Len(entries) \in Nat
      /\ \A n \in 1..Len(entries) : all[n] = entries[n]
      /\ \A n \in (Len(entries) + 1)..Len(all) : all[n] = new[n - Len(entries)]
  <2> HIDE DEF new
  <2>1. QED
    BY <1>1
<1>3. \A n \in (Len(entries) + 1)..Len(all) : all[n].sequence = sequence + (n - Len(entries))
  BY <1>1, <1>2
<1>4. a = [sequence |-> sequence + count, stamp |-> stamp + count, entries |-> Newest(all)]
  BY DEF Appended
<1> HIDE DEF new, all
<1>5. PICK k \in Nat : /\ Newest(all) \in Seq(EntryType) /\ Len(all) = Len(Newest(all)) + k
                       /\ \A n \in DOMAIN Newest(all) : Newest(all)[n] = all[n + k]
  BY <1>2, NewestIsSuffix
<1>6. \A n \in DOMAIN Newest(all) : n \in Nat /\ n + k \in 1..Len(all)
  BY <1>2, <1>5
<1>7. \A e \in Elements(a.entries) : e \in Elements(entries) \/ e.sequence > sequence
  <2> SUFFICES ASSUME NEW n \in DOMAIN Newest(all)
               PROVE  all[n + k] \in Elements(entries) \/ all[n + k].sequence > sequence
    BY <1>4, <1>5 DEF Elements
  <2>1. CASE n + k <= Len(entries)
    BY <1>2, <1>6, <2>1 DEF Elements
  <2>2. CASE n + k > Len(entries)
    BY <1>2, <1>3, <1>6, <2>2
  <2>3. QED
    BY <1>2, <1>6, <2>1, <2>2
<1>8. ASSUME Ordered(entries), UpTo(Elements(entries), sequence)
      PROVE  Ordered(a.entries) /\ UpTo(Elements(a.entries), a.sequence)
  <2>1. \A n \in 1..Len(entries) : all[n] \in EntryType /\ all[n].sequence <= sequence
    BY <1>2, <1>8 DEF UpTo, Elements
  <2>2. \A m, n \in 1..Len(all) : m < n => all[m].sequence < all[n].sequence
    <3> SUFFICES ASSUME NEW m \in 1..Len(all), NEW n \in 1..Len(all), m < n
                 PROVE  all[m].sequence < all[n].sequence
      OBVIOUS
    <3>1. CASE n <= Len(entries)
      <4>1. m \in DOMAIN entries /\ n \in DOMAIN entries /\ all[m] = entries[m] /\ all[n] = entries[n]
        BY <1>2, <3>1
      <4>2. QED
        BY <1>8, <4>1 DEF Ordered
    <3>2. CASE n > Len(entries) /\ m <= Len(entries)
      <4>1. all[n].sequence = sequence + (n - Len(entries)) /\ all[m].sequence <= sequence
        BY <1>2, <1>3, <2>1, <3>2
      <4>2. all[m].sequence \in Nat
        BY <1>2, <2>1, <3>2 DEF EntryType
      <4>3. QED
        BY <1>2, <3>2, <4>1, <4>2
    <3>3. CASE m > Len(entries)
      BY <1>2, <1>3, <3>3
    <3>4. QED
      BY <1>2, <3>1, <3>2, <3>3
  <2>3. \A n \in 1..Len(all) : all[n].sequence <= sequence + count
    <3> SUFFICES ASSUME NEW n \in 1..Len(all)
                 PROVE  all[n].sequence <= sequence + count
      OBVIOUS
    <3>1. CASE n <= Len(entries)
      <4>1. all[n] \in EntryType /\ all[n].sequence <= sequence
        BY <1>2, <2>1, <3>1
      <4>2. QED
        BY <4>1 DEF EntryType
    <3>2. CASE n > Len(entries)
      BY <1>2, <1>3, <3>2
    <3>3. QED
      BY <1>2, <3>1, <3>2
  <2>4. Ordered(Newest(all))
    BY <1>5, <1>6, <2>2 DEF Ordered
  <2>5. UpTo(Elements(Newest(all)), sequence + count)
    BY <1>5, <1>6, <2>3 DEF UpTo, Elements
  <2>6. QED
    BY <1>4, <2>4, <2>5
<1>9. sequence + count \in Nat /\ sequence <= sequence + count /\ stamp + count \in Nat
  OBVIOUS
<1> HIDE DEF a
<1>10. Continues(entries, sequence, a)
  BY <1>4, <1>5, <1>7, <1>8, <1>9 DEF Continues
<1>11. QED
  BY <1>10 DEF a

LEMMA RecordingKeepsNumbers ==
  ASSUME NInv, NEW count \in Nat, journal' = Appended(journal, count),
         UNCHANGED <<reader, capture, file, rewound, restarts>>
  PROVE  NInv'
<1> DEFINE old == Elements(journal.entries)
           new == Elements(journal'.entries)
<1>1. Continues(journal.entries, journal.sequence, journal')
  <2>1. journal' = Appended([sequence |-> journal.sequence, stamp |-> journal.stamp,
                             entries |-> journal.entries], count)
    BY DEF Appended
  <2>2. /\ journal.entries \in Seq(EntryType)
        /\ journal.sequence \in Nat /\ journal.stamp \in Nat
    BY DEF NInv, NumberTypes
  <2>3. QED
    BY <2>1, <2>2, AppendedContinues
<1>2. /\ journal'.entries \in Seq(EntryType) /\ journal'.stamp \in Nat
      /\ journal.sequence \in Nat /\ reader.after \in Nat /\ journal'.sequence \in Nat
      /\ journal.sequence <= journal'.sequence
      /\ \A e \in new : e \in old \/ e.sequence > journal.sequence
  BY <1>1 DEF NInv, NumberTypes, Continues
<1>3. NumberTypes'
  BY <1>2 DEF NInv, NumberTypes
<1>4. ASSUME NumbersAgree
      PROVE  NumbersAgree'
  <2> DEFINE InFile == Elements(file.entries)
  <2>1. reader.after <= journal.sequence /\ UpTo(reader.seen, reader.after)
        /\ \A e \in reader.seen : e.sequence \in Nat
    BY <1>4 DEF NumbersAgree, NInv, NumberTypes, EntryType
  <2>2. \A e \in new : e.sequence \in Nat
    BY <1>2, ElementsAreEntries
  <2>3. \A e \in reader.seen : e.sequence <= journal.sequence
    BY <1>2, <2>1 DEF UpTo
  <2>4. Agree(new, reader.seen)
    BY <1>2, <1>4, <2>2, <2>3 DEF NumbersAgree, Agree
  <2>5. ASSUME file.written
        PROVE  UpTo(InFile, journal'.sequence) /\ Agree(InFile, new)
    <3>1. \A e \in InFile : e.sequence \in Nat /\ e.sequence <= journal.sequence
      BY <1>4, <2>5, ElementsAreEntries DEF NumbersAgree, UpTo, NInv, NumberTypes
    <3>2. Agree(InFile, old)
      BY <1>4, <2>5 DEF NumbersAgree
    <3>3. UpTo(InFile, journal'.sequence)
      BY <1>2, <3>1 DEF UpTo
    <3>4. Agree(InFile, new)
      BY <1>2, <2>2, <3>1, <3>2 DEF Agree
    <3>5. QED
      BY <3>3, <3>4
  <2>6. restarts = 0 => \A e \in new : e.sequence <= reader.after => e \in reader.seen
    BY <1>2, <1>4, <2>1, <2>2 DEF NumbersAgree
  <2>7. Ordered(journal'.entries) /\ UpTo(new, journal'.sequence) /\ reader.after <= journal'.sequence
    BY <1>1, <1>2, <1>4, <2>1 DEF NumbersAgree, Continues
  <2> HIDE DEF old, new, InFile
  <2>8. QED
    BY <1>4, <2>1, <2>4, <2>5, <2>6, <2>7 DEF NumbersAgree, new, InFile
<1>5. QED
  BY <1>3, <1>4 DEF NInv

\* Among the entries that follow, a page that ends at one holds all before it.
LEMMA PagesAreComplete ==
  ASSUME NEW later, NEW length \in Nat, later \subseteq 1..length,
         NEW last \in later, NEW n \in later, n <= last,
         Cardinality({m \in later : m <= last}) <= Page
  PROVE  Cardinality({m \in later : m <= n}) <= Page
<1> DEFINE S(i) == {m \in later : m <= i}
<1>1. \A i : IsFiniteSet(S(i)) /\ Cardinality(S(i)) \in Nat
  <2> SUFFICES ASSUME NEW i
               PROVE  IsFiniteSet(S(i)) /\ Cardinality(S(i)) \in Nat
    OBVIOUS
  <2>1. IsFiniteSet(1..length)
    BY FS_Interval
  <2>2. S(i) \subseteq 1..length
    OBVIOUS
  <2>3. QED
    BY <2>1, <2>2, FS_Subset, FS_CardinalityType
<1>2. S(n) \subseteq S(last)
  <2>1. \A m \in later : m \in Nat
    OBVIOUS
  <2>2. \A m \in later : m <= n => m <= last
    BY <2>1
  <2>3. QED
    BY <2>2
<1>3. Cardinality(S(n)) <= Cardinality(S(last))
  BY <1>1, <1>2, FS_Subset
<1>4. Page \in Nat
  BY JournalAssumption
<1>5. QED
  BY <1>1, <1>3, <1>4

LEMMA ReadKeepsNumbers == NInv /\ Read => NInv'
<1> SUFFICES ASSUME NInv, Read
             PROVE  NInv'
  OBVIOUS
<1> DEFINE entries == journal.entries
           later == {n \in DOMAIN entries : entries[n].sequence > reader.after}
           page == {n \in later : Cardinality({m \in later : m <= n}) <= Page}
           more == {entries[n] : n \in page}
<1>1. UNCHANGED <<journal, capture, file, rewound, restarts>>
  BY DEF Read
<1>2. PICK last \in page :
        /\ \A n \in page : n <= last
        /\ reader' = [after |-> entries[last].sequence, seen |-> reader.seen \cup more]
  BY DEF Read
<1>3. /\ entries \in Seq(EntryType) /\ Len(entries) \in Nat /\ DOMAIN entries = 1..Len(entries)
      /\ \A n \in DOMAIN entries : entries[n] \in EntryType /\ entries[n].sequence \in Nat
      /\ reader.after \in Nat /\ journal.sequence \in Nat
  <2>1. entries \in Seq(EntryType) /\ reader.after \in Nat /\ journal.sequence \in Nat
    BY DEF NInv, NumberTypes
  <2>2. QED
    BY <2>1, EntriesAreTyped
<1>4. /\ last \in DOMAIN entries /\ entries[last].sequence > reader.after
      /\ \A n \in page : n \in DOMAIN entries
      /\ more \subseteq Elements(entries)
  BY <1>2 DEF Elements
<1>5. reader'.after = entries[last].sequence /\ reader'.seen = reader.seen \cup more
  BY <1>2
<1>6. NumberTypes'
  <2>1. reader'.after \in Nat /\ reader'.seen \subseteq EntryType
    BY <1>3, <1>4, <1>5 DEF NInv, NumberTypes
  <2>2. QED
    BY <1>1, <2>1 DEF NInv, NumberTypes
<1>7. ASSUME NumbersAgree
      PROVE  NumbersAgree'
  <2>1. \A m, n \in DOMAIN entries : m < n => entries[m].sequence < entries[n].sequence
    BY <1>7 DEF NumbersAgree, Ordered
  <2>2. \A m, n \in DOMAIN entries : entries[m].sequence <= entries[n].sequence => m <= n
    BY <1>3, <2>1
  <2>3. \A m, n \in DOMAIN entries : m <= n => entries[m].sequence <= entries[n].sequence
    BY <1>3, <2>1
  <2>4. reader'.after <= journal.sequence
    BY <1>4, <1>5, <1>7 DEF NumbersAgree, UpTo, Elements
  <2>5. UpTo(reader'.seen, reader'.after)
    <3>1. \A e \in reader.seen : e.sequence \in Nat /\ e.sequence <= reader.after
      BY <1>7 DEF NInv, NumberTypes, EntryType, NumbersAgree, UpTo
    <3>2. \A e \in reader.seen : e.sequence <= entries[last].sequence
      BY <1>3, <1>4, <3>1
    <3>3. \A n \in page : entries[n].sequence <= entries[last].sequence
      BY <1>2, <1>4, <2>3
    <3>4. QED
      BY <1>5, <3>2, <3>3 DEF UpTo
  <2>6. Agree(Elements(entries), Elements(entries))
    <3> SUFFICES ASSUME NEW m \in DOMAIN entries, NEW n \in DOMAIN entries,
                        entries[m].sequence = entries[n].sequence
                 PROVE  entries[m] = entries[n]
      BY DEF Agree, Elements
    <3>1. m <= n /\ n <= m
      BY <1>3, <2>2
    <3>2. m = n
      BY <1>3, <3>1
    <3>3. QED
      BY <3>2
  <2>7. Agree(Elements(entries), reader'.seen)
    BY <1>4, <1>5, <1>7, <2>6 DEF NumbersAgree, Agree
  <2>8. file.written => Agree(Elements(file.entries), reader'.seen)
    BY <1>4, <1>5, <1>7 DEF NumbersAgree, Agree
  <2>9. ASSUME restarts = 0, NEW n \in DOMAIN entries, entries[n].sequence <= reader'.after
        PROVE  entries[n] \in reader'.seen
    <3>1. CASE entries[n].sequence <= reader.after
      BY <1>5, <1>7, <2>9, <3>1 DEF NumbersAgree, Elements
    <3>2. CASE n \in later
      <4>1. n <= last
        BY <1>4, <1>5, <2>2, <2>9
      <4>2. Cardinality({m \in later : m <= last}) <= Page /\ last \in later
        OBVIOUS
      <4>3. later \subseteq 1..Len(entries)
        BY <1>3
      <4>4. Cardinality({m \in later : m <= n}) <= Page
        <5> HIDE DEF later
        <5>1. QED
          BY <1>3, <3>2, <4>1, <4>2, <4>3, PagesAreComplete
      <4>5. QED
        BY <1>5, <3>2, <4>4
    <3>3. QED
      BY <1>3, <2>9, <3>1, <3>2
  <2>10. restarts = 0 =>
           \A e \in Elements(entries) : e.sequence <= reader'.after => e \in reader'.seen
    BY <2>9 DEF Elements
  <2> HIDE DEF later, page, more
  <2>11. QED
    BY <1>1, <1>7, <2>4, <2>5, <2>7, <2>8, <2>10 DEF NumbersAgree
<1>8. QED
  BY <1>1, <1>6, <1>7 DEF NInv

LEMMA SnapshotKeepsNumbers == NInv /\ (Capture \/ Write) => NInv'
<1> SUFFICES ASSUME NInv, Capture \/ Write
             PROVE  NInv'
  OBVIOUS
<1>1. CASE Capture
  <2>1. NumberTypes'
    BY <1>1 DEF Capture, NInv, NumberTypes
  <2>2. NumbersAgree => NumbersAgree'
    BY <1>1 DEF Capture, NumbersAgree
  <2>3. QED
    BY <1>1, <2>1, <2>2 DEF Capture, NInv
<1>2. CASE Write
  <2>1. /\ UNCHANGED <<journal, reader, rewound, restarts>>
        /\ capture'.taken = FALSE /\ file'.entries = journal.entries
        /\ file'.sequence = capture.sequence /\ capture.taken
    BY <1>2 DEF Write, NoCapture
  <2>2. NumberTypes'
    BY <2>1 DEF NInv, NumberTypes
  <2>3. ASSUME NumbersAgree
        PROVE  NumbersAgree'
    <3>1. Agree(Elements(journal.entries), Elements(journal.entries))
      <4>1. /\ DOMAIN journal.entries = 1..Len(journal.entries) /\ Len(journal.entries) \in Nat
            /\ \A n \in DOMAIN journal.entries : journal.entries[n].sequence \in Nat
        BY EntriesAreTyped DEF NInv, NumberTypes
      <4> SUFFICES ASSUME NEW m \in DOMAIN journal.entries, NEW n \in DOMAIN journal.entries,
                          journal.entries[m].sequence = journal.entries[n].sequence
                   PROVE  journal.entries[m] = journal.entries[n]
        BY DEF Agree, Elements
      <4>2. ~(m < n) /\ ~(n < m)
        BY <2>3, <4>1 DEF NumbersAgree, Ordered
      <4>3. m = n
        BY <4>1, <4>2
      <4>4. QED
        BY <4>3
    <3>2. QED
      BY <2>1, <2>3, <3>1 DEF NumbersAgree
  <2>4. QED
    BY <2>1, <2>2, <2>3 DEF NInv
<1>3. QED
  BY <1>1, <1>2

\* What the file holds bears numbers up to the sequence that goes on, or numbers are taken back.
LEMMA RestartKeepsNumbers == NInv /\ Restart => NInv'
<1> SUFFICES ASSUME NInv, Restart
             PROVE  NInv'
  OBVIOUS
<1>1. /\ file.written /\ reader' = reader /\ restarts' = restarts + 1
      /\ capture'.taken = FALSE /\ file'.written = FALSE
      /\ rewound' = (rewound \/ reader.after > file.sequence
                             \/ LastNumber(file.entries) > file.sequence)
      /\ journal' = Appended([sequence |-> file.sequence, stamp |-> journal.stamp,
                              entries |-> file.entries], 1)
  BY DEF Restart, NoCapture, NoFile, RestoredSequence
<1>2. /\ file.entries \in Seq(EntryType) /\ file.sequence \in Nat /\ journal.stamp \in Nat
      /\ reader.after \in Nat /\ restarts \in Nat /\ 1 \in Nat
  BY <1>1 DEF NInv, NumberTypes
<1>3. Continues(file.entries, file.sequence, journal')
  BY <1>1, <1>2, AppendedContinues
<1>4. NumberTypes'
  BY <1>1, <1>2, <1>3 DEF Continues, NInv, NumberTypes
<1>5. ASSUME ~rewound'
      PROVE  NumbersAgree'
  <2>1. /\ NumbersAgree
        /\ ~(reader.after > file.sequence) /\ ~(LastNumber(file.entries) > file.sequence)
    BY <1>1, <1>5 DEF NInv
  <2>2. UpTo(Elements(file.entries), file.sequence)
    <3> DEFINE s == file.entries
    <3>1. /\ DOMAIN s = 1..Len(s) /\ Len(s) \in Nat
          /\ \A n \in DOMAIN s : s[n].sequence \in Nat
      BY <1>2, EntriesAreTyped
    <3> SUFFICES ASSUME NEW n \in DOMAIN s
                 PROVE  s[n].sequence <= file.sequence
      BY DEF UpTo, Elements
    <3>2. s # <<>> /\ Len(s) \in DOMAIN s /\ n <= Len(s)
      BY <3>1
    <3>3. ~(s[Len(s)].sequence > file.sequence)
      BY <2>1, <3>2 DEF LastNumber
    <3>4. n < Len(s) => s[n].sequence < s[Len(s)].sequence
      BY <1>1, <2>1, <3>2 DEF NumbersAgree, Ordered
    <3> HIDE DEF s
    <3>5. QED
      BY <1>2, <3>1, <3>2, <3>3, <3>4
  <2>3. /\ Ordered(journal'.entries) /\ UpTo(Elements(journal'.entries), journal'.sequence)
        /\ \A e \in Elements(journal'.entries) :
             e \in Elements(file.entries) \/ e.sequence > file.sequence
        /\ journal'.sequence \in Nat /\ file.sequence <= journal'.sequence
    BY <1>1, <1>3, <2>1, <2>2 DEF NumbersAgree, Continues
  <2>4. reader.after <= journal'.sequence
    BY <1>2, <2>1, <2>3
  <2>5. Agree(Elements(journal'.entries), reader.seen)
    <3>1. \A e \in reader.seen : e.sequence \in Nat /\ e.sequence <= file.sequence
      BY <1>2, <2>1 DEF NumbersAgree, UpTo, NInv, NumberTypes, EntryType
    <3>2. Agree(Elements(file.entries), reader.seen)
      BY <1>1, <2>1 DEF NumbersAgree
    <3>3. QED
      BY <1>2, <2>3, <3>1, <3>2 DEF Agree
  <2>6. restarts' # 0 /\ UpTo(reader.seen, reader.after)
    BY <1>1, <1>2, <2>1 DEF NumbersAgree
  <2>7. QED
    BY <1>1, <2>3, <2>4, <2>5, <2>6 DEF NumbersAgree
<1>6. QED
  BY <1>4, <1>5 DEF NInv

LEMMA NInvInit == JournalInit => NInv
<1> SUFFICES ASSUME JournalInit
             PROVE  NInv
  OBVIOUS
<1>1. /\ journal.entries = <<>> /\ journal.sequence = 0 /\ journal.stamp = 0
      /\ reader.after = 0 /\ reader.seen = {} /\ restarts = 0
      /\ capture.taken = FALSE /\ file.written = FALSE
  BY DEF JournalInit, NoCapture, NoFile
<1>2. <<>> \in Seq(EntryType) /\ DOMAIN <<>> = {}
  OBVIOUS
<1>3. Elements(journal.entries) = {}
  BY <1>1, <1>2 DEF Elements
<1>4. NumberTypes
  BY <1>1, <1>2 DEF NumberTypes
<1>5. NumbersAgree
  BY <1>1, <1>2, <1>3 DEF NumbersAgree, Ordered, UpTo, Agree
<1>6. QED
  BY <1>4, <1>5 DEF NInv

LEMMA NInvNext == NInv /\ [JournalNext]_journalVars => NInv'
<1> SUFFICES ASSUME NInv, [JournalNext]_journalVars
             PROVE  NInv'
  OBVIOUS
<1> DEFINE Quiet == UNCHANGED <<journal, reader, capture, file, rewound, restarts>>
<1>1. ASSUME NEW id, NEW request, NEW count \in Nat, Once(id, request, count)
      PROVE  NInv'
  BY <1>1, RecordingKeepsNumbers DEF Once
<1>2. ASSUME NEW id, NEW r \in Results, Complete(id, r)
      PROVE  NInv'
  BY <1>1, <1>2 DEF Complete
<1>3. ASSUME NEW id, NEW r \in Releases, Release(id, r)
      PROVE  NInv'
  BY <1>1, <1>3 DEF Release
<1>4. ASSUME NEW id, NEW r \in Switches, Switch(id, r)
      PROVE  NInv'
  BY <1>1, <1>4 DEF Switch
<1>5. CASE Quiet
  BY <1>5 DEF NInv, NumberTypes, NumbersAgree
<1>6. CASE \E k \in Keys : CloseByRepair(k)
  BY <1>5, <1>6 DEF CloseByRepair
<1>7. CASE UNCHANGED journalVars
  BY <1>5, <1>7 DEF journalVars
<1>8. QED
  BY <1>2, <1>3, <1>4, <1>6, <1>7, ReadKeepsNumbers, SnapshotKeepsNumbers, RestartKeepsNumbers
  DEF JournalNext

----------------------------------------------------------------------------
(* The theorems of the journal. *)

\* A call that is sent again under its key, late or after a crash, does nothing again, as far
\* as the first one has survived.
THEOREM CallsTakeEffectAtMostOnce == JournalSpec => []CallsTakeEffectOnce
<1>1. JInv => CallsTakeEffectOnce
  BY DEF JInv, UsedOnce, CallsTakeEffectOnce
<1>2. QED
  BY <1>1, JournalInductive, PTL

\* The repair budget holds when the decisions arrive as results of calls, and the histories
\* come back from a snapshot that was written later than it was captured.
THEOREM JournalledRetriesAreBounded == JournalSpec => []RetryBudget
<1>1. JInv => RetryBudget
  BY DEF JInv, RInv, Consistent, WithinBudget, RetryBudget
<1>2. QED
  BY <1>1, JournalInductive, PTL

\* So does the limit on identical failures in a row.
THEOREM JournalledFailuresTrip == JournalSpec => []IdenticalFailuresTrip
<1>1. JInv => IdenticalFailuresTrip
  BY DEF JInv, RInv, Consistent, NoIdenticalRun, IdenticalFailuresTrip
<1>2. QED
  BY <1>1, JournalInductive, PTL

\* A reader that pages through the events misses none that the journal holds, and no number
\* stands for two entries, as long as no restart takes numbers back.
THEOREM ReadersMissOnlyWhatWasDropped == JournalSpec => []ReadersMissNothing
<1>1. NInv => ReadersMissNothing
  <2> SUFFICES ASSUME NInv, ~rewound
               PROVE  ReadersMissNothing
    BY DEF ReadersMissNothing
  <2>1. NumbersAgree /\ restarts \in Nat
    BY DEF NInv, NumberTypes
  <2>2. \A n \in DOMAIN journal.entries : journal.entries[n] \in Elements(journal.entries)
    BY DEF Elements
  <2>3. \A m, n \in DOMAIN journal.entries :
          m < n => journal.entries[m].sequence < journal.entries[n].sequence
    BY <2>1 DEF NumbersAgree, Ordered
  <2>4. ASSUME NEW e \in Elements(journal.entries), e.sequence <= reader.after,
               e \notin reader.seen
        PROVE  restarts > 0 /\ \A f \in reader.seen : f.sequence # e.sequence
    <3>1. restarts # 0
      BY <2>1, <2>4 DEF NumbersAgree
    <3>2. \A f \in reader.seen : f.sequence # e.sequence
      BY <2>1, <2>4 DEF NumbersAgree, Agree
    <3>3. QED
      BY <2>1, <3>1, <3>2
  <2>5. QED
    BY <2>2, <2>3, <2>4 DEF ReadersMissNothing
<1>2. JournalSpec => []NInv
  BY NInvInit, NInvNext, PTL DEF JournalSpec
<1>3. QED
  BY <1>1, <1>2, PTL
=============================================================================
