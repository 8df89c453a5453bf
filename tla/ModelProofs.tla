----------------------------- MODULE ModelProofs -----------------------------
(***************************************************************************)
(* Learned policies earn their authority and decisions on them are final,  *)
(* for every threshold, tolerance, set of metrics and length of the log;   *)
(* the slots and circuits of ModelPool, for every pool and any limits.     *)
(***************************************************************************)
EXTENDS LearnedPolicy, ModelPool, FiniteSetTheorems, SequenceTheorems, TLAPS

----------------------------------------------------------------------------
(* The inductive invariant. *)

Entry == [accepted: BOOLEAN, outcome: {"pass", "fail"}]

Score == [count: Int, successes: Nat, hallucinations: Nat]

GateRecord == [verdict: {"NONE", "PROMOTE", "REJECT"}, incumbent: Score, candidate: Score]

Version == [stage: Stages, gate: GateRecord, worse: SUBSET Metrics,
            approvedBy: Approvers \cup {Nobody}]

Beats(g) ==
  /\ g.incumbent.count >= MinShadow /\ g.candidate.count >= MinBenchmark
  /\ g.candidate.successes * g.incumbent.count > g.incumbent.successes * g.candidate.count

\* What a stage beyond the gate has behind it.
EarnsItsStage(x) ==
  /\ x.stage \in {"CANARY", "PROMOTION_GATE", "PRODUCTION", "RETIRED"} => Beats(x.gate)
  /\ x.stage \in {"PROMOTION_GATE", "PRODUCTION", "RETIRED"} => x.worse = {}
  /\ x.stage \in {"PRODUCTION", "RETIRED"} => x.approvedBy # Nobody

SoundVersions(vs, b) ==
  /\ vs \in Seq(Version)
  /\ \A v \in DOMAIN vs : EarnsItsStage(vs[v])
  /\ \A v, w \in DOMAIN vs : vs[v].stage \in InFlight /\ vs[w].stage \in InFlight => v = w
  /\ \A v, w \in DOMAIN vs : vs[v].stage = "PRODUCTION" /\ vs[w].stage = "PRODUCTION" => v = w
  /\ \A v \in DOMAIN vs : vs[v].stage = "SHADOW" => b.version = v /\ b.length >= MinShadow

LInv ==
  /\ log \in Seq(Entry) /\ torn \in BOOLEAN
  /\ baseline \in [version: Nat, length: Nat] /\ baseline.length <= Len(log)
  /\ SoundVersions(versions, baseline)

----------------------------------------------------------------------------
(* Sequences of versions. *)

LEMMA ReplacedVersion ==
  ASSUME NEW vs \in Seq(Version), NEW v \in DOMAIN vs, NEW x \in Version
  PROVE  /\ [vs EXCEPT ![v] = x] \in Seq(Version)
         /\ Len([vs EXCEPT ![v] = x]) = Len(vs)
         /\ DOMAIN [vs EXCEPT ![v] = x] = DOMAIN vs
         /\ \A w \in DOMAIN vs : [vs EXCEPT ![v] = x][w] = IF w = v THEN x ELSE vs[w]
<1>1. DOMAIN vs = 1..Len(vs)
  BY LenProperties
<1>2. QED
  BY <1>1, ExceptSeq, LenProperties

\* One version moves: it must not enter the stages that only one may be in.
LEMMA MovedVersionIsSound ==
  ASSUME NEW vs, NEW b, SoundVersions(vs, b), NEW v \in DOMAIN vs, NEW x \in Version,
         EarnsItsStage(x),
         x.stage \in InFlight => vs[v].stage \in InFlight,
         x.stage # "PRODUCTION",
         NEW b2, x.stage = "SHADOW" => b2.version = v /\ b2.length >= MinShadow,
         b2 = b \/ x.stage \in InFlight \/ vs[v].stage \in InFlight
  PROVE  SoundVersions([vs EXCEPT ![v] = x], b2)
<1> DEFINE ws == [vs EXCEPT ![v] = x]
<1>1. /\ ws \in Seq(Version) /\ DOMAIN ws = DOMAIN vs
      /\ \A w \in DOMAIN vs : ws[w] = IF w = v THEN x ELSE vs[w]
  BY ReplacedVersion DEF SoundVersions
<1> HIDE DEF ws
<1>2. \A w \in DOMAIN ws : EarnsItsStage(ws[w])
  BY <1>1 DEF SoundVersions
<1>3. \A u, w \in DOMAIN ws : ws[u].stage \in InFlight /\ ws[w].stage \in InFlight => u = w
  BY <1>1 DEF SoundVersions
<1>4. \A u, w \in DOMAIN ws : ws[u].stage = "PRODUCTION" /\ ws[w].stage = "PRODUCTION" => u = w
  BY <1>1 DEF SoundVersions
<1>5. ASSUME NEW w \in DOMAIN ws, ws[w].stage = "SHADOW"
      PROVE  b2.version = w /\ b2.length >= MinShadow
  <2>1. CASE w = v
    BY <1>1, <1>5, <2>1
  <2>2. CASE w # v
    <3>1. vs[w].stage = "SHADOW" /\ b.version = w /\ b.length >= MinShadow
      BY <1>1, <1>5, <2>2 DEF SoundVersions
    <3>2. vs[v].stage \notin InFlight
      BY <1>1, <2>2, <3>1 DEF SoundVersions, InFlight
    <3>3. QED
      BY <3>1, <3>2
  <2>3. QED
    BY <2>1, <2>2
<1>6. QED
  BY <1>1, <1>2, <1>3, <1>4, <1>5 DEF SoundVersions, ws

----------------------------------------------------------------------------
(* The gate. *)

LEMMA ScoresType ==
  ASSUME NEW from \in Int, NEW to \in Int
  PROVE  Scores(from, to) \in Score /\ Scores(from, to).count = to - from + 1
<1>1. IsFiniteSet(from..to)
  BY FS_Interval
<1>2. \A S \in SUBSET (from..to) : Cardinality(S) \in Nat
  BY <1>1, FS_Subset, FS_CardinalityType
<1>3. /\ Cardinality({i \in from..to : log[i].accepted}) \in Nat
      /\ Cardinality({i \in from..to : Hallucinated(log[i])}) \in Nat
  BY <1>2
<1>4. QED
  BY <1>3 DEF Scores, Score

LEMMA GateType ==
  ASSUME NEW i \in Score, NEW c \in Score
  PROVE  /\ Gate(i, c) \in GateRecord
         /\ Gate(i, c).incumbent = i /\ Gate(i, c).candidate = c
         /\ Gate(i, c).verdict = "PROMOTE" => c.successes * i.count > i.successes * c.count
BY DEF Gate, GateRecord, Improves

----------------------------------------------------------------------------
(* The steps. *)

LEMMA LearningInitInv == LearningInit => LInv
<1> SUFFICES ASSUME LearningInit PROVE LInv
  OBVIOUS
<1>1. <<>> \in Seq(Entry) /\ <<>> \in Seq(Version) /\ Len(<<>>) = 0 /\ DOMAIN <<>> = {}
  BY EmptySeq
<1>2. SoundVersions(<<>>, NoBaseline)
  BY <1>1 DEF SoundVersions
<1>3. NoBaseline \in [version: Nat, length: Nat] /\ NoBaseline.length = 0
  BY DEF NoBaseline
<1>4. log = <<>> /\ torn = FALSE /\ versions = <<>> /\ baseline = NoBaseline
  BY DEF LearningInit
<1>5. SoundVersions(versions, baseline) /\ log \in Seq(Entry) /\ Len(log) = 0
  BY <1>1, <1>2, <1>4, Zenon
<1>6. baseline \in [version: Nat, length: Nat] /\ baseline.length = 0
  BY <1>3, <1>4, Zenon
<1>7. torn \in BOOLEAN
  BY <1>4
<1>8. baseline.length <= Len(log)
  BY <1>5, <1>6
<1>9. QED
  BY <1>5, <1>6, <1>7, <1>8 DEF LInv

LEMMA RecordKeeps ==
  ASSUME LInv, Record
  PROVE  LInv'
<1>1. PICK r \in Completed : log' = log \o Built(r)
  BY DEF Record
<1>2. r.accepted \in BOOLEAN /\ r.outcome \in {"pass", "fail"}
  <2>1. \A verdict : RecordedOutcome(verdict) \in {"pass", "fail"}
    BY DEF RecordedOutcome
  <2>2. PICK a \in BOOLEAN, o \in {"pass", "fail"}, n \in BOOLEAN :
          r = [accepted |-> a, outcome |-> o, named |-> n]
    BY <2>1 DEF Completed
  <2>3. QED
    BY <2>2
<1>3. Built(r) \in Seq(Entry)
  <2>1. [accepted |-> r.accepted, outcome |-> r.outcome] \in Entry
    BY <1>2 DEF Entry
  <2>2. QED
    BY <2>1, EmptySeq DEF Built
<1>4. log' \in Seq(Entry) /\ Len(log') = Len(log) + Len(Built(r)) /\ Len(Built(r)) \in Nat
      /\ Len(log) \in Nat
  BY <1>1, <1>3, ConcatProperties, LenProperties DEF LInv
<1>5. QED
  BY <1>4 DEF Record, LInv

\* The candidate the cycle works on: at most one version is in flight, so it is that one.
LEMMA FirstInFlightIsTheOne ==
  ASSUME NEW vs, NEW b, SoundVersions(vs, b)
  PROVE  \/ FirstInFlight(vs) = 0 /\ \A v \in DOMAIN vs : vs[v].stage \notin InFlight
         \/ /\ FirstInFlight(vs) \in DOMAIN vs /\ FirstInFlight(vs) # 0
            /\ vs[FirstInFlight(vs)].stage \in InFlight
<1> DEFINE open == {v \in DOMAIN vs : vs[v].stage \in InFlight}
<1>1. DOMAIN vs = 1..Len(vs) /\ Len(vs) \in Nat
  BY LenProperties DEF SoundVersions
<1>2. CASE open = {}
  BY <1>2 DEF FirstInFlight
<1>3. CASE open # {}
  <2>1. PICK v \in open : TRUE
    BY <1>3
  <2>2. \A w \in open : v <= w
    BY <1>1 DEF SoundVersions
  <2>3. \E u \in open : \A w \in open : u <= w
    BY <2>2
  <2>4. FirstInFlight(vs) \in open
    BY <1>3, <2>3 DEF FirstInFlight
  <2>5. QED
    BY <1>1, <2>4
<1>4. QED
  BY <1>2, <1>3

LEMMA WithCandidateIsSound ==
  ASSUME LInv
  PROVE  /\ SoundVersions(WithCandidate, baseline)
         /\ WithCandidate = versions \/ Len(WithCandidate) = Len(versions) + 1
         /\ DOMAIN versions \subseteq DOMAIN WithCandidate
         /\ \A v \in DOMAIN versions : WithCandidate[v] = versions[v]
         /\ WithCandidate # versions => \A v \in DOMAIN versions : versions[v].stage \notin InFlight
<1>1. SoundVersions(versions, baseline) /\ versions \in Seq(Version)
      /\ DOMAIN versions = 1..Len(versions) /\ Len(versions) \in Nat
  BY LenProperties DEF LInv, SoundVersions
<1>2. CASE WithCandidate = versions
  BY <1>1, <1>2
<1>3. CASE WithCandidate # versions
  <2>1. FirstInFlight(versions) = 0 /\ WithCandidate = Append(versions, Candidate)
    BY <1>3 DEF WithCandidate
  <2>2. \A v \in DOMAIN versions : versions[v].stage \notin InFlight
    BY <1>1, <2>1, FirstInFlightIsTheOne
  <2>3. Candidate \in Version /\ Candidate.stage = "OFFLINE_REPLAY"
    BY DEF Candidate, Version, Stages, NotGated, NoScores, GateRecord, Score
  <2>4. /\ WithCandidate \in Seq(Version) /\ Len(WithCandidate) = Len(versions) + 1
        /\ DOMAIN WithCandidate = 1..(Len(versions) + 1)
        /\ \A v \in DOMAIN versions : WithCandidate[v] = versions[v]
        /\ WithCandidate[Len(versions) + 1] = Candidate
    BY <1>1, <2>1, <2>3
  <2>5. \A v \in DOMAIN WithCandidate : v \in DOMAIN versions \/ v = Len(versions) + 1
    BY <1>1, <2>4
  <2>6. EarnsItsStage(Candidate)
    BY <2>3 DEF EarnsItsStage
  <2>7. SoundVersions(WithCandidate, baseline)
    BY <1>1, <2>2, <2>3, <2>4, <2>5, <2>6 DEF SoundVersions
  <2>8. QED
    BY <1>1, <2>2, <2>4, <2>7
<1>4. QED
  BY <1>2, <1>3

\* A version that starts to shadow has seen enough records, and the baseline is its own.
LEMMA SplitIsOwn ==
  ASSUME LInv, SoundVersions(WithCandidate, baseline),
         NEW v \in DOMAIN WithCandidate, NEW starts \in BOOLEAN,
         starts => Len(log) >= MinShadow,
         starts \/ Shadows(WithCandidate, v)
  PROVE  /\ Split(v, starts) \in [version: Nat, length: Nat]
         /\ Split(v, starts).version = v
         /\ Split(v, starts).length <= Len(log) /\ Split(v, starts).length >= MinShadow
<1>1. Len(log) \in Nat /\ baseline \in [version: Nat, length: Nat] /\ baseline.length <= Len(log)
  BY LenProperties DEF LInv
<1>2. v \in Nat
  BY LenProperties DEF SoundVersions
<1>3. CASE starts
  BY <1>1, <1>2, <1>3 DEF Split
<1>4. CASE ~ starts
  <2>1. baseline.version = v /\ baseline.length >= MinShadow
    BY <1>4 DEF Shadows, SoundVersions
  <2>2. QED
    BY <1>1, <1>4, <2>1 DEF Split
<1>5. QED
  BY <1>3, <1>4

LEMMA SyncKeeps ==
  ASSUME LInv, Sync
  PROVE  LInv'
<1> DEFINE vs == WithCandidate
           v == FirstInFlight(vs)
           starts == vs[v].stage = "OFFLINE_REPLAY" /\ Len(log) >= MinShadow
           split == Split(v, starts)
           gated == Len(log) - split.length >= MinBenchmark
           gate == Gate(Scores(1, split.length), Scores(split.length + 1, Len(log)))
           idle == v = 0 \/ ~ (starts \/ Shadows(vs, v))
<1>1. SoundVersions(vs, baseline)
  BY WithCandidateIsSound
<1>2. /\ log' = log /\ torn' = torn
      /\ IF idle THEN versions' = vs /\ baseline' = baseline
         ELSE /\ baseline' = split
              /\ versions' = IF ~ gated THEN [vs EXCEPT ![v].stage = "SHADOW"]
                             ELSE [vs EXCEPT ![v].gate = gate,
                                     ![v].stage = IF gate.verdict = "PROMOTE" THEN "CANARY"
                                                  ELSE "BENCHMARK"]
  BY DEF Sync, Synced
<1>3. CASE idle
  <2>1. versions' = vs /\ baseline' = baseline /\ log' = log /\ torn' = torn
    BY <1>2, <1>3
  <2>2. SoundVersions(versions', baseline')
    BY <1>1, <2>1, Zenon
  <2>3. QED
    BY <2>1, <2>2 DEF LInv
<1>4. CASE ~ idle
  <2>1. v \in DOMAIN vs /\ vs[v].stage \in InFlight
    BY <1>1, <1>4, FirstInFlightIsTheOne
  <2>2. vs \in Seq(Version) /\ vs[v] \in Version
    BY <1>1, <2>1, ElementOfSeq, LenProperties DEF SoundVersions
  <2>3. starts \in BOOLEAN /\ (starts => Len(log) >= MinShadow) /\ (starts \/ Shadows(vs, v))
    BY <1>4
  <2>4. /\ split \in [version: Nat, length: Nat] /\ split.version = v
        /\ split.length <= Len(log) /\ split.length >= MinShadow
    <3> HIDE DEF starts, v, vs
    <3>1. SoundVersions(WithCandidate, baseline) /\ v \in DOMAIN WithCandidate
          /\ (starts \/ Shadows(WithCandidate, v))
      BY <1>1, <2>1, <2>3 DEF vs
    <3>2. QED
      BY <2>3, <3>1, SplitIsOwn
  <2>5. Len(log) \in Nat
    BY LenProperties DEF LInv
  <2> DEFINE x == IF ~ gated THEN [vs[v] EXCEPT !.stage = "SHADOW"]
                  ELSE [vs[v] EXCEPT !.gate = gate,
                          !.stage = IF gate.verdict = "PROMOTE" THEN "CANARY" ELSE "BENCHMARK"]
  <2>6. /\ baseline' = split /\ log' = log /\ torn' = torn
        /\ versions' = [vs EXCEPT ![v] = x]
    <3>1. CASE gated
      BY <1>2, <1>4, <3>1, Zenon
    <3>2. CASE ~ gated
      BY <1>2, <1>4, <3>2, Zenon
    <3>3. QED
      BY <3>1, <3>2
  <2>7. /\ gate \in GateRecord
        /\ gated /\ gate.verdict = "PROMOTE" => Beats(gate)
    <3> HIDE DEF split, starts, v, vs
    <3>1. /\ Scores(1, split.length) \in Score
          /\ Scores(1, split.length).count = split.length
          /\ Scores(split.length + 1, Len(log)) \in Score
          /\ Scores(split.length + 1, Len(log)).count = Len(log) - split.length
      <4>1. split.length \in Int /\ Len(log) \in Int /\ split.length + 1 \in Int /\ 1 \in Int
        BY <2>4, <2>5
      <4>2. Scores(1, split.length) \in Score /\ Scores(1, split.length).count = split.length - 1 + 1
        BY <4>1, ScoresType
      <4>3. /\ Scores(split.length + 1, Len(log)) \in Score
            /\ Scores(split.length + 1, Len(log)).count = Len(log) - (split.length + 1) + 1
        BY <4>1, ScoresType
      <4>4. QED
        BY <4>1, <4>2, <4>3
    <3>2. /\ gate \in GateRecord
          /\ gate.incumbent = Scores(1, split.length)
          /\ gate.candidate = Scores(split.length + 1, Len(log))
          /\ gate.verdict = "PROMOTE"
               => Scores(split.length + 1, Len(log)).successes * Scores(1, split.length).count
                    > Scores(1, split.length).successes * Scores(split.length + 1, Len(log)).count
      BY <3>1, GateType, Zenon
    <3> HIDE DEF gate
    <3>3. QED
      BY <2>4, <3>1, <3>2 DEF Beats
  <2>8. x \in Version /\ x.stage \in {"SHADOW", "BENCHMARK", "CANARY"}
        /\ EarnsItsStage(x)
    <3> HIDE DEF gate, gated, v, vs
    <3>1. CASE gated
      BY <2>2, <2>7, <3>1 DEF Version, Stages, EarnsItsStage
    <3>2. CASE ~ gated
      BY <2>2, <3>2 DEF Version, Stages, EarnsItsStage
    <3>3. QED
      BY <3>1, <3>2
  <2> HIDE DEF x, split, gate, gated, idle, starts, v, vs
  <2>9. SoundVersions([vs EXCEPT ![v] = x], split)
    <3>1. x.stage # "PRODUCTION" /\ (x.stage = "SHADOW" => split.version = v /\ split.length >= MinShadow)
      BY <2>4, <2>8
    <3>2. QED
      BY <1>1, <2>1, <2>8, <3>1, MovedVersionIsSound
  <2>10. SoundVersions(versions', baseline')
    BY <2>6, <2>9, Zenon
  <2>11. baseline' \in [version: Nat, length: Nat] /\ baseline'.length <= Len(log')
    BY <2>4, <2>6
  <2>12. QED
    BY <2>6, <2>10, <2>11 DEF LInv
<1>5. QED
  BY <1>3, <1>4

LEMMA RecordCanaryResultKeeps ==
  ASSUME LInv, NEW v \in DOMAIN versions, RecordCanaryResult(v)
  PROVE  LInv'
<1>1. PICK worse \in SUBSET Metrics :
        versions' = [versions EXCEPT ![v].worse = worse,
                       ![v].stage = IF worse = {} THEN "PROMOTION_GATE" ELSE "ROLLED_BACK"]
  BY DEF RecordCanaryResult
<1> DEFINE x == [versions[v] EXCEPT !.worse = worse,
                   !.stage = IF worse = {} THEN "PROMOTION_GATE" ELSE "ROLLED_BACK"]
<1>2. versions' = [versions EXCEPT ![v] = x]
  BY <1>1, Zenon
<1>3. SoundVersions(versions, baseline)
  BY DEF LInv
<1>4. versions[v] \in Version /\ EarnsItsStage(versions[v]) /\ versions[v].stage = "CANARY"
  <2>1. versions[v].stage = "CANARY"
    BY DEF RecordCanaryResult
  <2>2. versions[v] \in Version /\ EarnsItsStage(versions[v])
    BY <1>3, ElementOfSeq, LenProperties DEF SoundVersions
  <2>3. QED
    BY <2>1, <2>2
<1>5. x \in Version /\ x.stage \in {"PROMOTION_GATE", "ROLLED_BACK"} /\ EarnsItsStage(x)
  BY <1>4 DEF Version, Stages, EarnsItsStage
<1> HIDE DEF x
<1>6. SoundVersions([versions EXCEPT ![v] = x], baseline)
  <2>1. x.stage \notin InFlight /\ x.stage # "PRODUCTION" /\ x.stage # "SHADOW"
    BY <1>5 DEF InFlight
  <2>2. QED
    BY <1>3, <1>5, <2>1, MovedVersionIsSound
<1>7. log' = log /\ torn' = torn /\ baseline' = baseline
  BY DEF RecordCanaryResult
<1>8. SoundVersions(versions', baseline')
  BY <1>2, <1>6, <1>7, Zenon
<1>9. QED
  BY <1>7, <1>8 DEF LInv

\* Retiring what is in production leaves nothing there.
LEMMA RetiredIsSound ==
  ASSUME NEW vs, NEW b, SoundVersions(vs, b)
  PROVE  /\ SoundVersions(Retired(vs), b)
         /\ DOMAIN Retired(vs) = DOMAIN vs
         /\ \A w \in DOMAIN vs : /\ Retired(vs)[w].stage # "PRODUCTION"
                                 /\ vs[w].stage # "PRODUCTION" => Retired(vs)[w] = vs[w]
<1> DEFINE rs == Retired(vs)
<1>1. vs \in Seq(Version) /\ DOMAIN vs = 1..Len(vs) /\ Len(vs) \in Nat
  BY LenProperties DEF SoundVersions
<1>2. ASSUME NEW w \in DOMAIN vs
      PROVE  /\ rs[w] = IF vs[w].stage = "PRODUCTION" THEN [vs[w] EXCEPT !.stage = "RETIRED"] ELSE vs[w]
             /\ rs[w] \in Version /\ EarnsItsStage(rs[w])
             /\ rs[w].stage = IF vs[w].stage = "PRODUCTION" THEN "RETIRED" ELSE vs[w].stage
  <2>1. rs[w] = IF vs[w].stage = "PRODUCTION" THEN [vs[w] EXCEPT !.stage = "RETIRED"] ELSE vs[w]
    BY DEF Retired
  <2>2. vs[w] \in Version /\ EarnsItsStage(vs[w])
    BY <1>1, ElementOfSeq DEF SoundVersions
  <2>3. QED
    BY <2>1, <2>2 DEF Version, Stages, EarnsItsStage
<1>3. DOMAIN rs = DOMAIN vs /\ rs = [w \in 1..Len(vs) |-> rs[w]]
  BY <1>1 DEF Retired
<1> HIDE DEF rs
<1>4. rs \in Seq(Version)
  BY <1>1, <1>2, <1>3, IsASeq
<1>5. SoundVersions(rs, b)
  <2>1. \A w \in DOMAIN rs : EarnsItsStage(rs[w])
    BY <1>2, <1>3
  <2>2. \A u, w \in DOMAIN rs : rs[u].stage \in InFlight /\ rs[w].stage \in InFlight => u = w
    BY <1>2, <1>3 DEF SoundVersions, InFlight
  <2>3. \A u, w \in DOMAIN rs : rs[u].stage = "PRODUCTION" /\ rs[w].stage = "PRODUCTION" => u = w
    BY <1>2, <1>3
  <2>4. \A w \in DOMAIN rs : rs[w].stage = "SHADOW" => b.version = w /\ b.length >= MinShadow
    BY <1>2, <1>3 DEF SoundVersions
  <2>5. QED
    BY <1>4, <2>1, <2>2, <2>3, <2>4 DEF SoundVersions
<1>6. QED
  BY <1>2, <1>3, <1>5 DEF rs

LEMMA FinalizePromotionKeeps ==
  ASSUME LInv, NEW v \in DOMAIN versions, NEW who \in Approvers \cup {Nobody},
         FinalizePromotion(v, who)
  PROVE  LInv'
<1> DEFINE rs == Retired(versions)
           x == [versions[v] EXCEPT !.stage = "PRODUCTION", !.approvedBy = who]
           ws == [rs EXCEPT ![v] = x]
<1>1. SoundVersions(versions, baseline)
  BY DEF LInv
<1>2. versions[v] \in Version /\ EarnsItsStage(versions[v]) /\ versions[v].stage = "PROMOTION_GATE"
  BY <1>1, ElementOfSeq, LenProperties DEF SoundVersions, FinalizePromotion
<1>3. /\ SoundVersions(rs, baseline) /\ rs \in Seq(Version) /\ v \in DOMAIN rs
      /\ rs[v] = versions[v]
      /\ \A w \in DOMAIN rs : rs[w].stage # "PRODUCTION"
  BY <1>1, <1>2, RetiredIsSound DEF SoundVersions
<1>4. versions' = ws
  <2>1. versions' = [rs EXCEPT ![v].stage = "PRODUCTION", ![v].approvedBy = who]
    BY DEF FinalizePromotion, Approved
  <2>2. versions' = [rs EXCEPT ![v] = [rs[v] EXCEPT !.stage = "PRODUCTION", !.approvedBy = who]]
    BY <2>1, Zenon
  <2>3. QED
    BY <1>3, <2>2, Zenon
<1>5. x \in Version /\ x.stage = "PRODUCTION" /\ EarnsItsStage(x)
  BY <1>2 DEF Version, Stages, EarnsItsStage, FinalizePromotion
<1> HIDE DEF x, rs
<1>6. /\ ws \in Seq(Version) /\ DOMAIN ws = DOMAIN rs
      /\ \A w \in DOMAIN rs : ws[w] = IF w = v THEN x ELSE rs[w]
  BY <1>3, <1>5, ReplacedVersion
<1> HIDE DEF ws
<1>7. SoundVersions(ws, baseline)
  <2>1. \A w \in DOMAIN ws : EarnsItsStage(ws[w])
    BY <1>3, <1>5, <1>6 DEF SoundVersions
  <2>2. \A u, w \in DOMAIN ws : ws[u].stage \in InFlight /\ ws[w].stage \in InFlight => u = w
    BY <1>3, <1>5, <1>6 DEF SoundVersions, InFlight
  <2>3. \A u, w \in DOMAIN ws : ws[u].stage = "PRODUCTION" /\ ws[w].stage = "PRODUCTION" => u = w
    BY <1>3, <1>6
  <2>4. \A w \in DOMAIN ws : ws[w].stage = "SHADOW" =>
          baseline.version = w /\ baseline.length >= MinShadow
    BY <1>3, <1>5, <1>6 DEF SoundVersions
  <2>5. QED
    BY <1>6, <2>1, <2>2, <2>3, <2>4 DEF SoundVersions
<1>8. log' = log /\ torn' = torn /\ baseline' = baseline
  BY DEF FinalizePromotion
<1>9. SoundVersions(versions', baseline')
  BY <1>4, <1>7, <1>8, Zenon
<1>10. QED
  BY <1>8, <1>9 DEF LInv

LEMMA RollbackProductionKeeps ==
  ASSUME LInv, RollbackProduction
  PROVE  LInv'
<1>1. PICK v \in DOMAIN versions :
        versions[v].stage = "PRODUCTION" /\ versions' = [versions EXCEPT ![v].stage = "ROLLED_BACK"]
  BY DEF RollbackProduction, StageBecomes
<1> DEFINE x == [versions[v] EXCEPT !.stage = "ROLLED_BACK"]
<1>2. versions' = [versions EXCEPT ![v] = x]
  BY <1>1, Zenon
<1>3. SoundVersions(versions, baseline)
  BY DEF LInv
<1>4. versions[v] \in Version
  BY <1>3, ElementOfSeq, LenProperties DEF SoundVersions
<1>5. x \in Version /\ x.stage = "ROLLED_BACK" /\ EarnsItsStage(x)
  BY <1>4 DEF Version, Stages, EarnsItsStage
<1> HIDE DEF x
<1>6. SoundVersions([versions EXCEPT ![v] = x], baseline)
  <2>1. x.stage \notin InFlight /\ x.stage # "PRODUCTION" /\ x.stage # "SHADOW"
    BY <1>5 DEF InFlight
  <2>2. QED
    BY <1>3, <1>5, <2>1, MovedVersionIsSound
<1>7. log' = log /\ torn' = torn /\ baseline' = baseline
  BY DEF RollbackProduction
<1>8. SoundVersions(versions', baseline')
  BY <1>2, <1>6, <1>7, Zenon
<1>9. QED
  BY <1>7, <1>8 DEF LInv

LEMMA RestartKeeps ==
  ASSUME LInv, Restart
  PROVE  LInv'
<1>1. <<>> \in Seq(Version) /\ DOMAIN <<>> = {}
  BY EmptySeq
<1>2. SoundVersions(<<>>, NoBaseline)
  BY <1>1 DEF SoundVersions
<1>3. versions' = <<>> /\ baseline' = NoBaseline /\ log' = log /\ torn' \in BOOLEAN
  BY DEF Restart, LInv
<1>4. SoundVersions(versions', baseline')
  BY <1>2, <1>3, Zenon
<1>5. NoBaseline \in [version: Nat, length: Nat] /\ NoBaseline.length = 0 /\ Len(log) \in Nat
  BY LenProperties DEF NoBaseline, LInv
<1>6. QED
  BY <1>3, <1>4, <1>5 DEF LInv

LEMMA LearningNextInv ==
  ASSUME LInv, [LearningNext]_learningVars
  PROVE  LInv'
<1>1. CASE Record
  BY <1>1, RecordKeeps
<1>2. CASE Sync
  BY <1>2, SyncKeeps
<1>3. CASE RollbackProduction
  BY <1>3, RollbackProductionKeeps
<1>4. CASE Restart
  BY <1>4, RestartKeeps
<1>5. CASE \E v \in DOMAIN versions : RecordCanaryResult(v)
  BY <1>5, RecordCanaryResultKeeps
<1>6. CASE \E v \in DOMAIN versions, who \in Approvers \cup {Nobody} : FinalizePromotion(v, who)
  BY <1>6, FinalizePromotionKeeps
<1>7. CASE UNCHANGED learningVars
  <2>1. log' = log /\ torn' = torn /\ versions' = versions /\ baseline' = baseline
    BY <1>7 DEF learningVars
  <2>2. SoundVersions(versions', baseline')
    BY <2>1, Zenon DEF LInv
  <2>3. QED
    BY <2>1, <2>2 DEF LInv
<1>8. QED
  BY <1>1, <1>2, <1>3, <1>4, <1>5, <1>6, <1>7 DEF LearningNext

\* The inductive invariant holds.
THEOREM LearningInductive == LearningSpec => []LInv
<1>1. LearningInit => LInv
  BY LearningInitInv
<1>2. LInv /\ [LearningNext]_learningVars => LInv'
  BY LearningNextInv
<1>3. QED
  BY <1>1, <1>2, PTL DEF LearningSpec

LEMMA LInvIsEnough ==
  ASSUME LInv
  PROVE  LearningInvariant
<1>1. /\ SoundVersions(versions, baseline) /\ torn \in BOOLEAN /\ Len(log) \in Nat
      /\ baseline.length \in Nat /\ baseline.length <= Len(log)
  BY LenProperties DEF LInv
<1>2. \A v \in DOMAIN versions : versions[v] \in Version
  BY <1>1, ElementOfSeq, LenProperties DEF SoundVersions
<1>3. \A v \in DOMAIN versions : versions[v].stage \in Stages /\ versions[v].worse \subseteq Metrics
  BY <1>2 DEF Version
<1>4. \A v \in DOMAIN versions : versions[v].stage = "SHADOW" =>
        baseline.version = v /\ \A w \in DOMAIN versions : versions[w].stage \in InFlight => w = v
  BY <1>1 DEF SoundVersions, InFlight
<1>5. PolicyTypeOK
  BY <1>1, <1>3, <1>4 DEF PolicyTypeOK
<1>6. AuthorityIsEarned
  BY <1>1 DEF SoundVersions, EarnsItsStage, Beats, AuthorityIsEarned
<1>7. QED
  BY <1>5, <1>6 DEF LearningInvariant

\* Whatever has or had live authority earned it, one version at a time has it, and one at a
\* time is being tried against a baseline of its own.
THEOREM LearnedAuthorityIsEarned == LearningSpec => []LearningInvariant
<1>1. LInv => LearningInvariant
  BY LInvIsEnough
<1>2. QED
  BY <1>1, LearningInductive, PTL

----------------------------------------------------------------------------
(* Decisions are final. *)

Final == {"BENCHMARK", "RETIRED", "ROLLED_BACK"}

Refused(vs) == \E v \in DOMAIN vs : vs[v].stage = "BENCHMARK"

LEMMA SameVersionsKeep ==
  ASSUME versions' = versions
  PROVE  KeepsDecisions
BY DEF KeepsDecisions, Final, Refused

\* A step that moves one version from a stage that is not final.
LEMMA MovedVersionKeeps ==
  ASSUME NEW vs \in Seq(Version), vs = versions, NEW v \in DOMAIN vs, NEW x,
         vs[v].stage \notin Final, versions' = [vs EXCEPT ![v] = x]
  PROVE  KeepsDecisions
<1>1. \A w \in DOMAIN versions : versions[w].stage \in Final => versions'[w] = versions[w]
  BY Zenon
<1>2. Len(versions') = Len(versions)
  BY LenProperties
<1>3. QED
  BY <1>1, <1>2 DEF KeepsDecisions, Final, Refused

\* While a refused version is in flight, or with a torn log, a cycle registers no other.
LEMMA SyncKeepsDecisions ==
  ASSUME LInv, Sync
  PROVE  KeepsDecisions
<1> DEFINE vs == WithCandidate
           v == FirstInFlight(vs)
           starts == vs[v].stage = "OFFLINE_REPLAY" /\ Len(log) >= MinShadow
           idle == v = 0 \/ ~ (starts \/ Shadows(vs, v))
<1>1. /\ SoundVersions(vs, baseline) /\ SoundVersions(versions, baseline)
      /\ DOMAIN versions \subseteq DOMAIN vs
      /\ \A w \in DOMAIN versions : vs[w] = versions[w]
      /\ vs # versions => \A w \in DOMAIN versions : versions[w].stage \notin InFlight
  BY WithCandidateIsSound DEF LInv
<1>2. \E x : versions' = IF idle THEN vs ELSE [vs EXCEPT ![v] = x]
  <2>1. CASE idle
    BY <2>1 DEF Sync, Synced
  <2>2. CASE ~ idle
    <3> DEFINE split == Split(v, starts)
               gated == Len(log) - split.length >= MinBenchmark
               gate == Gate(Scores(1, split.length), Scores(split.length + 1, Len(log)))
    <3>1. versions' = IF ~ gated THEN [vs EXCEPT ![v].stage = "SHADOW"]
                      ELSE [vs EXCEPT ![v].gate = gate,
                              ![v].stage = IF gate.verdict = "PROMOTE" THEN "CANARY" ELSE "BENCHMARK"]
      BY <2>2 DEF Sync, Synced
    <3> HIDE DEF gated, gate, split, starts, v, vs
    <3>2. CASE ~ gated
      <4>1. versions' = [vs EXCEPT ![v] = [vs[v] EXCEPT !.stage = "SHADOW"]]
        BY <3>1, <3>2, Zenon
      <4>2. QED
        BY <2>2, <4>1
    <3>3. CASE gated
      <4>1. versions' = [vs EXCEPT ![v] = [vs[v] EXCEPT !.gate = gate,
                           !.stage = IF gate.verdict = "PROMOTE" THEN "CANARY" ELSE "BENCHMARK"]]
        BY <3>1, <3>3, Zenon
      <4>2. QED
        BY <2>2, <4>1
    <3>4. QED
      BY <3>2, <3>3
  <2>3. QED
    BY <2>1, <2>2
<1>3. ~ idle => v \in DOMAIN vs /\ vs[v].stage \in {"OFFLINE_REPLAY", "SHADOW"}
  BY <1>1, FirstInFlightIsTheOne DEF Shadows
<1>4. Refused(versions) => vs = versions /\ idle
  <2>1. SUFFICES ASSUME NEW b \in DOMAIN versions, versions[b].stage = "BENCHMARK"
                 PROVE  vs = versions /\ idle
    BY DEF Refused
  <2>2. vs = versions
    BY <1>1, <2>1 DEF InFlight
  <2>3. ~ idle => v = b
    <3> HIDE DEF v, vs, idle
    <3>1. SoundVersions(vs, baseline) /\ b \in DOMAIN vs /\ vs[b].stage \in InFlight
      BY <1>1, <2>1, <2>2 DEF InFlight
    <3>2. QED
      BY <1>3, <3>1 DEF SoundVersions, InFlight
  <2>4. idle
    BY <1>3, <2>1, <2>2, <2>3
  <2>5. QED
    BY <2>2, <2>4
<1>5. ~ torn
  BY DEF Sync
<1>6. Refused(versions) => versions' = versions
  BY <1>2, <1>4
<1>7. ASSUME NEW w \in DOMAIN versions, versions[w].stage \in Final
      PROVE  versions'[w].stage = versions[w].stage
  <2> HIDE DEF v, vs, idle
  <2>1. ~ idle => w # v
    BY <1>1, <1>3, <1>7 DEF Final
  <2>2. versions'[w] = vs[w]
    BY <1>1, <1>2, <2>1
  <2>3. QED
    BY <1>1, <2>2
<1>8. QED
  BY <1>5, <1>6, <1>7 DEF KeepsDecisions, Final, Refused

LEMMA StepKeepsDecisions ==
  ASSUME LInv, LearningNext
  PROVE  KeepsDecisions
<1>1. SoundVersions(versions, baseline) /\ versions \in Seq(Version)
  BY DEF LInv, SoundVersions
<1>2. CASE Record
  BY <1>2, SameVersionsKeep DEF Record
<1>3. CASE Sync
  BY <1>3, SyncKeepsDecisions
<1>4. CASE RollbackProduction
  <2>1. PICK v \in DOMAIN versions :
          versions[v].stage = "PRODUCTION" /\ versions' = [versions EXCEPT ![v].stage = "ROLLED_BACK"]
    BY <1>4 DEF RollbackProduction, StageBecomes
  <2>2. versions' = [versions EXCEPT ![v] = [versions[v] EXCEPT !.stage = "ROLLED_BACK"]]
    BY <2>1, Zenon
  <2>3. versions[v].stage \notin Final
    BY <2>1 DEF Final
  <2>4. QED
    BY <1>1, <2>2, <2>3, MovedVersionKeeps
<1>5. CASE Restart
  BY <1>5 DEF Restart, KeepsDecisions
<1>6. ASSUME NEW v \in DOMAIN versions, RecordCanaryResult(v)
      PROVE  KeepsDecisions
  <2>1. PICK worse \in SUBSET Metrics :
          versions' = [versions EXCEPT ![v].worse = worse,
                         ![v].stage = IF worse = {} THEN "PROMOTION_GATE" ELSE "ROLLED_BACK"]
    BY <1>6 DEF RecordCanaryResult
  <2>2. versions' = [versions EXCEPT ![v] = [versions[v] EXCEPT !.worse = worse,
                       !.stage = IF worse = {} THEN "PROMOTION_GATE" ELSE "ROLLED_BACK"]]
    BY <2>1, Zenon
  <2>3. versions[v].stage \notin Final
    BY <1>6 DEF RecordCanaryResult, Final
  <2>4. QED
    BY <1>1, <2>2, <2>3, MovedVersionKeeps
<1>7. ASSUME NEW v \in DOMAIN versions, NEW who \in Approvers \cup {Nobody},
             FinalizePromotion(v, who)
      PROVE  KeepsDecisions
  <2> DEFINE rs == Retired(versions)
  <2>1. versions' = [rs EXCEPT ![v].stage = "PRODUCTION", ![v].approvedBy = who]
        /\ versions[v].stage = "PROMOTION_GATE"
    BY <1>7 DEF FinalizePromotion, Approved
  <2>2. versions' = [rs EXCEPT ![v] = [rs[v] EXCEPT !.stage = "PRODUCTION", !.approvedBy = who]]
    BY <2>1, Zenon
  <2>3. /\ rs \in Seq(Version) /\ DOMAIN rs = DOMAIN versions
        /\ \A w \in DOMAIN versions : versions[w].stage # "PRODUCTION" => rs[w] = versions[w]
    BY <1>1, RetiredIsSound DEF SoundVersions
  <2> HIDE DEF rs
  <2>4. Len(versions') = Len(versions)
    BY <1>1, <2>2, <2>3, LenProperties
  <2>5. ASSUME NEW w \in DOMAIN versions, versions[w].stage \in Final
        PROVE  versions'[w].stage = versions[w].stage
    BY <2>1, <2>2, <2>3, <2>5 DEF Final
  <2>6. QED
    BY <2>4, <2>5 DEF KeepsDecisions, Final, Refused
<1>8. QED
  BY <1>2, <1>3, <1>4, <1>5, <1>6, <1>7 DEF LearningNext

\* Nothing that is recorded later brings a refused, retired or rolled back policy back, and
\* nothing passes a refused one.
THEOREM DecisionsStand == LearningSpec => DecisionsAreFinal
<1>1. LInv /\ [LearningNext]_learningVars => [KeepsDecisions]_learningVars
  BY StepKeepsDecisions
<1>2. LearningSpec => [][KeepsDecisions]_learningVars
  BY <1>1, LearningInductive, PTL DEF LearningSpec
<1>3. QED
  BY <1>2 DEF DecisionsAreFinal

----------------------------------------------------------------------------
(* The model pool. *)

SlotState == [limit: 1..MaxSlots, inFlight: Nat, failures: 0..FailureThreshold, openUntil: Nat]

EvalState == [runs: Nat, accepted: Nat]

CallState ==
  [stage: {"IDLE", "ASKED", "WAITING", "FAILED"}, at: Nat, route: Seq(Models), next: Nat,
   long: SUBSET Models, failed: SUBSET Models, refused: SUBSET Models]

\* No slot is given twice, and a circuit that is open has been opened by failures.
SlotOK(s, t) ==
  /\ s \in SlotState /\ s.inFlight <= s.limit
  /\ s.openUntil > 0 => s.failures = FailureThreshold /\ s.openUntil <= t + Cooldown

GovernorOK(g, t) == DOMAIN g = Models /\ \A m \in Models : SlotOK(g[m], t)

EvalsOK(f) == f \in [Models -> EvalState] /\ \A m \in Models : f[m].accepted <= f[m].runs

Distinct(s) == \A i, j \in DOMAIN s : s[i] = s[j] => i = j

\* The models of the route before the n-th.
Before(c, n) == {c.route[i] : i \in {j \in DOMAIN c.route : j < n}}

\* What was passed of the route has failed or was refused.
CallOK(c, t) ==
  /\ c \in CallState /\ c.at <= t /\ Distinct(c.route)
  /\ c.stage = "ASKED" => c.failed = {} /\ c.refused = {} /\ c.next = 1
  /\ c.stage = "WAITING" => /\ c.next - 1 \in DOMAIN c.route
                            /\ c.failed \cup c.refused = Before(c, c.next - 1)
  /\ c.stage = "FAILED" => c.failed \cup c.refused = Range(c.route)

Holders(f, m) == {r \in Callers : f[r].stage = "WAITING" /\ Asked(f[r]) = m}

PInv ==
  /\ now \in Nat
  /\ GovernorOK(governor, now) /\ EvalsOK(evals)
  /\ GovernorOK(saved.governor, now) /\ EvalsOK(saved.evals)
  /\ \A m \in Models : saved.governor[m].inFlight = 0
  /\ DOMAIN calls = Callers /\ \A r \in Callers : CallOK(calls[r], now)
  /\ \A m \in Models : governor[m].inFlight = Cardinality(Holders(calls, m))

LEMMA PoolConstants ==
  /\ FailureThreshold \in Nat \ {0} /\ Cooldown \in Nat \ {0} /\ MaxSlots \in Nat \ {0}
  /\ \A S \in SUBSET Callers : IsFiniteSet(S) /\ Cardinality(S) \in Nat
BY PoolAssumption, FS_Subset, FS_CardinalityType

LEMMA MinIsLeast ==
  ASSUME NEW S, S \subseteq Nat, S # {}
  PROVE  Min(S) \in S /\ \A i \in S : Min(S) <= i
<1> DEFINE R == OpToRel(<, Nat)
<1>1. \A x, y \in Nat : <<x, y>> \in R <=> x < y
  BY DEF OpToRel
<1>2. IsWellFoundedOn(R, Nat)
  BY NatLessThanWellFounded
<1> HIDE DEF R
<1>3. PICK x \in S : \A y \in S : <<y, x>> \notin R
  BY <1>2, WFMin
<1>4. \A y \in S : y \in Nat /\ x \in Nat /\ ~(y < x)
  BY <1>1, <1>3
<1>5. \A y \in S : x <= y
  BY <1>4
<1>6. QED
  BY <1>3, <1>5 DEF Min

\* A failure counts up to the threshold, and opens the circuit when it is reached.
LEMMA SlotChanges ==
  ASSUME NEW s, NEW t \in Nat, SlotOK(s, t)
  PROVE  /\ SlotOK(Healthy(s), t) /\ Healthy(s).inFlight = s.inFlight
         /\ \A u \in 0..t : SlotOK(Failed(s, u), t) /\ Failed(s, u).inFlight = s.inFlight
         /\ s.inFlight < s.limit => SlotOK([s EXCEPT !.inFlight = @ + 1], t)
         /\ s.inFlight > 0 => SlotOK([s EXCEPT !.inFlight = @ - 1], t)
         /\ SlotOK([s EXCEPT !.inFlight = 0], t)
         /\ [s EXCEPT !.inFlight = @ + 1].inFlight = s.inFlight + 1
         /\ [s EXCEPT !.inFlight = @ - 1].inFlight = s.inFlight - 1
         /\ SlotOK([s EXCEPT !.openUntil = 0], t)
         /\ \A u \in Nat : u >= t => SlotOK(s, u)
<1>1. /\ s \in SlotState /\ s.inFlight <= s.limit /\ s.inFlight \in Nat /\ s.limit \in 1..MaxSlots
      /\ s.failures \in 0..FailureThreshold /\ s.openUntil \in Nat
      /\ s.openUntil > 0 => s.failures = FailureThreshold /\ s.openUntil <= t + Cooldown
  BY DEF SlotOK, SlotState
<1>2. SlotOK(Healthy(s), t) /\ Healthy(s).inFlight = s.inFlight
  <2>1. 0 \in 0..FailureThreshold /\ 0 \in Nat
    BY PoolConstants
  <2>2. /\ Healthy(s) \in SlotState /\ Healthy(s).inFlight = s.inFlight
        /\ Healthy(s).limit = s.limit /\ Healthy(s).openUntil = 0
    BY <1>1, <2>1 DEF Healthy, SlotState
  <2>3. QED
    BY <1>1, <2>2 DEF SlotOK
<1>3. ASSUME NEW u \in 0..t
      PROVE  SlotOK(Failed(s, u), t) /\ Failed(s, u).inFlight = s.inFlight
  <2> DEFINE n == Min({s.failures + 1, FailureThreshold})
             open == IF n = FailureThreshold THEN u + Cooldown ELSE s.openUntil
  <2>1. /\ n \in 0..FailureThreshold
        /\ n # FailureThreshold => s.failures # FailureThreshold
    <3>1. {s.failures + 1, FailureThreshold} \subseteq Nat
      BY <1>1, PoolConstants
    <3>2. n \in {s.failures + 1, FailureThreshold} /\ n <= FailureThreshold
      BY <3>1, MinIsLeast
    <3>3. QED
      BY <1>1, <3>1, <3>2, PoolConstants
  <2>2. Failed(s, u) = [s EXCEPT !.failures = n, !.openUntil = open]
    BY <1>1 DEF Failed, SlotState
  <2> HIDE DEF n
  <2>3. open \in Nat /\ (open > 0 => n = FailureThreshold /\ open <= t + Cooldown)
    <3>1. CASE n = FailureThreshold
      BY <3>1, PoolConstants
    <3>2. CASE n # FailureThreshold
      BY <1>1, <2>1, <3>2
    <3>3. QED
      BY <3>1, <3>2
  <2> HIDE DEF open
  <2>4. /\ Failed(s, u) \in SlotState /\ Failed(s, u).inFlight = s.inFlight
        /\ Failed(s, u).limit = s.limit /\ Failed(s, u).failures = n
        /\ Failed(s, u).openUntil = open
    BY <1>1, <2>1, <2>2, <2>3 DEF SlotState
  <2>5. QED
    BY <1>1, <2>3, <2>4 DEF SlotOK
<1>4. /\ s.inFlight < s.limit => SlotOK([s EXCEPT !.inFlight = @ + 1], t)
      /\ s.inFlight > 0 => SlotOK([s EXCEPT !.inFlight = @ - 1], t)
      /\ SlotOK([s EXCEPT !.inFlight = 0], t)
  <2>1. ASSUME NEW n \in Nat, n <= s.limit
        PROVE  SlotOK([s EXCEPT !.inFlight = n], t)
    BY <1>1, <2>1 DEF SlotOK, SlotState
  <2>2. 0 \in Nat /\ 0 <= s.limit
    BY <1>1
  <2>3. s.inFlight < s.limit => s.inFlight + 1 \in Nat /\ s.inFlight + 1 <= s.limit
    BY <1>1
  <2>4. s.inFlight > 0 => s.inFlight - 1 \in Nat /\ s.inFlight - 1 <= s.limit
    BY <1>1
  <2>5. QED
    BY <2>1, <2>2, <2>3, <2>4
<1>5. /\ [s EXCEPT !.inFlight = @ + 1].inFlight = s.inFlight + 1
      /\ [s EXCEPT !.inFlight = @ - 1].inFlight = s.inFlight - 1
  BY <1>1 DEF SlotState
<1>6. SlotOK([s EXCEPT !.openUntil = 0], t)
  BY <1>1 DEF SlotOK, SlotState
<1>7. \A u \in Nat : u >= t => SlotOK(s, u)
  <2>1. \A u \in Nat : u >= t => t + Cooldown <= u + Cooldown
    BY PoolConstants
  <2>2. \A u \in Nat : u >= t /\ s.openUntil <= t + Cooldown => s.openUntil <= u + Cooldown
    BY <1>1, <2>1, PoolConstants
  <2>3. QED
    BY <1>1, <2>2 DEF SlotOK
<1>8. QED
  BY <1>2, <1>3, <1>4, <1>5, <1>6, <1>7

\* What a caller holds is his own.
LEMMA HoldersChange ==
  ASSUME NEW f, NEW r \in Callers, NEW g, NEW m,
         \A q \in Callers : q # r => g[q] = f[q]
  PROVE  /\ Cardinality(Holders(g, m))
              = Cardinality(Holders(f, m) \ {r})
                  + (IF g[r].stage = "WAITING" /\ Asked(g[r]) = m THEN 1 ELSE 0)
         /\ Cardinality(Holders(f, m) \ {r})
              = Cardinality(Holders(f, m)) - (IF r \in Holders(f, m) THEN 1 ELSE 0)
         /\ Cardinality(Holders(f, m)) \in Nat
<1> DEFINE others == Holders(f, m) \ {r}
<1>1. Holders(f, m) \subseteq Callers /\ others \subseteq Callers
  BY DEF Holders
<1>2. /\ IsFiniteSet(Holders(f, m)) /\ Cardinality(Holders(f, m)) \in Nat
      /\ IsFiniteSet(others) /\ Cardinality(others) \in Nat /\ r \notin others
  BY <1>1, PoolConstants
<1> HIDE DEF others
<1>7. Cardinality(others) = Cardinality(Holders(f, m)) - (IF r \in Holders(f, m) THEN 1 ELSE 0)
  BY <1>2, FS_RemoveElement DEF others
<1>4. CASE g[r].stage = "WAITING" /\ Asked(g[r]) = m
  <2>1. Holders(g, m) = others \cup {r}
    BY <1>4 DEF Holders, others
  <2>2. Cardinality(Holders(g, m)) = Cardinality(others) + 1
    BY <1>2, <2>1, FS_AddElement
  <2>3. QED
    BY <1>2, <1>4, <1>7, <2>2 DEF others
<1>5. CASE ~(g[r].stage = "WAITING" /\ Asked(g[r]) = m)
  <2>1. Holders(g, m) = others
    BY <1>5 DEF Holders, others
  <2>2. (IF g[r].stage = "WAITING" /\ Asked(g[r]) = m THEN 1 ELSE 0) = 0
    BY <1>5
  <2>3. Cardinality(Holders(g, m)) = Cardinality(others) + 0
    BY <1>2, <2>1
  <2>4. QED
    BY <1>2, <1>7, <2>2, <2>3 DEF others
<1>6. QED
  BY <1>4, <1>5

\* From the next model of the route on, each is passed or asked.
LEMMA WalkKeeps ==
  ASSUME PInv, NEW r \in Callers, NEW g, GovernorOK(g, now),
         NEW c \in CallState, Distinct(c.route), c.at <= now,
         c.next \in 1..(Len(c.route) + 1), c.failed \cup c.refused = Before(c, c.next),
         \A m \in Models : g[m].inFlight = Cardinality(Holders(calls, m) \ {r}),
         Walk(r, c, g), UNCHANGED <<now, saved>>
  PROVE  PInv'
<1> DEFINE L == Len(c.route)
           rest == StillToTry(c)
           fit == {i \in rest : Admissible(g[c.route[i]], c.at) /\ c.route[i] \notin c.long}
           stop == IF fit = {} THEN L + 1 ELSE Min(fit)
           passed == {c.route[i] : i \in {j \in rest : j < stop}}
           tooLong == {m \in passed : Admissible(g[m], c.at)}
           tried == [c EXCEPT !.next = stop + 1, !.long = @ \ passed, !.failed = @ \cup tooLong,
                              !.refused = @ \cup (passed \ tooLong)]
           over == IF fit = {} THEN [tried EXCEPT !.stage = "FAILED", !.at = 0]
                               ELSE [tried EXCEPT !.stage = "WAITING"]
<1>1. /\ governor' = [m \in Models |->
                        IF m \in tooLong THEN Failed(g[m], c.at)
                        ELSE IF fit # {} /\ m = c.route[stop] THEN [g[m] EXCEPT !.inFlight = @ + 1]
                        ELSE g[m]]
      /\ calls' = [calls EXCEPT ![r] = over]
      /\ evals' = IF fit = {} THEN EvalsOfFailed(over) ELSE evals
  BY DEF Walk
<1>2. /\ c.route \in Seq(Models) /\ L \in Nat /\ DOMAIN c.route = 1..L
      /\ \A i \in 1..L : c.route[i] \in Models
      /\ c.at \in Nat /\ now \in Nat /\ c.next \in Nat
      /\ c.long \subseteq Models /\ c.failed \subseteq Models /\ c.refused \subseteq Models
  BY DEF CallState, PInv
<1>3. \A i : i \in rest <=> i \in 1..L /\ i >= c.next
  BY <1>2 DEF StillToTry
<1>4. fit \subseteq rest /\ fit \subseteq Nat
  BY <1>3
<1>5. /\ stop \in 1..(L + 1) /\ stop >= c.next
      /\ fit # {} => stop \in fit /\ stop \in 1..L
      /\ fit = {} => stop = L + 1
  <2>1. CASE fit = {}
    BY <1>2, <2>1
  <2>2. CASE fit # {}
    <3>1. stop \in fit
      BY <1>4, <2>2, MinIsLeast
    <3> HIDE DEF stop
    <3>2. stop \in 1..L /\ stop >= c.next
      BY <1>3, <1>4, <3>1
    <3>3. QED
      BY <1>2, <2>2, <3>1, <3>2
  <2>3. QED
    BY <2>1, <2>2
<1>6. fit # {} => Admissible(g[c.route[stop]], c.at)
  BY <1>5
<1> HIDE DEF rest, fit, stop
<1>7. /\ passed \subseteq Models /\ tooLong \subseteq passed
      /\ Before(c, stop) = Before(c, c.next) \cup passed
  <2>1. passed \subseteq Models
    BY <1>2, <1>3
  <2>2. \A j \in 1..L : j < stop <=> j < c.next \/ (j \in rest /\ j < stop)
    BY <1>2, <1>3, <1>5
  <2>3. Before(c, stop) = Before(c, c.next) \cup passed
    BY <1>2, <1>3, <2>2 DEF Before
  <2>4. QED
    BY <2>1, <2>3
<1>8. fit # {} => c.route[stop] \notin passed /\ c.route[stop] \in Models
  <2>1. \A i \in rest : i < stop /\ stop \in 1..L => c.route[i] # c.route[stop]
    BY <1>2, <1>3 DEF Distinct
  <2>2. QED
    BY <1>2, <1>5, <2>1
<1> HIDE DEF passed
<1>9. /\ over \in CallState /\ over.route = c.route /\ over.next = stop + 1
      /\ over.failed = c.failed \cup tooLong /\ over.refused = c.refused \cup (passed \ tooLong)
      /\ over.at \in {0, c.at} /\ over.stage = IF fit = {} THEN "FAILED" ELSE "WAITING"
  <2>1. /\ stop + 1 \in Nat /\ c.long \ passed \subseteq Models
        /\ c.failed \cup tooLong \subseteq Models
        /\ c.refused \cup (passed \ tooLong) \subseteq Models
    BY <1>2, <1>5, <1>7
  <2> HIDE DEF tooLong
  <2>2. /\ tried \in CallState /\ tried.route = c.route /\ tried.next = stop + 1
        /\ tried.failed = c.failed \cup tooLong /\ tried.refused = c.refused \cup (passed \ tooLong)
        /\ tried.at = c.at
    BY <2>1 DEF CallState
  <2> HIDE DEF tried
  <2>3. CASE fit = {}
    BY <2>2, <2>3 DEF CallState
  <2>4. CASE fit # {}
    BY <2>2, <2>4 DEF CallState
  <2>5. QED
    BY <2>3, <2>4
<1> HIDE DEF over
<1>10. over.failed \cup over.refused = Before(c, stop)
  BY <1>7, <1>9
<1>11. CallOK(over, now)
  <2>1. over.at <= now
    BY <1>2, <1>9
  <2>2. CASE fit = {}
    <3>1. Before(c, stop) = Range(over.route)
      BY <1>2, <1>5, <1>9, <2>2 DEF Before, Range
    <3>2. QED
      BY <1>9, <1>10, <2>1, <2>2, <3>1 DEF CallOK
  <2>3. CASE fit # {}
    <3>1. over.next - 1 = stop /\ stop \in DOMAIN over.route
      BY <1>2, <1>5, <1>9, <2>3
    <3>2. Before(over, stop) = Before(c, stop)
      BY <1>9 DEF Before
    <3>3. QED
      BY <1>9, <1>10, <2>1, <2>3, <3>1, <3>2 DEF CallOK
  <2>4. QED
    BY <2>2, <2>3
<1>12. \A m \in Models : over.stage = "WAITING" /\ Asked(over) = m <=> fit # {} /\ m = c.route[stop]
  BY <1>2, <1>5, <1>9 DEF Asked
<1>13. ASSUME NEW m \in Models
       PROVE  /\ SlotOK(governor'[m], now)
              /\ governor'[m].inFlight
                   = g[m].inFlight + (IF fit # {} /\ m = c.route[stop] THEN 1 ELSE 0)
  <2>1. SlotOK(g[m], now) /\ now \in Nat /\ g[m].inFlight \in Nat
    BY <1>2 DEF GovernorOK, SlotOK, SlotState
  <2>2. CASE m \in tooLong
    <3>1. governor'[m] = Failed(g[m], c.at) /\ ~(fit # {} /\ m = c.route[stop])
      BY <1>1, <1>8, <2>2
    <3>2. c.at \in 0..now
      BY <1>2
    <3>3. SlotOK(Failed(g[m], c.at), now) /\ Failed(g[m], c.at).inFlight = g[m].inFlight
      BY <2>1, <3>2, SlotChanges
    <3>4. QED
      BY <2>1, <3>1, <3>3
  <2>3. CASE m \notin tooLong /\ fit # {} /\ m = c.route[stop]
    <3>1. governor'[m] = [g[m] EXCEPT !.inFlight = @ + 1] /\ g[m].inFlight < g[m].limit
      BY <1>1, <1>6, <2>3 DEF Admissible
    <3>2. /\ SlotOK([g[m] EXCEPT !.inFlight = @ + 1], now)
          /\ [g[m] EXCEPT !.inFlight = @ + 1].inFlight = g[m].inFlight + 1
      BY <2>1, <3>1, SlotChanges
    <3>3. QED
      BY <2>3, <3>1, <3>2
  <2>4. CASE m \notin tooLong /\ ~(fit # {} /\ m = c.route[stop])
    <3>1. governor'[m] = g[m]
      BY <1>1, <2>4
    <3>2. QED
      BY <2>1, <2>4, <3>1
  <2>5. QED
    BY <2>2, <2>3, <2>4
<1>14. GovernorOK(governor', now)
  BY <1>1, <1>13 DEF GovernorOK
<1>15. DOMAIN calls = Callers /\ DOMAIN calls' = Callers
       /\ \A q \in Callers : CallOK(calls'[q], now)
  BY <1>1, <1>11 DEF PInv
<1>16. \A m \in Models : governor'[m].inFlight = Cardinality(Holders(calls', m))
  <2> SUFFICES ASSUME NEW m \in Models
               PROVE  governor'[m].inFlight = Cardinality(Holders(calls', m))
    OBVIOUS
  <2>1. calls'[r] = over /\ \A q \in Callers : q # r => calls'[q] = calls[q]
    BY <1>1, <1>15
  <2>2. Cardinality(Holders(calls', m))
          = Cardinality(Holders(calls, m) \ {r})
              + (IF over.stage = "WAITING" /\ Asked(over) = m THEN 1 ELSE 0)
    BY <2>1, HoldersChange
  <2>3. QED
    BY <1>12, <1>13, <2>2
<1>17. EvalsOK(evals')
  <2>1. EvalsOK(evals)
    BY DEF PInv
  <2>2. CASE fit # {}
    BY <1>1, <2>1, <2>2
  <2>3. CASE fit = {}
    <3>1. evals' = EvalsOfFailed(over)
      BY <1>1, <2>3
    <3>2. QED
      BY <2>1, <3>1 DEF EvalsOK, EvalsOfFailed, WithRun, EvalState
  <2>4. QED
    BY <2>2, <2>3
<1>18. QED
  BY <1>14, <1>15, <1>16, <1>17 DEF PInv

\* A call that neither was waiting nor waits now holds nothing.
LEMMA CallKeeps ==
  ASSUME PInv, NEW r \in Callers, calls[r].stage # "WAITING", NEW c, CallOK(c, now),
         c.stage # "WAITING", calls' = [calls EXCEPT ![r] = c],
         UNCHANGED <<governor, evals, now, saved>>
  PROVE  PInv'
<1>1. DOMAIN calls = Callers /\ \A q \in Callers : CallOK(calls[q], now)
  BY DEF PInv
<1>2. calls'[r] = c /\ DOMAIN calls' = Callers /\ \A q \in Callers : q # r => calls'[q] = calls[q]
  BY <1>1
<1>3. \A m \in Models : Holders(calls', m) = Holders(calls, m)
  BY <1>2 DEF Holders
<1>4. \A q \in Callers : CallOK(calls'[q], now)
  BY <1>1, <1>2
<1>5. QED
  BY <1>2, <1>3, <1>4 DEF PInv

LEMMA NoCallOK ==
  ASSUME NEW t \in Nat
  PROVE  /\ CallOK(NoCall, t) /\ NoCall.stage = "IDLE"
         /\ LET c == [NoCall EXCEPT !.stage = "ASKED", !.at = t] IN
            CallOK(c, t) /\ c.stage = "ASKED"
<1>1. <<>> \in Seq(Models) /\ DOMAIN <<>> = {}
  OBVIOUS
<1>2. NoCall \in CallState /\ NoCall.stage = "IDLE" /\ NoCall.at = 0 /\ Distinct(NoCall.route)
  BY <1>1 DEF NoCall, CallState, Distinct
<1>3. CallOK(NoCall, t)
  BY <1>2 DEF CallOK
<1> DEFINE c == [NoCall EXCEPT !.stage = "ASKED", !.at = t]
<1>4. /\ c \in CallState /\ c.stage = "ASKED" /\ c.at = t /\ Distinct(c.route)
      /\ c.failed = {} /\ c.refused = {} /\ c.next = 1
  BY <1>1 DEF NoCall, CallState, Distinct
<1> HIDE DEF c
<1>5. CallOK(c, t)
  BY <1>4 DEF CallOK
<1>6. QED
  BY <1>2, <1>3, <1>4, <1>5 DEF c

LEMMA PInvInit == PoolInit => PInv
<1> SUFFICES ASSUME PoolInit
             PROVE  PInv
  OBVIOUS
<1>1. PICK limit \in 1..MaxSlots :
        governor = [m \in Models |-> [limit |-> limit, inFlight |-> 0, failures |-> 0, openUntil |-> 0]]
  BY DEF PoolInit
<1>2. now = 0 /\ evals = [m \in Models |-> [runs |-> 0, accepted |-> 0]]
      /\ calls = [r \in Callers |-> NoCall] /\ saved = [governor |-> governor, evals |-> evals]
  BY DEF PoolInit
<1>3. GovernorOK(governor, now) /\ \A m \in Models : governor[m].inFlight = 0
  BY <1>1, <1>2, PoolConstants DEF GovernorOK, SlotOK, SlotState
<1>4. EvalsOK(evals)
  BY <1>2 DEF EvalsOK, EvalState
<1>5. DOMAIN calls = Callers /\ \A r \in Callers : calls[r] = NoCall /\ CallOK(calls[r], now)
  BY <1>2, NoCallOK
<1>6. \A m \in Models : Holders(calls, m) = {}
  BY <1>5, NoCallOK DEF Holders
<1>7. \A m \in Models : governor[m].inFlight = Cardinality(Holders(calls, m))
  BY <1>3, <1>6, FS_EmptySet
<1>8. saved.governor = governor /\ saved.evals = evals /\ now \in Nat
  BY <1>2
<1>9. QED
  BY <1>3, <1>4, <1>5, <1>7, <1>8 DEF PInv

LEMMA AskKeeps ==
  ASSUME PInv, NEW r \in Callers, Ask(r) \/ NotRouted(r)
  PROVE  PInv'
<1>1. now \in Nat
  BY DEF PInv
<1>2. CASE Ask(r)
  BY <1>1, <1>2, CallKeeps, NoCallOK DEF Ask
<1>3. CASE NotRouted(r)
  BY <1>1, <1>3, CallKeeps, NoCallOK DEF NotRouted
<1>4. QED
  BY <1>2, <1>3

LEMMA RouteKeeps ==
  ASSUME PInv, NEW r \in Callers, Route(r)
  PROVE  PInv'
<1>1. PICK up \in SUBSET Models : \E fits \in SUBSET Candidates(up) :
        \E long \in SUBSET fits, route \in Routes(fits) :
          Walk(r, [calls[r] EXCEPT !.route = route, !.long = long], governor)
  BY DEF Route
<1>11. PICK fits \in SUBSET Candidates(up) : \E long \in SUBSET fits, route \in Routes(fits) :
         Walk(r, [calls[r] EXCEPT !.route = route, !.long = long], governor)
  BY <1>1
<1>12. PICK long \in SUBSET fits, route \in Routes(fits) :
         Walk(r, [calls[r] EXCEPT !.route = route, !.long = long], governor)
  BY <1>11
<1> DEFINE c == [calls[r] EXCEPT !.route = route, !.long = long]
<1>2. /\ calls[r].stage = "ASKED" /\ UNCHANGED <<now, saved>>
  BY DEF Route
<1>3. /\ calls[r] \in CallState /\ calls[r].at <= now
      /\ calls[r].failed = {} /\ calls[r].refused = {} /\ calls[r].next = 1
  BY <1>2 DEF PInv, CallOK
<1>4. fits \subseteq Models
  BY DEF Candidates
<1>5. /\ route \in Seq(Models) /\ Distinct(route) /\ Len(route) \in Nat
  <2>1. Cardinality(fits) \in Nat
    BY <1>4, PoolAssumption, FS_Subset, FS_CardinalityType
  <2>2. /\ route \in [1..Cardinality(fits) -> fits]
        /\ \A i, j \in 1..Cardinality(fits) : i # j => route[i] # route[j]
    BY DEF Routes, SetToSeqs
  <2>3. route \in Seq(Models)
    BY <1>4, <2>1, <2>2
  <2>4. QED
    BY <2>2, <2>3 DEF Distinct
<1>6. /\ c \in CallState /\ c.route = route /\ c.at = calls[r].at
      /\ c.failed = {} /\ c.refused = {} /\ c.next = 1
  BY <1>3, <1>4, <1>5 DEF CallState
<1> HIDE DEF c
<1>7. Before(c, c.next) = {}
  <2>1. DOMAIN c.route = 1..Len(route)
    BY <1>5, <1>6
  <2>2. QED
    BY <1>5, <1>6, <2>1 DEF Before
<1>8. \A m \in Models : governor[m].inFlight = Cardinality(Holders(calls, m) \ {r})
  <2>1. \A m : Holders(calls, m) \ {r} = Holders(calls, m)
    BY <1>2 DEF Holders
  <2>2. QED
    BY <2>1 DEF PInv
<1>9. GovernorOK(governor, now) /\ Walk(r, c, governor) /\ c.next \in 1..(Len(c.route) + 1)
  BY <1>12, <1>5, <1>6 DEF PInv, c
<1>10. QED
  BY <1>2, <1>3, <1>5, <1>6, <1>7, <1>8, <1>9, WalkKeeps

\* The model that is waited for has a slot to give back.
LEMMA HolderIsCounted ==
  ASSUME PInv, NEW r \in Callers, calls[r].stage = "WAITING"
  PROVE  LET m == Asked(calls[r]) IN
         /\ m \in Models /\ SlotOK(governor[m], now) /\ governor[m].inFlight > 0
         /\ \A n \in Models : Cardinality(Holders(calls, n) \ {r})
                                = governor[n].inFlight - (IF n = m THEN 1 ELSE 0)
<1> DEFINE m == Asked(calls[r])
<1>1. /\ calls[r] \in CallState /\ calls[r].next - 1 \in DOMAIN calls[r].route
  BY DEF PInv, CallOK
<1>2. m \in Models
  BY <1>1 DEF Asked, CallState
<1>3. SlotOK(governor[m], now) /\ \A n \in Models : governor[n].inFlight = Cardinality(Holders(calls, n))
  BY <1>2 DEF PInv, GovernorOK
<1>4. \A n : r \in Holders(calls, n) <=> n = m
  BY DEF Holders
<1>5. ASSUME NEW n \in Models
      PROVE  /\ Cardinality(Holders(calls, n) \ {r})
                  = Cardinality(Holders(calls, n)) - (IF r \in Holders(calls, n) THEN 1 ELSE 0)
             /\ Cardinality(Holders(calls, n)) \in Nat
  BY HoldersChange
<1>6. governor[m].inFlight > 0
  <2>1. IsFiniteSet(Holders(calls, m)) /\ Holders(calls, m) # {}
    BY <1>4, PoolConstants DEF Holders
  <2>2. Cardinality(Holders(calls, m)) # 0 /\ Cardinality(Holders(calls, m)) \in Nat
    BY <2>1, FS_EmptySet, FS_CardinalityType
  <2>3. QED
    BY <1>2, <1>3, <2>2
<1> HIDE DEF m
<1>7. \A n \in Models : Cardinality(Holders(calls, n) \ {r})
                          = governor[n].inFlight - (IF n = m THEN 1 ELSE 0)
  BY <1>3, <1>4, <1>5
<1>8. QED
  BY <1>2, <1>3, <1>6, <1>7 DEF m

LEMMA SucceedKeeps ==
  ASSUME PInv, NEW r \in Callers, Succeed(r)
  PROVE  PInv'
<1> DEFINE m == Asked(calls[r])
<1>1. /\ calls[r].stage = "WAITING" /\ UNCHANGED <<now, saved>>
      /\ governor' = [governor EXCEPT ![m] = Released(Healthy(@), TRUE)]
      /\ evals' = [evals EXCEPT ![m] = WithRun(@, 1)]
      /\ calls' = [calls EXCEPT ![r] = NoCall]
  BY DEF Succeed
<1>2. /\ m \in Models /\ SlotOK(governor[m], now) /\ governor[m].inFlight > 0
      /\ \A n \in Models : Cardinality(Holders(calls, n) \ {r})
                             = governor[n].inFlight - (IF n = m THEN 1 ELSE 0)
  BY <1>1, HolderIsCounted
<1>3. /\ now \in Nat /\ GovernorOK(governor, now) /\ EvalsOK(evals)
      /\ DOMAIN calls = Callers /\ \A q \in Callers : CallOK(calls[q], now)
  BY DEF PInv
<1> HIDE DEF m
<1>4. LET s == Released(Healthy(governor[m]), TRUE) IN
      SlotOK(s, now) /\ s.inFlight = governor[m].inFlight - 1
  <2>1. SlotOK(Healthy(governor[m]), now) /\ Healthy(governor[m]).inFlight = governor[m].inFlight
    BY <1>2, <1>3, SlotChanges
  <2>2. QED
    BY <1>2, <1>3, <2>1, SlotChanges DEF Released
<1>5. /\ DOMAIN governor' = Models /\ governor'[m] = Released(Healthy(governor[m]), TRUE)
      /\ \A n \in Models : n # m => governor'[n] = governor[n]
  BY <1>1, <1>2, <1>3 DEF GovernorOK
<1>6. GovernorOK(governor', now)
  BY <1>3, <1>4, <1>5 DEF GovernorOK
<1>7. EvalsOK(evals')
  BY <1>1, <1>2, <1>3 DEF EvalsOK, EvalState, WithRun
<1>8. /\ DOMAIN calls' = Callers /\ calls'[r] = NoCall
      /\ \A q \in Callers : q # r => calls'[q] = calls[q]
  BY <1>1, <1>3
<1>9. \A q \in Callers : CallOK(calls'[q], now)
  BY <1>3, <1>8, NoCallOK
<1>10. ASSUME NEW n \in Models
       PROVE  governor'[n].inFlight = Cardinality(Holders(calls', n))
  <2>1. Holders(calls', n) = Holders(calls, n) \ {r}
    BY <1>8, <1>3, NoCallOK DEF Holders
  <2>2. governor[n].inFlight \in Nat
    BY <1>3 DEF GovernorOK, SlotOK, SlotState
  <2>3. CASE n = m
    <3>1. governor'[n].inFlight = governor[n].inFlight - 1
      BY <1>4, <1>5, <2>3
    <3>2. QED
      BY <1>2, <2>1, <2>3, <3>1
  <2>4. CASE n # m
    <3>1. Cardinality(Holders(calls, n) \ {r}) = governor[n].inFlight - 0
      BY <1>2, <2>4
    <3>2. QED
      BY <1>5, <2>1, <2>2, <2>4, <3>1
  <2>5. QED
    BY <2>3, <2>4
<1>11. QED
  BY <1>1, <1>3, <1>6, <1>7, <1>8, <1>9, <1>10 DEF PInv

LEMMA FailKeeps ==
  ASSUME PInv, NEW r \in Callers, Fail(r)
  PROVE  PInv'
<1> DEFINE m == Asked(calls[r])
           g == [governor EXCEPT ![m] = Released(Failed(@, calls[r].at), FALSE)]
           c == [calls[r] EXCEPT !.failed = @ \cup {m}]
<1>1. calls[r].stage = "WAITING" /\ UNCHANGED <<now, saved>> /\ Walk(r, c, g)
  BY DEF Fail
<1>2. /\ m \in Models /\ SlotOK(governor[m], now) /\ governor[m].inFlight > 0
      /\ \A n \in Models : Cardinality(Holders(calls, n) \ {r})
                             = governor[n].inFlight - (IF n = m THEN 1 ELSE 0)
  BY <1>1, HolderIsCounted
<1>3. /\ now \in Nat /\ GovernorOK(governor, now)
      /\ calls[r] \in CallState /\ calls[r].at <= now /\ Distinct(calls[r].route)
      /\ calls[r].next - 1 \in DOMAIN calls[r].route
      /\ calls[r].failed \cup calls[r].refused = Before(calls[r], calls[r].next - 1)
      /\ m = calls[r].route[calls[r].next - 1]
  BY <1>1 DEF PInv, CallOK, Asked
<1>4. /\ calls[r].at \in 0..now /\ calls[r].next \in Nat /\ calls[r].route \in Seq(Models)
      /\ DOMAIN calls[r].route = 1..Len(calls[r].route) /\ Len(calls[r].route) \in Nat
  BY <1>3 DEF CallState
<1> HIDE DEF m
<1>5. LET s == Released(Failed(governor[m], calls[r].at), FALSE) IN
      SlotOK(s, now) /\ s.inFlight = governor[m].inFlight - 1
  <2> DEFINE s == Failed(governor[m], calls[r].at)
  <2>1. SlotOK(s, now) /\ s.inFlight = governor[m].inFlight
    BY <1>2, <1>3, <1>4, SlotChanges
  <2> HIDE DEF s
  <2>2. SlotOK(Released(s, FALSE), now) /\ Released(s, FALSE).inFlight = s.inFlight - 1
    BY <1>2, <1>3, <2>1, SlotChanges DEF Released
  <2>3. QED
    BY <2>1, <2>2 DEF s
<1>6. /\ DOMAIN g = Models /\ g[m] = Released(Failed(governor[m], calls[r].at), FALSE)
      /\ \A n \in Models : n # m => g[n] = governor[n]
  BY <1>2, <1>3 DEF GovernorOK
<1> HIDE DEF g
<1>7. GovernorOK(g, now)
  BY <1>3, <1>5, <1>6 DEF GovernorOK
<1>8. \A n \in Models : g[n].inFlight = Cardinality(Holders(calls, n) \ {r})
  <2> SUFFICES ASSUME NEW n \in Models
               PROVE  g[n].inFlight = Cardinality(Holders(calls, n) \ {r})
    OBVIOUS
  <2>1. governor[n].inFlight \in Nat
    BY <1>3 DEF GovernorOK, SlotOK, SlotState
  <2>2. CASE n = m
    <3>1. g[n].inFlight = governor[n].inFlight - 1
      BY <1>5, <1>6, <2>2
    <3>2. QED
      BY <1>2, <2>2, <3>1
  <2>3. CASE n # m
    <3>1. Cardinality(Holders(calls, n) \ {r}) = governor[n].inFlight - 0
      BY <1>2, <2>3
    <3>2. QED
      BY <1>6, <2>1, <2>3, <3>1
  <2>4. QED
    BY <2>2, <2>3
<1>9. /\ c \in CallState /\ c.route = calls[r].route /\ c.at = calls[r].at
      /\ c.next = calls[r].next /\ c.failed = calls[r].failed \cup {m}
      /\ c.refused = calls[r].refused
  BY <1>2, <1>3 DEF CallState
<1>10. c.failed \cup c.refused = Before(c, c.next) /\ c.next \in 1..(Len(c.route) + 1)
  <2>1. \A j \in 1..Len(calls[r].route) :
          j < calls[r].next <=> j < calls[r].next - 1 \/ j = calls[r].next - 1
    BY <1>4
  <2>2. Before(c, c.next) = Before(calls[r], calls[r].next - 1) \cup {m}
    BY <1>3, <1>4, <1>9, <2>1 DEF Before
  <2>3. c.failed \cup c.refused = Before(c, c.next)
    BY <1>3, <1>9, <2>2
  <2>4. calls[r].next \in 1..(Len(calls[r].route) + 1)
    BY <1>3, <1>4
  <2>5. QED
    BY <1>9, <2>3, <2>4
<1> HIDE DEF c
<1>11. QED
  BY <1>1, <1>3, <1>7, <1>8, <1>9, <1>10, WalkKeeps

LEMMA HealthKeeps ==
  ASSUME PInv, NEW m \in Models, NEW healthy \in BOOLEAN, NEW t \in 0..MaxTime,
         HealthChecked(m, healthy, t)
  PROVE  PInv'
<1>1. /\ t \in 0..now /\ UNCHANGED <<evals, calls, now, saved>>
      /\ governor' = [governor EXCEPT ![m] = IF healthy THEN Healthy(@) ELSE Failed(@, t)]
      /\ now \in Nat /\ GovernorOK(governor, now)
  BY DEF HealthChecked, PInv
<1>2. /\ DOMAIN governor' = Models /\ \A n \in Models : n # m => governor'[n] = governor[n]
      /\ governor'[m] = IF healthy THEN Healthy(governor[m]) ELSE Failed(governor[m], t)
  BY <1>1 DEF GovernorOK
<1>3. SlotOK(governor[m], now)
  BY <1>1 DEF GovernorOK
<1>4. /\ SlotOK(Healthy(governor[m]), now) /\ Healthy(governor[m]).inFlight = governor[m].inFlight
      /\ SlotOK(Failed(governor[m], t), now) /\ Failed(governor[m], t).inFlight = governor[m].inFlight
  BY <1>1, <1>3, SlotChanges
<1>5. GovernorOK(governor', now) /\ \A n \in Models : governor'[n].inFlight = governor[n].inFlight
  BY <1>1, <1>2, <1>4 DEF GovernorOK
<1>6. QED
  BY <1>1, <1>5 DEF PInv

LEMMA SavingKeeps == PInv /\ (Save \/ RestartModels \/ Tick) => PInv'
<1> SUFFICES ASSUME PInv, Save \/ RestartModels \/ Tick
             PROVE  PInv'
  OBVIOUS
<1>1. now \in Nat /\ GovernorOK(governor, now) /\ GovernorOK(saved.governor, now)
  BY DEF PInv
<1>2. CASE Save
  <2>1. /\ saved'.governor = [m \in Models |-> [governor[m] EXCEPT !.inFlight = 0]]
        /\ saved'.evals = evals /\ UNCHANGED <<governor, evals, calls, now>>
    BY <1>2 DEF Save
  <2>2. \A m \in Models : SlotOK(governor[m], now) /\ governor[m] \in SlotState
    BY <1>1 DEF GovernorOK, SlotOK
  <2>3. \A m \in Models : SlotOK([governor[m] EXCEPT !.inFlight = 0], now)
    BY <1>1, <2>2, SlotChanges
  <2>4. \A m \in Models : saved'.governor[m].inFlight = 0
    BY <2>1, <2>2 DEF SlotState
  <2>5. GovernorOK(saved'.governor, now)
    BY <2>1, <2>3 DEF GovernorOK
  <2>6. QED
    BY <2>1, <2>4, <2>5 DEF PInv
<1>3. CASE RestartModels
  <2>1. /\ governor' = [m \in Models |-> Restored(saved.governor[m])]
        /\ evals' = saved.evals /\ calls' = [r \in Callers |-> NoCall] /\ UNCHANGED <<now, saved>>
    BY <1>3 DEF RestartModels
  <2>2. ASSUME NEW m \in Models
        PROVE  SlotOK(Restored(saved.governor[m]), now) /\ Restored(saved.governor[m]).inFlight = 0
    <3> DEFINE s == saved.governor[m]
    <3>1. SlotOK(s, now) /\ s \in SlotState /\ s.inFlight = 0
      BY <1>1 DEF GovernorOK, SlotOK, PInv
    <3>2. Restored(s) = s \/ Restored(s) = [s EXCEPT !.openUntil = 0]
      BY <3>1 DEF Restored, SlotState
    <3>3. SlotOK([s EXCEPT !.openUntil = 0], now) /\ [s EXCEPT !.openUntil = 0].inFlight = 0
      BY <1>1, <3>1, SlotChanges DEF SlotState
    <3> HIDE DEF s
    <3>4. SlotOK(Restored(s), now) /\ Restored(s).inFlight = 0
      BY <3>1, <3>2, <3>3
    <3>5. QED
      BY <3>4 DEF s
  <2>3. GovernorOK(governor', now) /\ \A m \in Models : governor'[m].inFlight = 0
    BY <2>1, <2>2 DEF GovernorOK
  <2>4. DOMAIN calls' = Callers /\ \A r \in Callers : calls'[r] = NoCall /\ CallOK(calls'[r], now)
    BY <1>1, <2>1, NoCallOK
  <2>5. \A m \in Models : Holders(calls', m) = {}
    BY <1>1, <2>4, NoCallOK DEF Holders
  <2>6. \A m \in Models : governor'[m].inFlight = Cardinality(Holders(calls', m))
    BY <2>3, <2>5, FS_EmptySet
  <2>7. QED
    BY <2>1, <2>3, <2>4, <2>6 DEF PInv
<1>4. CASE Tick
  <2>1. now' = now + 1 /\ now' \in Nat /\ now' >= now /\ UNCHANGED <<governor, evals, calls, saved>>
    BY <1>1, <1>4 DEF Tick
  <2>2. GovernorOK(governor, now') /\ GovernorOK(saved.governor, now')
    BY <1>1, <2>1, SlotChanges DEF GovernorOK
  <2>3. \A r \in Callers : CallOK(calls[r], now')
    <3> SUFFICES ASSUME NEW r \in Callers
                 PROVE  CallOK(calls[r], now')
      OBVIOUS
    <3>1. CallOK(calls[r], now)
      BY DEF PInv
    <3>2. calls[r].at \in Nat /\ calls[r].at <= now
      BY <3>1 DEF CallOK, CallState
    <3>3. calls[r].at <= now'
      BY <1>1, <2>1, <3>2
    <3>4. QED
      BY <3>1, <3>3 DEF CallOK
  <2>4. QED
    BY <2>1, <2>2, <2>3 DEF PInv
<1>5. QED
  BY <1>2, <1>3, <1>4

LEMMA PInvNext == PInv /\ [PoolNext]_poolVars => PInv'
<1> SUFFICES ASSUME PInv, [PoolNext]_poolVars
             PROVE  PInv'
  OBVIOUS
<1>1. CASE UNCHANGED poolVars
  BY <1>1 DEF PInv, poolVars
<1>2. QED
  BY <1>1, AskKeeps, RouteKeeps, SucceedKeeps, FailKeeps, HealthKeeps, SavingKeeps DEF PoolNext

LEMMA PoolInductive == PoolSpec => []PInv
BY PInvInit, PInvNext, PTL DEF PoolSpec

\* No model has more calls in flight than slots, and exactly those that wait for it: no answer,
\* failure, fallback or restart loses a slot or gives one twice.
THEOREM SlotsAreNeitherLostNorShared == PoolSpec => []PoolInvariant
<1>1. PInv => PoolInvariant
  <2> SUFFICES ASSUME PInv
               PROVE  PoolInvariant
    OBVIOUS
  <2>1. ASSUME NEW m \in Models
        PROVE  /\ governor[m].inFlight \in 0..governor[m].limit
               /\ governor[m].failures \in 0..FailureThreshold /\ governor[m].openUntil \in Nat
               /\ evals[m].accepted \in 0..evals[m].runs
    <3>1. SlotOK(governor[m], now) /\ evals[m] \in EvalState /\ evals[m].accepted <= evals[m].runs
      BY DEF PInv, GovernorOK, EvalsOK
    <3>2. QED
      BY <3>1 DEF SlotOK, SlotState, EvalState
  <2>2. ASSUME NEW r \in Callers
        PROVE  /\ calls[r].stage \in {"IDLE", "ASKED", "WAITING", "FAILED"}
               /\ calls[r].at \in 0..now
               /\ \A i \in DOMAIN calls[r].route : calls[r].route[i] \in Models
    <3>1. CallOK(calls[r], now) /\ now \in Nat
      BY DEF PInv
    <3>2. QED
      BY <3>1 DEF CallOK, CallState
  <2>3. SlotsAreHeld
    BY DEF PInv, Holders, SlotsAreHeld
  <2>4. QED
    BY <2>1, <2>2, <2>3 DEF PoolInvariant, PoolTypeOK
<1>2. QED
  BY <1>1, PoolInductive, PTL

\* Only failures in a row open the circuit of a model, and for a cooldown at most, whatever
\* probes and restarts come between and however old the clock of a call is.
THEOREM CircuitsOpenOnFailures == PoolSpec => []OpenCircuitIsEarned
<1>1. PInv => OpenCircuitIsEarned
  BY DEF PInv, GovernorOK, SlotOK, OpenCircuitIsEarned
<1>2. QED
  BY <1>1, PoolInductive, PTL

\* A call that gave up had tried every model of its route.
THEOREM GivingUpIsExhaustive == PoolSpec => []FailureIsExhaustive
<1>1. PInv => FailureIsExhaustive
  BY DEF PInv, CallOK, FailureIsExhaustive
<1>2. QED
  BY <1>1, PoolInductive, PTL
==============================================================================
