------------------------- MODULE OrchestratorProofs -------------------------
(***************************************************************************)
(* The invariants of ClaimAuthority and of Orchestrator and their          *)
(* refinement of FencedLease, for every graph of tasks, every budget and   *)
(* every bound.  First the claims alone; what the orchestrator adds is     *)
(* that the claims, the states of the tasks and the repair histories stay  *)
(* consistent with each other, in memory and in the snapshot.              *)
(***************************************************************************)
EXTENDS Orchestrator, FiniteSetTheorems, TLAPS

----------------------------------------------------------------------------
(* The claim authority: what the operators on the two maps return. *)

\* Removing keys from a claim map leaves a claim map with the other claims as they were.
LEMMA WithoutType ==
  ASSUME NEW cs, IsClaimMap(cs), NEW S
  PROVE  /\ IsClaimMap(Without(cs, S))
         /\ DOMAIN Without(cs, S) = DOMAIN cs \ S
         /\ \A t \in DOMAIN cs \ S : Without(cs, S)[t] = cs[t]
BY DEF IsClaimMap, Without, Restrict

\* Setting one key of a claim map gives a claim map that differs at that key alone.
LEMMA WithType ==
  ASSUME NEW cs, IsClaimMap(cs), NEW t \in Tasks, NEW claim \in Claim
  PROVE  /\ IsClaimMap(With(cs, t, claim))
         /\ DOMAIN With(cs, t, claim) = DOMAIN cs \cup {t}
         /\ With(cs, t, claim)[t] = claim
         /\ \A u \in DOMAIN cs : u # t => With(cs, t, claim)[u] = cs[u]
BY DEF IsClaimMap, With

\* Bump maps generations to generations.
LEMMA BumpType ==
  ASSUME NEW gen \in [Tasks -> Nat], NEW S
  PROVE  Bump(gen, S) \in [Tasks -> Nat]
BY DEF Bump

\* A new claim is a claim and its grant is a grant, both with the next claim id and
\* the next generation of its task.
LEMMA NewClaimType ==
  ASSUME NEW gen \in [Tasks -> Nat], NEW t \in Tasks, NEW o \in Owners,
         NEW lag \in Lags, minted \in Nat
  PROVE  /\ NewClaim(gen, t, o, lag) \in Claim
         /\ GrantOf(NewClaim(gen, t, o, lag)) \in Grant
         /\ NewClaim(gen, t, o, lag).token.claimId = minted + 1
         /\ NewClaim(gen, t, o, lag).token.taskKey = t
         /\ NewClaim(gen, t, o, lag).token.generation = gen[t] + 1
         /\ NewClaim(gen, t, o, lag).scopes = ScopesOf[t]
BY ScopesAssumption, TtlAssumption
   DEF NewClaim, GrantOf, Claim, Grant, Token, Lags

\* The empty map is a claim map.
LEMMA NoClaimsType == IsClaimMap(NoClaims) /\ DOMAIN NoClaims = {}
BY DEF IsClaimMap, NoClaims

----------------------------------------------------------------------------
(* The inductive invariant, first as a fact about any pair of maps, since a *)
(* dispatch claims on the maps that its own sweep has just produced.        *)

\* The claims are keyed by their own tasks, were all handed out, carry the current
\* generation of their task, and exclude each other.
SoundMaps(cs, gen, grants) ==
  /\ IsClaimMap(cs)
  /\ gen \in [Tasks -> Nat]
  /\ \A t \in DOMAIN cs :
       /\ cs[t].token.taskKey = t
       /\ cs[t].token.generation = gen[t]
       /\ GrantOf(cs[t]) \in grants
  /\ \A t, u \in DOMAIN cs : t # u => cs[t].scopes \cap cs[u].scopes = {}

\* Claim ids are fresh and name one grant, across restarts too.
ClaimIdsAreUnique ==
  /\ \A g \in issued : g.token.claimId <= minted /\ g.task = g.token.taskKey
  /\ \A g, h \in issued : g.token.claimId = h.token.claimId => g = h

SoundDisk ==
  /\ IsClaimMap(disk.claims)
  /\ disk = [claims |-> disk.claims, generation |-> disk.generation]
  /\ disk.generation \in [Tasks -> Nat]

IInv ==
  /\ SoundMaps(claims, generation, issued)
  /\ minted \in Nat
  /\ issued \in SUBSET Grant
  /\ ClaimIdsAreUnique
  /\ SoundDisk

\* Dropping claims, and bumping the generations of dropped or unclaimed tasks, keeps
\* the maps sound.
LEMMA DropKeepsSound ==
  ASSUME NEW cs, NEW gen, NEW grants, SoundMaps(cs, gen, grants),
         NEW S, NEW B, B \cap DOMAIN cs \subseteq S
  PROVE  SoundMaps(Without(cs, S), Bump(gen, B), grants)
<1>1. /\ IsClaimMap(cs)
      /\ gen \in [Tasks -> Nat]
  BY DEF SoundMaps
<1>2. /\ IsClaimMap(Without(cs, S))
      /\ DOMAIN Without(cs, S) = DOMAIN cs \ S
      /\ \A t \in DOMAIN cs \ S : Without(cs, S)[t] = cs[t]
  BY <1>1, WithoutType
<1>3. Bump(gen, B) \in [Tasks -> Nat]
  BY <1>1, BumpType
<1>4. \A t \in DOMAIN cs \ S : Bump(gen, B)[t] = gen[t]
  BY <1>1 DEF Bump, IsClaimMap
<1>5. QED
  BY <1>2, <1>3, <1>4 DEF SoundMaps

\* A claim made on sound maps keeps them sound, and takes a fresh claim id.
LEMMA ClaimKeepsSound ==
  ASSUME NEW cs, NEW gen, SoundMaps(cs, gen, issued), minted \in Nat,
         issued \in SUBSET Grant, ClaimIdsAreUnique,
         NEW t \in Tasks, NEW o \in Owners, NEW lag \in Lags,
         DoClaim(cs, gen, t, o, lag)
  PROVE  /\ SoundMaps(claims', generation', issued')
         /\ minted' \in Nat
         /\ issued' \in SUBSET Grant
         /\ ClaimIdsAreUnique'
<1> DEFINE new == NewClaim(gen, t, o, lag)
<1>1. /\ IsClaimMap(cs)
      /\ gen \in [Tasks -> Nat]
  BY DEF SoundMaps
<1>2. /\ new \in Claim
      /\ GrantOf(new) \in Grant
      /\ new.token.claimId = minted + 1
      /\ new.token.taskKey = t
      /\ new.token.generation = gen[t] + 1
      /\ new.scopes = ScopesOf[t]
  BY <1>1, NewClaimType
<1>3. /\ t \notin DOMAIN cs
      /\ \A u \in DOMAIN cs : cs[u].scopes \cap ScopesOf[t] = {}
      /\ claims' = With(cs, t, new)
      /\ generation' = Bump(gen, {t})
      /\ minted' = minted + 1
      /\ issued' = issued \cup {GrantOf(new)}
  BY DEF DoClaim, Claimable, ScopesConflict
<1> HIDE DEF new
<1>4. /\ IsClaimMap(claims')
      /\ DOMAIN claims' = DOMAIN cs \cup {t}
      /\ claims'[t] = new
      /\ \A u \in DOMAIN cs : claims'[u] = cs[u]
  <2>1. /\ IsClaimMap(With(cs, t, new))
        /\ DOMAIN With(cs, t, new) = DOMAIN cs \cup {t}
        /\ With(cs, t, new)[t] = new
        /\ \A u \in DOMAIN cs : u # t => With(cs, t, new)[u] = cs[u]
    BY <1>1, <1>2, WithType
  <2>2. QED
    BY <1>3, <2>1, Zenon
<1>5. /\ generation' \in [Tasks -> Nat]
      /\ generation'[t] = gen[t] + 1
      /\ \A u \in DOMAIN cs : generation'[u] = gen[u]
  BY <1>1, <1>3, BumpType DEF Bump, IsClaimMap
<1>6. \A u \in DOMAIN claims' :
        /\ claims'[u].token.taskKey = u
        /\ claims'[u].token.generation = generation'[u]
        /\ GrantOf(claims'[u]) \in issued'
  BY <1>2, <1>3, <1>4, <1>5 DEF SoundMaps
<1>7. \A u, w \in DOMAIN claims' : u # w => claims'[u].scopes \cap claims'[w].scopes = {}
  BY <1>2, <1>3, <1>4 DEF SoundMaps
<1>8. ClaimIdsAreUnique'
  <2>1. GrantOf(new).token.claimId = minted + 1 /\ GrantOf(new).task = GrantOf(new).token.taskKey
    BY <1>2 DEF GrantOf
  <2>2. \A g \in issued : g.token.claimId \in Nat /\ g.token.claimId <= minted
    BY DEF ClaimIdsAreUnique, Grant, Token
  <2>3. \A g \in issued' : g.token.claimId <= minted' /\ g.task = g.token.taskKey
    BY <1>3, <2>1, <2>2 DEF ClaimIdsAreUnique
  <2>4. \A g, h \in issued' : g.token.claimId = h.token.claimId => g = h
    BY <1>3, <2>1, <2>2 DEF ClaimIdsAreUnique
  <2>5. QED
    BY <2>3, <2>4 DEF ClaimIdsAreUnique
<1>9. minted' \in Nat /\ issued' \in SUBSET Grant
  BY <1>2, <1>3
<1>10. SoundMaps(claims', generation', issued')
  BY <1>4, <1>5, <1>6, <1>7, Zenon DEF SoundMaps
<1>11. QED
  BY <1>8, <1>9, <1>10

LEMMA InitEstablishesIInv == AuthorityInit => IInv
BY NoClaimsType
   DEF AuthorityInit, IInv, SoundMaps, ClaimIdsAreUnique, SoundDisk, EmptySnapshot

----------------------------------------------------------------------------
(* Every step keeps the invariant and is a step of the abstract lease. *)

\* What a step owes FencedLease: the grants it adds are new and are recorded.
LeaseStep ==
  /\ issued' = issued \cup (HeldGrants' \ HeldGrants)
  /\ (HeldGrants' \ HeldGrants) \cap issued = {}

\* Bumping no task changes nothing.
LEMMA BumpNothing ==
  ASSUME NEW gen \in [Tasks -> Nat]
  PROVE  Bump(gen, {}) = gen
BY DEF Bump

\* The grants of a map with fewer claims are among the grants of the map.
LEMMA WithoutGrants ==
  ASSUME NEW cs, IsClaimMap(cs), NEW S
  PROVE  GrantsIn(Without(cs, S)) \subseteq GrantsIn(cs)
<1> DEFINE fewer == Without(cs, S)
<1>1. DOMAIN fewer \subseteq DOMAIN cs /\ \A t \in DOMAIN fewer : fewer[t] = cs[t]
  <2>1. DOMAIN fewer = DOMAIN cs \ S /\ \A t \in DOMAIN cs \ S : fewer[t] = cs[t]
    BY WithoutType, Zenon
  <2>2. QED
    BY <2>1
<1> HIDE DEF fewer
<1>2. GrantsIn(fewer) \subseteq GrantsIn(cs)
  BY <1>1 DEF GrantsIn
<1>3. QED
  BY <1>2 DEF fewer

\* Steps that only drop claims: release, fence and sweepExpired.
LEMMA DropStep ==
  ASSUME IInv, NEW S, NEW B, B \cap DOMAIN claims \subseteq S,
         claims' = Without(claims, S), generation' = Bump(generation, B),
         UNCHANGED <<minted, issued, disk>>
  PROVE  IInv' /\ LeaseStep
<1>1. SoundMaps(claims', generation', issued')
  BY DropKeepsSound DEF IInv
<1>2. HeldGrants' \subseteq HeldGrants
  BY WithoutGrants DEF IInv, SoundMaps, HeldGrants
<1>3. ClaimIdsAreUnique' /\ SoundDisk'
  BY DEF IInv, ClaimIdsAreUnique, SoundDisk
<1>4. QED
  BY <1>1, <1>2, <1>3 DEF IInv, LeaseStep

\* A dispatch that claims on the maps left by a sweep of S, and claim itself (S = {}).
LEMMA ClaimStep ==
  ASSUME IInv, NEW S, NEW t \in Tasks, NEW o \in Owners, NEW lag \in Lags,
         S \subseteq DOMAIN claims,
         DoClaim(Without(claims, S), Bump(generation, S), t, o, lag)
  PROVE  IInv' /\ LeaseStep
<1> DEFINE cs  == Without(claims, S)
           gen == Bump(generation, S)
           new == NewClaim(gen, t, o, lag)
<1>1. SoundMaps(cs, gen, issued)
  BY DropKeepsSound DEF IInv
<1>2. /\ SoundMaps(claims', generation', issued')
      /\ minted' \in Nat
      /\ issued' \in SUBSET Grant
      /\ ClaimIdsAreUnique'
  <2> HIDE DEF cs, gen
  <2>1. DoClaim(cs, gen, t, o, lag)
    BY DEF cs, gen
  <2>2. QED
    BY <1>1, <2>1, ClaimKeepsSound DEF IInv
<1>3. SoundDisk'
  BY DEF DoClaim, IInv, SoundDisk
<1>4. /\ IsClaimMap(cs)
      /\ gen \in [Tasks -> Nat]
      /\ GrantsIn(cs) \subseteq HeldGrants
      /\ HeldGrants \subseteq issued
  <2>1. IsClaimMap(cs) /\ gen \in [Tasks -> Nat]
    BY <1>1 DEF SoundMaps
  <2>2. GrantsIn(cs) \subseteq HeldGrants
    BY WithoutGrants DEF IInv, SoundMaps, HeldGrants
  <2>3. HeldGrants \subseteq issued
    BY DEF IInv, SoundMaps, HeldGrants, GrantsIn
  <2>4. QED
    BY <2>1, <2>2, <2>3
<1>5. claims' = With(cs, t, new) /\ issued' = issued \cup {GrantOf(new)} /\ t \notin DOMAIN cs
  BY DEF DoClaim, Claimable
<1> HIDE DEF cs, gen
<1>6. new \in Claim /\ GrantOf(new).token.claimId = minted + 1
  <2>1. minted \in Nat
    BY DEF IInv
  <2>2. new \in Claim /\ new.token.claimId = minted + 1
    BY <1>4, <2>1, NewClaimType
  <2>3. QED
    BY <2>2 DEF GrantOf
<1>7. GrantOf(new) \notin issued
  BY <1>6 DEF IInv, ClaimIdsAreUnique, Grant, Token
<1> HIDE DEF new
<1>8. HeldGrants' = GrantsIn(cs) \cup {GrantOf(new)}
  <2>1. /\ DOMAIN claims' = DOMAIN cs \cup {t}
        /\ claims'[t] = new
        /\ \A u \in DOMAIN cs : claims'[u] = cs[u]
    BY <1>4, <1>5, <1>6, WithType
  <2>2. HeldGrants' = {GrantOf(claims'[u]) : u \in DOMAIN claims'}
    BY DEF HeldGrants, GrantsIn
  <2>3. QED
    BY <2>1, <2>2 DEF GrantsIn
<1>9. LeaseStep
  BY <1>4, <1>5, <1>7, <1>8 DEF LeaseStep
<1>10. QED
  BY <1>2, <1>3, <1>9 DEF IInv

\* Steps that change only the time a claim has left: renew and the passing of time.
LEMMA AgeStep ==
  ASSUME IInv, IsClaimMap(claims'), DOMAIN claims' = DOMAIN claims,
         \A t \in DOMAIN claims : /\ claims'[t].token = claims[t].token
                                  /\ claims'[t].scopes = claims[t].scopes,
         UNCHANGED <<generation, minted, issued, disk>>
  PROVE  IInv' /\ LeaseStep
<1>1. \A t \in DOMAIN claims : GrantOf(claims'[t]) = GrantOf(claims[t])
  BY DEF GrantOf
<1>2. HeldGrants' = HeldGrants
  BY <1>1 DEF HeldGrants, GrantsIn
<1>3. SoundMaps(claims', generation', issued')
  BY <1>1 DEF IInv, SoundMaps
<1>4. ClaimIdsAreUnique' /\ SoundDisk'
  BY DEF IInv, ClaimIdsAreUnique, SoundDisk
<1>5. QED
  BY <1>2, <1>3, <1>4 DEF IInv, LeaseStep

LEMMA RenewStep ==
  ASSUME IInv, NEW g \in issued, NEW lag \in Lags, Renew(g.token, lag)
  PROVE  IInv' /\ LeaseStep
<1> DEFINE t == g.token.taskKey
<1>1. t \in DOMAIN claims /\ claims' = [claims EXCEPT ![t].expiresIn = Ttl - lag]
  BY DEF Renew, Validate, Holds
<1>2. UNCHANGED <<generation, minted, issued, disk>>
  BY DEF Renew
<1> HIDE DEF t
<1>3. IsClaimMap(claims)
  BY DEF IInv, SoundMaps
<1>4. Ttl - lag \in Int
  BY TtlAssumption DEF Lags
<1>5. /\ DOMAIN claims' = DOMAIN claims
      /\ \A u \in DOMAIN claims : /\ claims'[u].token = claims[u].token
                                  /\ claims'[u].scopes = claims[u].scopes
                                  /\ claims'[u] \in Claim
  BY <1>1, <1>3, <1>4 DEF IsClaimMap, Claim
<1>6. IsClaimMap(claims')
  BY <1>1, <1>3, <1>5 DEF IsClaimMap
<1>7. QED
  BY <1>2, <1>5, <1>6, AgeStep

LEMMA TickStep ==
  ASSUME IInv, Tick
  PROVE  IInv' /\ LeaseStep
<1>1. IsClaimMap(claims)
  BY DEF IInv, SoundMaps
<1>2. \A c \in Claim : Aged(c) \in Claim /\ Aged(c).token = c.token /\ Aged(c).scopes = c.scopes
  BY TtlAssumption DEF Aged, Claim
<1>3. claims' = [t \in DOMAIN claims |-> Aged(claims[t])]
  BY DEF Tick
<1>4. IsClaimMap(claims')
  BY <1>1, <1>2, <1>3 DEF IsClaimMap
<1>5. QED
  BY <1>1, <1>2, <1>3, <1>4, AgeStep DEF Tick, IsClaimMap

\* A restart comes back with no claim at all, so nothing of the old life is held.
LEMMA RestartStep ==
  ASSUME IInv, Restart
  PROVE  IInv' /\ LeaseStep
<1>1. RestoredGeneration \in [Tasks -> Nat]
  BY DEF IInv, SoundDisk, RestoredGeneration, IsClaimMap, Claim, Token
<1>2. generation' \in [Tasks -> Nat]
  BY <1>1, BumpType DEF Restart
<1>3. SoundMaps(claims', generation', issued')
  BY <1>2, NoClaimsType DEF Restart, SoundMaps
<1>4. HeldGrants' = {}
  BY NoClaimsType DEF Restart, HeldGrants, GrantsIn
<1>5. ClaimIdsAreUnique' /\ SoundDisk'
  BY DEF Restart, IInv, ClaimIdsAreUnique, SoundDisk
<1>6. QED
  BY <1>3, <1>4, <1>5 DEF Restart, IInv, LeaseStep

LEMMA PersistStep ==
  ASSUME IInv, Persist
  PROVE  IInv' /\ LeaseStep
BY DEF Persist, IInv, SoundMaps, ClaimIdsAreUnique, SoundDisk, LeaseStep, HeldGrants

\* Every step of the authority, or none.
LEMMA NextKeepsIInv ==
  ASSUME IInv, [AuthorityNext]_authorityVars
  PROVE  IInv' /\ LeaseStep
<1>1. ASSUME NEW t \in Tasks, NEW o \in Owners, NEW lag \in Lags, MakeClaim(t, o, lag)
      PROVE  IInv' /\ LeaseStep
  <2>1. Without(claims, {}) = claims
    BY DEF IInv, SoundMaps, IsClaimMap, Without, Restrict
  <2>2. Bump(generation, {}) = generation
    BY BumpNothing DEF IInv, SoundMaps
  <2>3. DoClaim(Without(claims, {}), Bump(generation, {}), t, o, lag)
    BY <1>1, <2>1, <2>2, Zenon DEF MakeClaim
  <2>4. QED
    BY <2>3, ClaimStep
<1>2. ASSUME NEW g \in issued, NEW lag \in Lags, Renew(g.token, lag)
      PROVE  IInv' /\ LeaseStep
  BY <1>2, RenewStep
<1>3. ASSUME NEW g \in issued, Release(g.token)
      PROVE  IInv' /\ LeaseStep
  <2>1. Bump(generation, {}) = generation
    BY BumpNothing DEF IInv, SoundMaps
  <2>2. QED
    BY <1>3, <2>1, DropStep DEF Release
<1>4. ASSUME NEW t \in Tasks, Fence(t)
      PROVE  IInv' /\ LeaseStep
  BY <1>4, DropStep DEF Fence
<1>5. ASSUME NEW lag \in Lags, SweepExpired(lag)
      PROVE  IInv' /\ LeaseStep
  BY <1>5, DropStep DEF SweepExpired
<1>6. CASE Persist
  BY <1>6, PersistStep
<1>7. CASE Restart
  BY <1>7, RestartStep
<1>8. CASE Tick
  BY <1>8, TickStep
<1>9. CASE UNCHANGED authorityVars
  BY <1>9 DEF authorityVars, IInv, SoundMaps, ClaimIdsAreUnique, SoundDisk,
              LeaseStep, HeldGrants
<1>10. QED
  BY <1>1, <1>2, <1>3, <1>4, <1>5, <1>6, <1>7, <1>8, <1>9 DEF AuthorityNext

----------------------------------------------------------------------------
(* The theorems of the claim authority. *)

\* The strengthening holds in every reachable state.
THEOREM AuthorityInductive == AuthoritySpec => []IInv
<1>1. IInv /\ [AuthorityNext]_authorityVars => IInv'
  BY NextKeepsIInv
<1>2. QED
  BY <1>1, InitEstablishesIInv, PTL DEF AuthoritySpec

\* The variables of the authority keep their types.
THEOREM AuthorityTypeCorrect == AuthoritySpec => []AuthorityTypeOK
<1>1. IInv => AuthorityTypeOK
  BY DEF IInv, SoundMaps, SoundDisk, AuthorityTypeOK
<1>2. QED
  BY <1>1, AuthorityInductive, PTL

\* No two claims in the map share a mutation scope.
THEOREM ScopesAreExclusive == AuthoritySpec => []ExclusiveScopes
<1>1. IInv => ExclusiveScopes
  BY DEF IInv, SoundMaps, ExclusiveScopes
<1>2. QED
  BY <1>1, AuthorityInductive, PTL

\* A claim in the map carries the current generation of its task.
THEOREM HeldClaimIsCurrent == AuthoritySpec => []HeldGenerationIsCurrent
<1>1. IInv => HeldGenerationIsCurrent
  BY DEF IInv, SoundMaps, HeldGenerationIsCurrent
<1>2. QED
  BY <1>1, AuthorityInductive, PTL

\* A token that names a claim in the map is the token of a held grant.
LEMMA IInvRefusesStaleTokens == IInv => StaleTokensPowerless
<1> SUFFICES ASSUME IInv, NEW g \in issued, NEW lag \in Lags, Validate(g.token, lag)
             PROVE  g \in HeldGrants
  BY DEF StaleTokensPowerless
<1> DEFINE t == g.token.taskKey
<1>1. t \in DOMAIN claims /\ claims[t].token = g.token
  BY DEF Validate, Holds, Matches
<1>2. GrantOf(claims[t]) \in issued /\ GrantOf(claims[t]).token = g.token
  BY <1>1 DEF IInv, SoundMaps, GrantOf
<1>3. GrantOf(claims[t]) = g
  BY <1>2 DEF IInv, ClaimIdsAreUnique
<1>4. QED
  BY <1>1, <1>3 DEF HeldGrants, GrantsIn

\* validate accepts no token of a grant that is no longer held.
THEOREM StaleTokensAreRefused == AuthoritySpec => []StaleTokensPowerless
BY IInvRefusesStaleTokens, AuthorityInductive, PTL

\* What a step owes FencedLease makes it a step of FencedLease.
LEMMA LeaseStepRefines ==
  ASSUME IInv, IInv', LeaseStep
  PROVE  Lease!LeaseNext
<1>1. HeldGrants \subseteq issued
  BY DEF IInv, SoundMaps, HeldGrants, GrantsIn
<1>2. Lease!Exclusive(HeldGrants')
  BY DEF IInv, SoundMaps, HeldGrants, GrantsIn, GrantOf, Lease!Exclusive, Lease!Compatible
<1>3. HeldGrants' = (HeldGrants \ (HeldGrants \ HeldGrants')) \cup (HeldGrants' \ HeldGrants)
  OBVIOUS
<1>4. Lease!Exchange(HeldGrants \ HeldGrants', HeldGrants' \ HeldGrants)
  BY <1>1, <1>2, <1>3 DEF LeaseStep, Lease!Exchange
<1>5. QED
  BY <1>4 DEF Lease!LeaseNext

LEMMA NoGrantsAtFirst == AuthorityInit => Lease!LeaseInit
BY NoClaimsType DEF AuthorityInit, Lease!LeaseInit, HeldGrants, GrantsIn

\* The authority implements the abstract lease: grants exclude each other, and one
\* that was dropped never comes back.
THEOREM AuthorityImplementsLease == AuthoritySpec => ImplementsFencedLease
<1>1. ASSUME IInv, IInv', [AuthorityNext]_authorityVars
      PROVE  [Lease!LeaseNext]_(Lease!leaseVars)
  BY <1>1, NextKeepsIInv, LeaseStepRefines
<1>2. QED
  BY <1>1, NoGrantsAtFirst, AuthorityInductive, PTL
     DEF AuthoritySpec, ImplementsFencedLease, Lease!LeaseSpec

----------------------------------------------------------------------------
(* The orchestrator: its inductive invariant.  The parts about states and    *)
(* histories are facts about any pair of them, since a restart brings back   *)
(* the saved pair.                                                           *)

RepairsIn(st, t) == {r \in Repairs : r.of = t /\ st[r] # "ABSENT"}

\* Dependencies come first, and a task whose budget is spent has failed.
SoundTasks(st, hs) ==
  /\ st \in [Tasks -> TaskStates]
  /\ hs \in [Tasks -> History]
  /\ \A t, d \in Tasks : d \in DependenciesOf(t) /\ st[t] \in Started => st[d] = "ACCEPTED"
  /\ \A t \in Tasks : hs[t].breakerOpen => st[t] = "FAILED"

\* The repairs of a task are numbered within the budget, and while it is not accepted the
\* next failure has a number of its own.
NumberedRepairs(st, hs) ==
  \A t \in Tasks :
    /\ \A r \in RepairsIn(st, t) :
         /\ r.attempt \in 1..(MaxAttempts - 1)
         /\ st[t] # "ACCEPTED" => r.attempt <= hs[t].attempts
    /\ \A r, s \in RepairsIn(st, t) : r.attempt = s.attempt => r = s

OInv ==
  /\ IInv
  /\ ClaimedIffHeld
  /\ SoundTasks(state, history) /\ NumberedRepairs(state, history)
  /\ saved = [state |-> saved.state, history |-> saved.history]
  /\ SoundTasks(saved.state, saved.history) /\ NumberedRepairs(saved.state, saved.history)

----------------------------------------------------------------------------
(* Histories, dependencies and sweeps. *)

LEMMA FreshIsHistory == Fresh \in History /\ ~Fresh.breakerOpen /\ Fresh.attempts = 0
BY DEF Fresh, History

\* decide leaves a history, and never one with fewer attempts.
LEMMA HistoryAfterType ==
  ASSUME NEW h \in History, NEW v \in Verification
  PROVE  HistoryAfter(h, v) \in History /\ HistoryAfter(h, v).attempts >= h.attempts
<1>1. CASE h.breakerOpen
  BY <1>1 DEF HistoryAfter, History
<1>2. CASE ~h.breakerOpen /\ v.verdict = "ACCEPT"
  <2>1. HistoryAfter(h, v) = Accepted(h)
    BY <1>2 DEF HistoryAfter
  <2>2. Accepted(h) \in History /\ Accepted(h).attempts = h.attempts
    BY DEF Accepted, History
  <2>3. QED
    BY <2>1, <2>2 DEF History
<1>3. CASE ~h.breakerOpen /\ v.verdict = "REPAIR"
  <2>1. HistoryAfter(h, v) = Counted(h, v.failure)
    BY <1>3 DEF HistoryAfter
  <2>2. v.failure \in Failures /\ h.attempts \in Nat /\ h.sameFailure \in Nat
    BY <1>3 DEF Verification, History
  <2>3. SameFailure(h, v.failure) \in Nat
    BY <2>2 DEF SameFailure
  <2>4. (h.attempts + 1 >= MaxAttempts \/ SameFailure(h, v.failure) >= BreakerThreshold) \in BOOLEAN
    OBVIOUS
  <2>5. Counted(h, v.failure) \in History /\ Counted(h, v.failure).attempts = h.attempts + 1
    BY <2>2, <2>3, <2>4 DEF Counted, History
  <2>6. QED
    BY <2>1, <2>2, <2>5
<1>4. CASE ~h.breakerOpen /\ v.verdict # "ACCEPT" /\ v.verdict # "REPAIR"
  BY <1>4 DEF HistoryAfter, History
<1>5. QED
  BY <1>1, <1>2, <1>3, <1>4

\* Only the answer TERMINATE leaves an open breaker behind.
LEMMA BreakerTerminates ==
  ASSUME NEW h \in History, NEW v \in Verification, HistoryAfter(h, v).breakerOpen
  PROVE  ActionFor(h, v) = "TERMINATE"
<1>1. CASE h.breakerOpen
  BY <1>1 DEF ActionFor
<1>2. CASE ~h.breakerOpen /\ v.verdict = "ACCEPT"
  BY <1>2 DEF HistoryAfter, Accepted, History
<1>3. CASE ~h.breakerOpen /\ v.verdict = "REPAIR"
  BY <1>3 DEF HistoryAfter, ActionFor
<1>4. CASE ~h.breakerOpen /\ v.verdict # "ACCEPT" /\ v.verdict # "REPAIR"
  BY <1>4 DEF HistoryAfter
<1>5. QED
  BY <1>1, <1>2, <1>3, <1>4

\* A granted repair has the number of the failure, within the budget.
LEMMA RetryIsNumbered ==
  ASSUME NEW h \in History, NEW v \in Verification, ActionFor(h, v) = "RETRY_REPAIR"
  PROVE  /\ HistoryAfter(h, v).attempts = h.attempts + 1
         /\ h.attempts + 1 \in 1..(MaxAttempts - 1)
<1>1. ~h.breakerOpen /\ v.verdict = "REPAIR" /\ ~Counted(h, v.failure).breakerOpen
  BY DEF ActionFor
<1>2. HistoryAfter(h, v) = Counted(h, v.failure)
  BY <1>1 DEF HistoryAfter
<1>3. Counted(h, v.failure).attempts = h.attempts + 1 /\ ~(h.attempts + 1 >= MaxAttempts)
  BY <1>1 DEF Counted
<1>4. h.attempts \in Nat /\ MaxAttempts \in Nat
  BY BudgetAssumption DEF History
<1>5. QED
  BY <1>2, <1>3, <1>4

\* isExecutable: the dependencies are accepted.
LEMMA ExecutableIsReady ==
  ASSUME NEW st \in [Tasks -> TaskStates], NEW t \in Tasks, Executable(st, t)
  PROVE  st[t] \in {"PLANNED", "READY"} /\ \A d \in DependenciesOf(t) : st[d] = "ACCEPTED"
<1> DEFINE g == GraphOf(st)
<1>1. t \in Present(st) /\ Graph!IsExecutable(g, t)
  BY DEF Executable
<1>2. DOMAIN g = Present(st)
      /\ \A u \in Present(st) : g[u].state = st[u] /\ g[u].dependencies = DependenciesOf(u)
  BY DEF GraphOf
<1>3. /\ \A d \in g[t].dependencies : Graph!IsAccepted(g, d)
      /\ g[t].state \in {"PLANNED", "READY"}
  BY <1>1 DEF Graph!IsExecutable
<1> HIDE DEF g
<1>4. \A d \in g[t].dependencies : d \in DOMAIN g /\ g[d].state = "ACCEPTED"
  BY <1>3 DEF Graph!IsAccepted
<1>5. QED
  BY <1>1, <1>2, <1>3, <1>4

\* A sweep takes CLAIMED tasks back and touches no other.
LEMMA SweptType ==
  ASSUME state \in [Tasks -> TaskStates], NEW S
  PROVE  /\ Swept(S) \in [Tasks -> TaskStates]
         /\ \A t \in Tasks : /\ state[t] # "CLAIMED" \/ t \notin S => Swept(S)[t] = state[t]
                             /\ state[t] = "CLAIMED" /\ t \in S => Swept(S)[t] \in {"READY", "BLOCKED"}
BY DEF Swept, RecoveredState, TaskStates

----------------------------------------------------------------------------
(* Moves of the states and the histories. *)

\* Accepted tasks stay accepted, no task starts before its dependencies, and a task whose
\* budget is spent has failed.
SoundMove(st, st2, hs2) ==
  /\ st2 \in [Tasks -> TaskStates]
  /\ hs2 \in [Tasks -> History]
  /\ \A t \in Tasks : st[t] = "ACCEPTED" => st2[t] = "ACCEPTED"
  /\ \A t \in Tasks : st2[t] \in Started =>
       st[t] \in Started \/ \A d \in Tasks \cap DependenciesOf(t) : st[d] = "ACCEPTED"
  /\ \A t \in Tasks : hs2[t].breakerOpen => st2[t] = "FAILED"

\* No history loses an attempt but that of an accepted task, and no repair appears.
NumberedMove(st, hs, st2, hs2) ==
  /\ hs2 \in [Tasks -> History]
  /\ \A t \in Tasks : st[t] = "ACCEPTED" => st2[t] = "ACCEPTED"
  /\ \A t \in Tasks : st2[t] = "ACCEPTED" \/ hs2[t].attempts >= hs[t].attempts
  /\ \A r \in Repairs : st[r] = "ABSENT" => st2[r] = "ABSENT"

LEMMA MoveKeepsSound ==
  ASSUME NEW st, NEW hs, SoundTasks(st, hs), NEW st2, NEW hs2, SoundMove(st, st2, hs2)
  PROVE  SoundTasks(st2, hs2)
BY DEF SoundTasks, SoundMove

LEMMA MoveKeepsNumbers ==
  ASSUME NEW st, NEW hs, SoundTasks(st, hs), NumberedRepairs(st, hs),
         NEW st2, NEW hs2, NumberedMove(st, hs, st2, hs2)
  PROVE  NumberedRepairs(st2, hs2)
<1>1. \A t \in Tasks : RepairsIn(st2, t) \subseteq RepairsIn(st, t)
  BY DEF RepairsIn, NumberedMove
<1>2. \A t \in Tasks : hs[t].attempts \in Nat /\ hs2[t].attempts \in Nat
  BY DEF SoundTasks, NumberedMove, History
<1>3. ASSUME NEW t \in Tasks, NEW r \in RepairsIn(st2, t)
      PROVE  /\ r.attempt \in 1..(MaxAttempts - 1)
             /\ st2[t] # "ACCEPTED" => r.attempt <= hs2[t].attempts
  <2>1. r.attempt \in 1..(MaxAttempts - 1) /\ (st[t] # "ACCEPTED" => r.attempt <= hs[t].attempts)
    BY <1>1, <1>3 DEF NumberedRepairs
  <2>2. MaxAttempts \in Nat
    BY BudgetAssumption
  <2>3. QED
    BY <1>2, <2>1, <2>2 DEF NumberedMove
<1>4. QED
  BY <1>1, <1>3 DEF NumberedRepairs

----------------------------------------------------------------------------
(* What completions have in common. *)

\* The task of a token that validates is CLAIMED, and its budget is not spent.
LEMMA ValidatedIsClaimed ==
  ASSUME OInv, NEW g \in issued, NEW lag \in Lags, Validate(g.token, lag)
  PROVE  /\ g.task \in Tasks /\ g.task = g.token.taskKey
         /\ g.task \in DOMAIN claims /\ state[g.task] = "CLAIMED"
         /\ ~history[g.task].breakerOpen
<1>1. g.task \in Tasks /\ g.task = g.token.taskKey
  BY DEF OInv, IInv, ClaimIdsAreUnique, Grant
<1>2. g.task \in DOMAIN claims
  BY <1>1 DEF Validate, Holds
<1>3. state[g.task] = "CLAIMED"
  BY <1>1, <1>2 DEF OInv, ClaimedIffHeld
<1>4. ~history[g.task].breakerOpen
  BY <1>1, <1>3 DEF OInv, SoundTasks
<1>5. QED
  BY <1>1, <1>2, <1>3, <1>4

LEMMA ReleasedStep ==
  ASSUME IInv, NEW g \in issued, Release(g.token), g.task = g.token.taskKey
  PROVE  IInv' /\ LeaseStep /\ DOMAIN claims' = DOMAIN claims \ {g.task}
<1>1. [AuthorityNext]_authorityVars
  BY DEF AuthorityNext
<1>2. IsClaimMap(claims) /\ claims' = Without(claims, {g.task})
  BY DEF Release, IInv, SoundMaps
<1>3. DOMAIN claims' = DOMAIN claims \ {g.task}
  BY <1>2, WithoutType
<1>4. QED
  BY <1>1, <1>3, NextKeepsIInv

\* A completion releases the claim and counts the failure; st is what it makes of the states.
LEMMA CompletesStep ==
  ASSUME OInv, NEW g \in issued, NEW v \in Verification, NEW lag \in Lags, NEW action,
         Completes(g, v, lag, action),
         state' \in [Tasks -> TaskStates], state'[g.task] # "CLAIMED",
         \A t \in Tasks \ {g.task} : state'[t] = "CLAIMED" <=> state[t] = "CLAIMED"
  PROVE  /\ IInv' /\ LeaseStep /\ ClaimedIffHeld'
         /\ history' \in [Tasks -> History] /\ saved' = saved
         /\ history'[g.task] = HistoryAfter(history[g.task], v)
         /\ \A t \in Tasks \ {g.task} : history'[t] = history[t]
         /\ \A t \in Tasks : history'[t].attempts >= history[t].attempts
<1>1. /\ g.task \in Tasks /\ g.task = g.token.taskKey
      /\ g.task \in DOMAIN claims /\ state[g.task] = "CLAIMED"
  BY ValidatedIsClaimed DEF Completes
<1>2. IInv' /\ LeaseStep /\ DOMAIN claims' = DOMAIN claims \ {g.task}
  BY <1>1, ReleasedStep DEF Completes, OInv
<1>3. ClaimedIffHeld'
  BY <1>2 DEF ClaimedIffHeld, OInv
<1>4. history \in [Tasks -> History]
      /\ history' = [history EXCEPT ![g.task] = HistoryAfter(@, v)]
  BY DEF Completes, OInv, SoundTasks
<1>5. /\ HistoryAfter(history[g.task], v) \in History
      /\ HistoryAfter(history[g.task], v).attempts >= history[g.task].attempts
  BY <1>1, <1>4, HistoryAfterType
<1>6. \A t \in Tasks : history[t].attempts \in Nat
  BY <1>4 DEF History
<1>7. /\ history' \in [Tasks -> History]
      /\ history'[g.task] = HistoryAfter(history[g.task], v)
      /\ \A t \in Tasks \ {g.task} : history'[t] = history[t]
  BY <1>1, <1>4, <1>5
<1>8. \A t \in Tasks : history'[t].attempts >= history[t].attempts
  BY <1>1, <1>5, <1>6, <1>7
<1>9. QED
  BY <1>2, <1>3, <1>7, <1>8 DEF Completes

\* Accept, RefuseMerge, Escalate and Terminate: only the state of the task changes.
LEMMA SettledStep ==
  ASSUME OInv, NEW g \in issued, NEW v \in Verification, NEW lag \in Lags,
         NEW action, NEW s \in {"ACCEPTED", "BLOCKED", "FAILED"},
         Completes(g, v, lag, action), action = "TERMINATE" => s = "FAILED",
         state' = [state EXCEPT ![g.task] = s]
  PROVE  OInv' /\ LeaseStep
<1>1. /\ g.task \in Tasks /\ state[g.task] = "CLAIMED"
      /\ ActionFor(history[g.task], v) = action
  BY ValidatedIsClaimed DEF Completes
<1>2. SoundTasks(state, history) /\ NumberedRepairs(state, history)
      /\ state \in [Tasks -> TaskStates] /\ history \in [Tasks -> History]
  BY DEF OInv, SoundTasks
<1>3. /\ state' \in [Tasks -> TaskStates] /\ state'[g.task] = s
      /\ \A t \in Tasks \ {g.task} : state'[t] = state[t]
  BY <1>1, <1>2 DEF TaskStates
<1>4. /\ IInv' /\ LeaseStep /\ ClaimedIffHeld'
      /\ history' \in [Tasks -> History] /\ saved' = saved
      /\ history'[g.task] = HistoryAfter(history[g.task], v)
      /\ \A t \in Tasks \ {g.task} : history'[t] = history[t]
      /\ \A t \in Tasks : history'[t].attempts >= history[t].attempts
  BY <1>3, CompletesStep
<1>5. \A t \in Tasks : history'[t].breakerOpen => state'[t] = "FAILED"
  <2>1. history'[g.task].breakerOpen => s = "FAILED"
    BY <1>1, <1>2, <1>4, BreakerTerminates
  <2>2. QED
    BY <1>2, <1>3, <1>4, <2>1 DEF SoundTasks
<1>6. \A t \in Tasks : state[t] = "ACCEPTED" => state'[t] = "ACCEPTED"
  BY <1>1, <1>3
<1>7. \A t \in Tasks : state'[t] \in Started => state[t] \in Started
  BY <1>1, <1>3 DEF Started
<1>8. \A r \in Repairs : state[r] = "ABSENT" => state'[r] = "ABSENT"
  BY <1>1, <1>3 DEF Repairs
<1>9. SoundMove(state, state', history')
  BY <1>3, <1>4, <1>5, <1>6, <1>7 DEF SoundMove
<1>10. NumberedMove(state, history, state', history')
  BY <1>4, <1>6, <1>8 DEF NumberedMove
<1>11. QED
  BY <1>2, <1>4, <1>9, <1>10, MoveKeepsSound, MoveKeepsNumbers DEF OInv

\* A repair r of t appears with the number of the failure that was counted.
RepairMove(st, hs, st2, hs2, t, r) ==
  /\ hs2 \in [Tasks -> History]
  /\ r.of = t /\ r.attempt = hs[t].attempts + 1 /\ r.attempt \in 1..(MaxAttempts - 1)
  /\ hs2[t].attempts = r.attempt
  /\ \A u \in Tasks : hs2[u].attempts >= hs[u].attempts
  /\ \A u \in Tasks : st[u] = "ACCEPTED" => st2[u] = "ACCEPTED"
  /\ \A u \in Tasks \ {r} : st[u] = "ABSENT" => st2[u] = "ABSENT"

\* A new repair has a number no repair of the task had.
LEMMA NewRepairIsNumbered ==
  ASSUME NEW st, NEW hs, SoundTasks(st, hs), NumberedRepairs(st, hs),
         NEW t \in Tasks, st[t] # "ACCEPTED", NEW r \in Tasks,
         NEW st2, NEW hs2, RepairMove(st, hs, st2, hs2, t, r)
  PROVE  NumberedRepairs(st2, hs2)
<1> DEFINE n == hs[t].attempts + 1
<1>1. /\ r.of = t /\ r.attempt = n /\ n \in 1..(MaxAttempts - 1) /\ hs2[t].attempts = n
      /\ hs2 \in [Tasks -> History]
      /\ \A u \in Tasks : hs2[u].attempts >= hs[u].attempts
      /\ \A u \in Tasks : st[u] = "ACCEPTED" => st2[u] = "ACCEPTED"
      /\ \A u \in Tasks \ {r} : st[u] = "ABSENT" => st2[u] = "ABSENT"
  BY DEF RepairMove
<1>2. /\ \A u \in Tasks \ {t} : RepairsIn(st2, u) \subseteq RepairsIn(st, u)
      /\ RepairsIn(st2, t) \subseteq RepairsIn(st, t) \cup {r}
  BY <1>1 DEF RepairsIn, Repairs
<1>3. \A u \in Tasks : hs[u].attempts \in Nat /\ hs2[u].attempts \in Nat
  BY <1>1 DEF SoundTasks, History
<1>4. MaxAttempts \in Nat
  BY BudgetAssumption
<1>5. \A s \in RepairsIn(st, t) : s.attempt \in Nat /\ s.attempt < n
  BY <1>3, <1>4 DEF NumberedRepairs
<1>6. ASSUME NEW u \in Tasks, NEW s \in RepairsIn(st2, u)
      PROVE  /\ s.attempt \in 1..(MaxAttempts - 1)
             /\ st2[u] # "ACCEPTED" => s.attempt <= hs2[u].attempts
  <2>1. CASE s \in RepairsIn(st, u)
    <3>1. s.attempt \in 1..(MaxAttempts - 1) /\ (st[u] # "ACCEPTED" => s.attempt <= hs[u].attempts)
      BY <2>1 DEF NumberedRepairs
    <3>2. QED
      BY <1>1, <1>3, <1>4, <3>1
  <2>2. CASE s \notin RepairsIn(st, u)
    <3>1. u = t /\ s = r
      BY <1>2, <1>6, <2>2
    <3>2. QED
      BY <1>1, <1>4, <3>1
  <2>3. QED
    BY <2>1, <2>2
<1>7. ASSUME NEW u \in Tasks, NEW s \in RepairsIn(st2, u), NEW w \in RepairsIn(st2, u),
             s.attempt = w.attempt
      PROVE  s = w
  <2>1. CASE s \in RepairsIn(st, u) /\ w \in RepairsIn(st, u)
    BY <1>7, <2>1 DEF NumberedRepairs
  <2>2. CASE ~(s \in RepairsIn(st, u) /\ w \in RepairsIn(st, u))
    <3>1. u = t /\ (s = r \/ w = r)
      BY <1>2, <1>7, <2>2
    <3>2. s \in RepairsIn(st, t) \cup {r} /\ w \in RepairsIn(st, t) \cup {r}
      BY <1>2, <1>7, <3>1
    <3>3. QED
      BY <1>1, <1>4, <1>5, <1>7, <3>1, <3>2
  <2>3. QED
    BY <2>1, <2>2
<1>8. QED
  BY <1>6, <1>7 DEF NumberedRepairs

LEMMA CreateRepairStep ==
  ASSUME OInv, NEW g \in issued, NEW v \in Verification, NEW lag \in Lags, CreateRepair(g, v, lag)
  PROVE  OInv' /\ LeaseStep
<1> DEFINE t == g.task
           r == RepairFor(t, v)
           n == history[t].attempts + 1
<1>1. /\ t \in Tasks /\ state[t] = "CLAIMED"
      /\ Completes(g, v, lag, "RETRY_REPAIR") /\ ActionFor(history[t], v) = "RETRY_REPAIR"
      /\ r \in Tasks
  BY ValidatedIsClaimed DEF CreateRepair, Completes
<1>2. SoundTasks(state, history) /\ NumberedRepairs(state, history)
      /\ state \in [Tasks -> TaskStates] /\ history \in [Tasks -> History]
  BY DEF OInv, SoundTasks
<1>3. HistoryAfter(history[t], v).attempts = n /\ n \in 1..(MaxAttempts - 1)
  BY <1>1, <1>2, RetryIsNumbered
<1>4. r = RepairKey(t, n, HeadlineOf[v.failure])
  BY <1>3 DEF RepairFor
<1> HIDE DEF r, n
<1>5. state' = [state EXCEPT ![t] = "BLOCKED", ![r] = IF @ = "ABSENT" THEN "READY" ELSE @]
  BY DEF CreateRepair, r
<1>6. /\ state' \in [Tasks -> TaskStates]
      /\ state'[t] \in {"BLOCKED"}
      /\ \A u \in Tasks \ {t} :
           state'[u] = IF u = r /\ state[u] = "ABSENT" THEN "READY" ELSE state[u]
  BY <1>1, <1>2, <1>5 DEF TaskStates
<1>7. \A u \in Tasks \ {t} : state'[u] = "CLAIMED" <=> state[u] = "CLAIMED"
  BY <1>6
<1>8. /\ IInv' /\ LeaseStep /\ ClaimedIffHeld'
      /\ history' \in [Tasks -> History] /\ saved' = saved
      /\ history'[t] = HistoryAfter(history[t], v)
      /\ \A u \in Tasks \ {t} : history'[u] = history[u]
      /\ \A u \in Tasks : history'[u].attempts >= history[u].attempts
  BY <1>1, <1>6, <1>7, CompletesStep
<1>9. \A u \in Tasks : history'[u].breakerOpen => state'[u] = "FAILED"
  <2>1. ~history'[t].breakerOpen
    BY <1>1, <1>2, <1>8, BreakerTerminates
  <2>2. \A u \in Tasks \ {t} : history[u].breakerOpen => state[u] = "FAILED"
    BY <1>2 DEF SoundTasks
  <2>3. QED
    BY <1>6, <1>8, <2>1, <2>2
<1>10. \A u \in Tasks : state[u] = "ACCEPTED" => state'[u] = "ACCEPTED"
  BY <1>1, <1>6
<1>11. \A u \in Tasks : state'[u] \in Started => state[u] \in Started
  BY <1>1, <1>6 DEF Started
<1>12. \A u \in Tasks \ {r} : state[u] = "ABSENT" => state'[u] = "ABSENT"
  BY <1>1, <1>6
<1>13. SoundMove(state, state', history')
  BY <1>6, <1>8, <1>9, <1>10, <1>11 DEF SoundMove
<1>14. NumberedRepairs(state', history')
  <2>1. r.of = t /\ r.attempt = n
    BY <1>4 DEF RepairKey
  <2>2. RepairMove(state, history, state', history', t, r)
    BY <1>3, <1>8, <1>10, <1>12, <2>1 DEF RepairMove, n
  <2>3. QED
    BY <1>1, <1>2, <2>2, NewRepairIsNumbered
<1>15. QED
  BY <1>2, <1>8, <1>13, <1>14, MoveKeepsSound DEF OInv

\* The repair that graph.add refuses: the failure is counted and the claim stays.
LEMMA RefusedRepairStep ==
  ASSUME OInv, NEW g \in issued, NEW v \in Verification, NEW lag \in Lags,
         FailOnDuplicateRepair(g, v, lag)
  PROVE  OInv' /\ LeaseStep
<1> DEFINE t == g.task
<1>1. t \in Tasks /\ state[t] = "CLAIMED" /\ ActionFor(history[t], v) = "RETRY_REPAIR"
  BY ValidatedIsClaimed DEF FailOnDuplicateRepair
<1>2. SoundTasks(state, history) /\ NumberedRepairs(state, history)
      /\ state \in [Tasks -> TaskStates] /\ history \in [Tasks -> History]
  BY DEF OInv, SoundTasks
<1>3. /\ history' = [history EXCEPT ![t] = HistoryAfter(@, v)]
      /\ UNCHANGED <<authorityVars, state, saved>>
  BY DEF FailOnDuplicateRepair
<1>4. /\ HistoryAfter(history[t], v) \in History
      /\ HistoryAfter(history[t], v).attempts >= history[t].attempts
      /\ ~HistoryAfter(history[t], v).breakerOpen
  BY <1>1, <1>2, HistoryAfterType, BreakerTerminates
<1>5. IInv' /\ LeaseStep
  BY <1>3, NextKeepsIInv DEF OInv
<1>6. /\ history' \in [Tasks -> History]
      /\ history'[t] = HistoryAfter(history[t], v)
      /\ \A u \in Tasks \ {t} : history'[u] = history[u]
  BY <1>1, <1>2, <1>3, <1>4
<1>7. \A u \in Tasks : history'[u].attempts >= history[u].attempts
  BY <1>2, <1>4, <1>6 DEF History
<1>8. \A u \in Tasks : history'[u].breakerOpen => state[u] = "FAILED"
  BY <1>2, <1>4, <1>6 DEF SoundTasks
<1>9. SoundMove(state, state, history') /\ NumberedMove(state, history, state, history')
  BY <1>2, <1>6, <1>7, <1>8 DEF SoundMove, NumberedMove
<1>10. ClaimedIffHeld'
  BY <1>3 DEF ClaimedIffHeld, OInv, authorityVars
<1>11. QED
  BY <1>2, <1>3, <1>5, <1>9, <1>10, MoveKeepsSound, MoveKeepsNumbers DEF OInv

----------------------------------------------------------------------------
(* The other operations: the histories stay, or come back with the snapshot. *)

StatesMove(st, st2) ==
  /\ st2 \in [Tasks -> TaskStates]
  /\ \A t \in Tasks : st[t] \in {"ACCEPTED", "FAILED"} => st2[t] = st[t]
  /\ \A t \in Tasks : st2[t] \in Started =>
       st[t] \in Started \/ \A d \in Tasks \cap DependenciesOf(t) : st[d] = "ACCEPTED"
  /\ \A r \in Repairs : st[r] = "ABSENT" => st2[r] = "ABSENT"

LEMMA StatesMoveKeeps ==
  ASSUME NEW st, NEW hs, SoundTasks(st, hs), NumberedRepairs(st, hs),
         NEW st2, StatesMove(st, st2)
  PROVE  SoundTasks(st2, hs) /\ NumberedRepairs(st2, hs)
<1>1. hs \in [Tasks -> History]
  BY DEF SoundTasks
<1>2. \A t \in Tasks : hs[t].attempts >= hs[t].attempts
  BY <1>1 DEF History
<1>3. SoundMove(st, st2, hs)
  BY <1>1 DEF SoundMove, StatesMove, SoundTasks
<1>4. NumberedMove(st, hs, st2, hs)
  BY <1>1, <1>2 DEF NumberedMove, StatesMove
<1>5. QED
  BY <1>3, <1>4, MoveKeepsSound, MoveKeepsNumbers

LEMMA StatesStep ==
  ASSUME OInv, IInv', ClaimedIffHeld', UNCHANGED <<history, saved>>, StatesMove(state, state')
  PROVE  OInv'
BY StatesMoveKeeps DEF OInv

LEMMA IngestStep ==
  ASSUME OInv, NEW t \in Roots, Ingest(t)
  PROVE  OInv' /\ LeaseStep
<1>1. t \in Tasks /\ t \notin Repairs /\ state \in [Tasks -> TaskStates]
  BY TasksAssumption DEF Repairs, OInv, SoundTasks
<1>2. state[t] = "ABSENT" /\ state' = [state EXCEPT ![t] = "PLANNED"]
      /\ UNCHANGED <<authorityVars, history, saved>>
  BY DEF Ingest
<1>3. IInv' /\ LeaseStep
  BY <1>2, NextKeepsIInv DEF OInv
<1>4. ClaimedIffHeld'
  BY <1>1, <1>2 DEF ClaimedIffHeld, OInv, authorityVars
<1>5. StatesMove(state, state')
  BY <1>1, <1>2 DEF StatesMove, TaskStates, Started
<1>6. QED
  BY <1>2, <1>3, <1>4, <1>5, StatesStep

\* What a sweep does, before a dispatch and by itself.
LEMMA SweptMoves ==
  ASSUME OInv, NEW lag \in Lags
  PROVE  LET S == Expired(claims, lag) IN
         /\ S \subseteq DOMAIN claims
         /\ DOMAIN Without(claims, S) = DOMAIN claims \ S
         /\ StatesMove(state, Swept(S))
         /\ \A t \in Tasks : Swept(S)[t] = "CLAIMED" <=> t \in DOMAIN Without(claims, S)
         /\ \A t \in Tasks : Swept(S)[t] = "ACCEPTED" => state[t] = "ACCEPTED"
<1> DEFINE S == Expired(claims, lag)
<1>1. S \subseteq DOMAIN claims /\ IsClaimMap(claims) /\ state \in [Tasks -> TaskStates]
  BY DEF Expired, OInv, IInv, SoundMaps, SoundTasks
<1>2. DOMAIN Without(claims, S) = DOMAIN claims \ S
  BY <1>1, WithoutType
<1> HIDE DEF S
<1>3. /\ Swept(S) \in [Tasks -> TaskStates]
      /\ \A t \in Tasks : /\ state[t] # "CLAIMED" \/ t \notin S => Swept(S)[t] = state[t]
                          /\ state[t] = "CLAIMED" /\ t \in S => Swept(S)[t] \in {"READY", "BLOCKED"}
  BY <1>1, SweptType
<1>4. \A t \in Tasks : state[t] = "CLAIMED" <=> t \in DOMAIN claims
  BY DEF OInv, ClaimedIffHeld
<1>5. StatesMove(state, Swept(S))
  BY <1>1, <1>3 DEF StatesMove, Started, Repairs
<1>6. QED
  BY <1>1, <1>2, <1>3, <1>4, <1>5 DEF S

LEMMA RecoverExpiredStep ==
  ASSUME OInv, NEW lag \in Lags, RecoverExpired(lag)
  PROVE  OInv' /\ LeaseStep
<1> DEFINE S == Expired(claims, lag)
<1>1. SweepExpired(lag) /\ state' = Swept(S) /\ UNCHANGED <<history, saved>>
  BY DEF RecoverExpired
<1>2. IInv' /\ LeaseStep
  BY <1>1, NextKeepsIInv DEF OInv, AuthorityNext
<1>3. claims' = Without(claims, S)
  BY <1>1 DEF SweepExpired
<1>4. StatesMove(state, state') /\ ClaimedIffHeld'
  BY <1>1, <1>3, SweptMoves DEF ClaimedIffHeld
<1>5. QED
  BY <1>1, <1>2, <1>4, StatesStep

\* The states a dispatch leaves: one executable task of the swept graph is started.
LEMMA StartedMoves ==
  ASSUME OInv, NEW lag \in Lags, NEW t \in Tasks, Executable(Swept(Expired(claims, lag)), t),
         NEW s \in {"CLAIMED", "BLOCKED"},
         state' = [Swept(Expired(claims, lag)) EXCEPT ![t] = s]
  PROVE  StatesMove(state, state')
<1> DEFINE sw == Swept(Expired(claims, lag))
<1>1. StatesMove(state, sw) /\ \A u \in Tasks : sw[u] = "ACCEPTED" => state[u] = "ACCEPTED"
  BY SweptMoves
<1> HIDE DEF sw
<1>2. sw \in [Tasks -> TaskStates]
  BY <1>1 DEF StatesMove
<1>3. sw[t] \in {"PLANNED", "READY"} /\ \A d \in DependenciesOf(t) : sw[d] = "ACCEPTED"
  BY <1>2, ExecutableIsReady DEF sw
<1>4. state' = [sw EXCEPT ![t] = s]
  BY DEF sw
<1>5. \A u \in Tasks : state'[u] = IF u = t THEN s ELSE sw[u]
  BY <1>2, <1>4
<1>6. state' \in [Tasks -> TaskStates]
  BY <1>2, <1>4 DEF TaskStates
<1>7. state[t] \notin {"ACCEPTED", "FAILED"} /\ (t \in Repairs => state[t] # "ABSENT")
  BY <1>1, <1>3 DEF StatesMove
<1>8. \A d \in Tasks \cap DependenciesOf(t) : state[d] = "ACCEPTED"
  BY <1>1, <1>3
<1>9. \A u \in Tasks : state[u] \in {"ACCEPTED", "FAILED"} => state'[u] = state[u]
  BY <1>1, <1>5, <1>7 DEF StatesMove
<1>10. \A u \in Tasks : state'[u] \in Started =>
         state[u] \in Started \/ \A d \in Tasks \cap DependenciesOf(u) : state[d] = "ACCEPTED"
  <2>1. SUFFICES ASSUME NEW u \in Tasks \ {t}, state'[u] \in Started
                 PROVE  state[u] \in Started
                          \/ \A d \in Tasks \cap DependenciesOf(u) : state[d] = "ACCEPTED"
    BY <1>8
  <2>2. sw[u] \in Started
    BY <1>5, <2>1
  <2>3. QED
    BY <1>1, <2>2 DEF StatesMove
<1>11. \A r \in Repairs : state[r] = "ABSENT" => state'[r] = "ABSENT"
  <2>1. SUFFICES ASSUME NEW r \in Repairs, state[r] = "ABSENT" PROVE state'[r] = "ABSENT"
    OBVIOUS
  <2>2. r \in Tasks /\ r # t /\ sw[r] = "ABSENT"
    BY <1>1, <1>7, <2>1 DEF StatesMove, Repairs
  <2>3. QED
    BY <1>5, <2>2
<1>12. QED
  BY <1>6, <1>9, <1>10, <1>11 DEF StatesMove

LEMMA DispatchStep ==
  ASSUME OInv, NEW t \in Tasks, NEW o \in Owners, NEW lag \in Lags, Dispatch(t, o, lag)
  PROVE  OInv' /\ LeaseStep
<1> DEFINE S  == Expired(claims, lag)
           cs == Without(claims, S)
           new == NewClaim(Bump(generation, S), t, o, lag)
<1>1. /\ Executable(Swept(S), t) /\ DoClaim(cs, Bump(generation, S), t, o, lag)
      /\ state' = [Swept(S) EXCEPT ![t] = "CLAIMED"] /\ UNCHANGED <<history, saved>>
  BY DEF Dispatch
<1>2. /\ S \subseteq DOMAIN claims
      /\ \A u \in Tasks : Swept(S)[u] = "CLAIMED" <=> u \in DOMAIN cs
      /\ Swept(S) \in [Tasks -> TaskStates]
  BY SweptMoves DEF StatesMove
<1>3. IInv' /\ LeaseStep
  BY <1>1, <1>2, ClaimStep DEF OInv
<1>4. StatesMove(state, state')
  BY <1>1, StartedMoves
<1>5. DOMAIN claims' = DOMAIN cs \cup {t}
  <2>1. claims' = With(cs, t, new)
    BY <1>1 DEF DoClaim
  <2>2. QED
    BY <2>1 DEF With
<1>6. ClaimedIffHeld'
  <2> HIDE DEF S, cs
  <2>1. QED
    BY <1>1, <1>2, <1>5 DEF ClaimedIffHeld
<1>7. QED
  BY <1>1, <1>3, <1>4, <1>6, StatesStep

\* The claim of a task that finds no model leaves nothing but a generation.
LEMMA DispatchWithoutModelStep ==
  ASSUME OInv, NEW t \in Tasks, NEW lag \in Lags, DispatchWithoutModel(t, lag)
  PROVE  OInv' /\ LeaseStep
<1> DEFINE S   == Expired(claims, lag)
           cs  == Without(claims, S)
           gen == Bump(generation, S)
<1>1. /\ Executable(Swept(S), t) /\ Claimable(cs, t)
      /\ claims' = cs /\ generation' = Bump(gen, {t})
      /\ state' = [Swept(S) EXCEPT ![t] = "BLOCKED"]
      /\ UNCHANGED <<minted, issued, disk, history, saved>>
  BY DEF DispatchWithoutModel
<1>2. /\ \A u \in Tasks : Swept(S)[u] = "CLAIMED" <=> u \in DOMAIN cs
      /\ Swept(S) \in [Tasks -> TaskStates]
  BY SweptMoves DEF StatesMove
<1>3. SoundMaps(cs, gen, issued)
  BY DropKeepsSound DEF OInv, IInv
<1>4. t \notin DOMAIN cs
  BY <1>1 DEF Claimable
<1>5. GrantsIn(cs) \subseteq HeldGrants
  BY WithoutGrants DEF OInv, IInv, SoundMaps, HeldGrants
<1> HIDE DEF S, cs, gen
<1>6. SoundMaps(cs, Bump(gen, {t}), issued)
  <2>1. Bump(gen, {t}) \in [Tasks -> Nat]
    BY <1>3, BumpType DEF SoundMaps
  <2>2. \A u \in DOMAIN cs : Bump(gen, {t})[u] = gen[u]
    BY <1>3, <1>4 DEF Bump, SoundMaps, IsClaimMap
  <2>3. QED
    BY <1>3, <2>1, <2>2 DEF SoundMaps
<1>7. HeldGrants' = GrantsIn(cs)
  BY <1>1 DEF HeldGrants
<1>8. IInv' /\ LeaseStep
  BY <1>1, <1>5, <1>6, <1>7 DEF OInv, IInv, ClaimIdsAreUnique, SoundDisk, LeaseStep
<1>9. StatesMove(state, state')
  BY <1>1, StartedMoves DEF S
<1>10. ClaimedIffHeld'
  BY <1>1, <1>2, <1>4 DEF ClaimedIffHeld
<1>11. QED
  BY <1>1, <1>8, <1>9, <1>10, StatesStep

\* Renewals and the passage of time change no state and no domain.
LEMMA AgedStep ==
  ASSUME OInv, \/ \E g \in issued, lag \in Lags : RenewClaim(g, lag)
               \/ TimePasses
  PROVE  OInv' /\ LeaseStep
<1>1. [AuthorityNext]_authorityVars /\ DOMAIN claims' = DOMAIN claims
  <2>1. CASE \E g \in issued, lag \in Lags : RenewClaim(g, lag)
    <3>1. PICK g \in issued, lag \in Lags : Renew(g.token, lag)
      BY <2>1 DEF RenewClaim
    <3>2. DOMAIN claims' = DOMAIN claims
      BY <3>1 DEF Renew
    <3>3. QED
      BY <3>1, <3>2 DEF AuthorityNext
  <2>2. CASE TimePasses
    BY <2>2 DEF TimePasses, Tick, AuthorityNext
  <2>3. QED
    BY <2>1, <2>2
<1>2. UNCHANGED <<state, history, saved>>
  BY DEF RenewClaim, TimePasses
<1>3. IInv' /\ LeaseStep
  BY <1>1, NextKeepsIInv DEF OInv
<1>4. ClaimedIffHeld'
  BY <1>1, <1>2 DEF ClaimedIffHeld, OInv
<1>5. QED
  BY <1>2, <1>3, <1>4 DEF OInv

LEMMA ResolveByRepairStep ==
  ASSUME OInv, NEW r \in Repairs, ResolveByRepair(r)
  PROVE  OInv' /\ LeaseStep
<1> DEFINE t == r.of
<1>1. t \in Tasks /\ state[t] = "BLOCKED" /\ UNCHANGED <<authorityVars, saved>>
  BY TasksAssumption DEF ResolveByRepair
<1>2. SoundTasks(state, history) /\ NumberedRepairs(state, history)
      /\ state \in [Tasks -> TaskStates] /\ history \in [Tasks -> History]
  BY DEF OInv, SoundTasks
<1>3. IInv' /\ LeaseStep
  BY <1>1, NextKeepsIInv DEF OInv
<1>4. CASE IsCoding(r)
  <2>1. state' = [state EXCEPT ![t] = "ACCEPTED"] /\ history' = [history EXCEPT ![t] = Fresh]
    BY <1>4 DEF ResolveByRepair
  <2>2. /\ state' \in [Tasks -> TaskStates] /\ history' \in [Tasks -> History]
        /\ \A u \in Tasks \ {t} : state'[u] = state[u] /\ history'[u] = history[u]
        /\ state'[t] = "ACCEPTED" /\ ~history'[t].breakerOpen
    BY <1>1, <1>2, <2>1, FreshIsHistory DEF TaskStates
  <2>3. \A u \in Tasks : history[u].attempts \in Nat
    BY <1>2 DEF History
  <2>4. SoundMove(state, state', history')
    BY <1>1, <1>2, <2>2 DEF SoundMove, SoundTasks, Started
  <2>5. NumberedMove(state, history, state', history')
    BY <1>1, <2>2, <2>3 DEF NumberedMove, Repairs
  <2>6. ClaimedIffHeld'
    BY <1>1, <2>2 DEF ClaimedIffHeld, OInv, authorityVars
  <2>7. QED
    BY <1>1, <1>2, <1>3, <2>4, <2>5, <2>6, MoveKeepsSound, MoveKeepsNumbers DEF OInv
<1>5. CASE ~IsCoding(r)
  <2>1. state' = [state EXCEPT ![t] = "READY"] /\ history' = history
    BY <1>5 DEF ResolveByRepair
  <2>2. StatesMove(state, state')
    BY <1>1, <1>2, <2>1 DEF StatesMove, TaskStates, Started, Repairs
  <2>3. ClaimedIffHeld'
    BY <1>1, <1>2, <2>1 DEF ClaimedIffHeld, OInv, authorityVars
  <2>4. QED
    BY <1>1, <1>3, <2>1, <2>2, <2>3, StatesStep
<1>6. QED
  BY <1>4, <1>5

LEMMA ResolveByEvidenceStep ==
  ASSUME OInv, NEW t \in Tasks, ResolveByEvidence(t)
  PROVE  OInv' /\ LeaseStep
<1>1. /\ state[t] = "BLOCKED" /\ state' = [state EXCEPT ![t] = "READY"]
      /\ UNCHANGED <<authorityVars, history, saved>> /\ state \in [Tasks -> TaskStates]
  BY DEF ResolveByEvidence, OInv, SoundTasks
<1>2. IInv' /\ LeaseStep
  BY <1>1, NextKeepsIInv DEF OInv
<1>3. StatesMove(state, state')
  BY <1>1 DEF StatesMove, TaskStates, Started, Repairs
<1>4. ClaimedIffHeld'
  BY <1>1 DEF ClaimedIffHeld, OInv, authorityVars
<1>5. QED
  BY <1>1, <1>2, <1>3, <1>4, StatesStep

LEMMA SaveStep ==
  ASSUME OInv, SaveRuntime
  PROVE  OInv' /\ LeaseStep
<1>1. Persist /\ saved' = [state |-> state, history |-> history] /\ UNCHANGED <<state, history>>
  BY DEF SaveRuntime
<1>2. IInv' /\ LeaseStep
  BY <1>1, NextKeepsIInv DEF OInv, AuthorityNext
<1>3. ClaimedIffHeld'
  BY <1>1 DEF ClaimedIffHeld, OInv, Persist
<1>4. QED
  BY <1>1, <1>2, <1>3 DEF OInv

\* After a restart no task is claimed, and the snapshot's other states are back.
LEMMA RestartRuntimeStep ==
  ASSUME OInv, RestartRuntime
  PROVE  OInv' /\ LeaseStep
<1>1. /\ Restart /\ history' = saved.history /\ saved' = saved
      /\ state' = [t \in Tasks |->
                     IF saved.state[t] = "CLAIMED" THEN RecoveredState(t) ELSE saved.state[t]]
  BY DEF RestartRuntime
<1>2. IInv' /\ LeaseStep
  BY <1>1, NextKeepsIInv DEF OInv, AuthorityNext
<1>3. DOMAIN claims' = {}
  BY <1>1, NoClaimsType DEF Restart
<1>4. \A t \in Tasks : RecoveredState(t) \in {"READY", "BLOCKED"}
  BY DEF RecoveredState
<1>5. saved.state \in [Tasks -> TaskStates]
  BY DEF OInv, SoundTasks
<1>6. StatesMove(saved.state, state')
  BY <1>1, <1>4, <1>5 DEF StatesMove, TaskStates, Started, Repairs
<1>7. SoundTasks(state', history') /\ NumberedRepairs(state', history')
  BY <1>1, <1>6, StatesMoveKeeps DEF OInv
<1>8. ClaimedIffHeld'
  BY <1>1, <1>3, <1>4 DEF ClaimedIffHeld
<1>9. QED
  BY <1>1, <1>2, <1>7, <1>8 DEF OInv

----------------------------------------------------------------------------
(* The theorems. *)

LEMMA OrchestratorInitInv == OrchestratorInit => OInv
<1> SUFFICES ASSUME OrchestratorInit PROVE OInv
  OBVIOUS
<1>1. IInv /\ DOMAIN claims = {}
  BY InitEstablishesIInv, NoClaimsType DEF OrchestratorInit, AuthorityInit
<1>2. /\ state = [t \in Tasks |-> "ABSENT"] /\ history = [t \in Tasks |-> Fresh]
      /\ saved = [state |-> state, history |-> history]
  BY DEF OrchestratorInit
<1>3. SoundTasks(state, history)
  BY <1>2, FreshIsHistory DEF SoundTasks, TaskStates, Started
<1>4. NumberedRepairs(state, history)
  BY <1>2 DEF NumberedRepairs, RepairsIn, Repairs
<1>5. ClaimedIffHeld
  BY <1>1, <1>2 DEF ClaimedIffHeld
<1>6. QED
  BY <1>1, <1>2, <1>3, <1>4, <1>5 DEF OInv

LEMMA CompleteStep ==
  ASSUME OInv, NEW g \in issued, NEW v \in Verification, NEW lag \in Lags, Complete(g, v, lag)
  PROVE  OInv' /\ LeaseStep
<1>1. CASE Accept(g, v, lag)
  BY <1>1, SettledStep DEF Accept
<1>2. CASE RefuseMerge(g, v, lag)
  BY <1>2, SettledStep DEF RefuseMerge
<1>3. CASE CreateRepair(g, v, lag)
  BY <1>3, CreateRepairStep
<1>4. CASE FailOnDuplicateRepair(g, v, lag)
  BY <1>4, RefusedRepairStep
<1>5. CASE Escalate(g, v, lag)
  BY <1>5, SettledStep DEF Escalate
<1>6. CASE Terminate(g, v, lag)
  BY <1>6, SettledStep DEF Terminate
<1>7. QED
  BY <1>1, <1>2, <1>3, <1>4, <1>5, <1>6 DEF Complete

LEMMA OrchestratorNextInv ==
  ASSUME OInv, [OrchestratorNext]_orchestratorVars
  PROVE  OInv' /\ (LeaseStep \/ UNCHANGED authorityVars)
<1>1. CASE \E t \in Roots : Ingest(t)
  BY <1>1, IngestStep
<1>2. CASE \E t \in Tasks, o \in Owners, lag \in Lags : Dispatch(t, o, lag)
  BY <1>2, DispatchStep
<1>3. CASE \E t \in Tasks, lag \in Lags : DispatchWithoutModel(t, lag)
  BY <1>3, DispatchWithoutModelStep
<1>4. CASE (\E g \in issued, lag \in Lags : RenewClaim(g, lag)) \/ TimePasses
  BY <1>4, AgedStep
<1>5. CASE \E g \in issued, v \in Verification, lag \in Lags : Complete(g, v, lag)
  BY <1>5, CompleteStep
<1>6. CASE \E r \in Repairs : ResolveByRepair(r)
  BY <1>6, ResolveByRepairStep
<1>7. CASE \E t \in Tasks : ResolveByEvidence(t)
  BY <1>7, ResolveByEvidenceStep
<1>8. CASE \E lag \in Lags : RecoverExpired(lag)
  BY <1>8, RecoverExpiredStep
<1>9. CASE SaveRuntime
  BY <1>9, SaveStep
<1>10. CASE RestartRuntime
  BY <1>10, RestartRuntimeStep
<1>11. CASE UNCHANGED orchestratorVars
  <2>1. UNCHANGED <<authorityVars, state, history, saved>>
    BY <1>11 DEF orchestratorVars
  <2>2. IInv'
    BY <2>1, NextKeepsIInv DEF OInv
  <2>3. ClaimedIffHeld'
    BY <2>1 DEF OInv, ClaimedIffHeld, authorityVars
  <2>4. QED
    BY <2>1, <2>2, <2>3 DEF OInv
<1>12. QED
  BY <1>1, <1>2, <1>3, <1>4, <1>5, <1>6, <1>7, <1>8, <1>9, <1>10, <1>11 DEF OrchestratorNext

LEMMA OrchestratorInductive == OrchestratorSpec => []OInv
<1>1. OInv /\ [OrchestratorNext]_orchestratorVars => OInv'
  BY OrchestratorNextInv
<1>2. QED
  BY <1>1, OrchestratorInitInv, PTL DEF OrchestratorSpec

\* The variables keep their types through every operation, crash and restart.
THEOREM OrchestratorTypeCorrect == OrchestratorSpec => []OrchestratorTypeOK
<1>1. OInv => OrchestratorTypeOK
  BY DEF OInv, IInv, SoundMaps, SoundDisk, SoundTasks, OrchestratorTypeOK, AuthorityTypeOK
<1>2. QED
  BY <1>1, OrchestratorInductive, PTL

\* A task is CLAIMED exactly while the authority holds a claim for it.
THEOREM ClaimsMatchStates == OrchestratorSpec => []ClaimedIffHeld
<1>1. OInv => ClaimedIffHeld
  BY DEF OInv
<1>2. QED
  BY <1>1, OrchestratorInductive, PTL

\* No task is started before its dependencies are accepted, in memory or in the snapshot.
THEOREM DependenciesComeFirst == OrchestratorSpec => []DependenciesFirst
<1>1. OInv => DependenciesFirst
  BY DEF OInv, SoundTasks, DependenciesFirst
<1>2. QED
  BY <1>1, OrchestratorInductive, PTL

\* The repairs of a task stay below its budget, since their numbers are distinct and within
\* it; and a task whose budget is spent stays FAILED.
LEMMA BudgetOfOInv == OInv => RepairBudgetKept
<1>1. ASSUME OInv, NEW t \in Tasks, RepairsOf(t) # {}
      PROVE  Cardinality(RepairsOf(t)) < MaxAttempts
  <2> DEFINE R      == RepairsOf(t)
             number == [r \in R |-> r.attempt]
  <2>1. /\ \A r \in R : r.attempt \in 1..(MaxAttempts - 1)
        /\ \A r, s \in R : r.attempt = s.attempt => r = s
    BY <1>1 DEF OInv, NumberedRepairs, RepairsIn, RepairsOf
  <2>2. number \in Injection(R, 1..(MaxAttempts - 1))
    <3> HIDE DEF R
    <3>1. QED
      BY <2>1 DEF Injection, IsInjective
  <2>3. MaxAttempts \in Nat /\ MaxAttempts - 1 >= 1
    BY <1>1, <2>1, BudgetAssumption
  <2>4. IsFiniteSet(1..(MaxAttempts - 1)) /\ Cardinality(1..(MaxAttempts - 1)) = MaxAttempts - 1
    BY <2>3, FS_Interval
  <2>5. IsFiniteSet(R) /\ Cardinality(R) <= MaxAttempts - 1
    <3> HIDE DEF R, number
    <3>1. QED
      BY <2>2, <2>4, FS_Injection
  <2>6. Cardinality(R) \in Nat
    BY <2>5, FS_CardinalityType
  <2>7. QED
    BY <2>3, <2>5, <2>6
<1>2. OInv => \A t \in Tasks : history[t].breakerOpen => state[t] = "FAILED"
  BY DEF OInv, SoundTasks
<1>3. QED
  BY <1>1, <1>2 DEF RepairBudgetKept

\* No task spends more than its budget of repairs, or comes back when it has.
THEOREM RepairBudgetIsKept == OrchestratorSpec => []RepairBudgetKept
BY BudgetOfOInv, OrchestratorInductive, PTL

\* No two claims share a mutation scope under the operations of the orchestrator.
THEOREM OrchestratorExcludes == OrchestratorSpec => []ExclusiveScopes
<1>1. OInv => ExclusiveScopes
  BY DEF OInv, IInv, SoundMaps, ExclusiveScopes
<1>2. QED
  BY <1>1, OrchestratorInductive, PTL

\* No token of an earlier grant validates, so no late result reaches the graph.
THEOREM OrchestratorRefusesStaleTokens == OrchestratorSpec => []StaleTokensPowerless
<1>1. OInv => StaleTokensPowerless
  BY IInvRefusesStaleTokens DEF OInv
<1>2. QED
  BY <1>1, OrchestratorInductive, PTL

\* The orchestrator implements the abstract lease: every operation, with all the calls it
\* makes, drops grants for good and then makes new ones that exclude the rest.
THEOREM OrchestratorImplementsLease == OrchestratorSpec => ImplementsFencedLease
<1>1. ASSUME OInv, [OrchestratorNext]_orchestratorVars
      PROVE  [Lease!LeaseNext]_(Lease!leaseVars)
  <2>1. CASE LeaseStep
    BY <1>1, <2>1, OrchestratorNextInv, LeaseStepRefines DEF OInv
  <2>2. CASE UNCHANGED authorityVars
    BY <2>2 DEF authorityVars, Lease!leaseVars, HeldGrants
  <2>3. QED
    BY <1>1, <2>1, <2>2, OrchestratorNextInv
<1>2. OrchestratorInit => Lease!LeaseInit
  BY NoGrantsAtFirst DEF OrchestratorInit
<1>3. QED
  BY <1>1, <1>2, OrchestratorInductive, PTL
     DEF OrchestratorSpec, ImplementsFencedLease, Lease!LeaseSpec
=============================================================================
