--------------------------- MODULE ClaimAuthority ---------------------------
(***************************************************************************)
(* src/core/claim-authority.js: the map of claims and the map of fencing   *)
(* generations, with claim, renew, validate, release, fence and            *)
(* sweepExpired, and the part of a restart that concerns them              *)
(* (src/core/runtime-state.js, restoreRuntime).                            *)
(*                                                                         *)
(* Time.  A claim carries the time left before it expires (expiresAt minus *)
(* the present), which Tick counts down.  A caller passes the clock value  *)
(* it read, and the coding loop reads it once per tick, before its awaits: *)
(* lag is how far behind the present the caller's value is.                *)
(***************************************************************************)
EXTENDS Integers, FiniteSets, Functions

CONSTANTS
  Tasks,     \* task keys
  Owners,    \* worker ids
  Scopes,    \* normalised mutation scopes
  ScopesOf,  \* the scopes the orchestrator claims for a task
  Ttl,       \* time to live of a claim, 30 s by default
  MaxLag,    \* how far behind the present a caller's clock value may be
  MaxClaims, \* bound: claims made in a behaviour
  MaxFences  \* bound: generation at which a task is no longer fenced by a caller

ASSUME TtlAssumption == Ttl \in Nat /\ MaxLag \in Nat /\ MaxLag < Ttl
ASSUME ScopesAssumption == ScopesOf \in [Tasks -> SUBSET Scopes]
ASSUME BoundsAssumption == MaxClaims \in Nat /\ MaxFences \in Nat

VARIABLES
  claims,      \* #claims: the claim of each claimed task
  generation,  \* #generation, 0 for a task that has no entry
  minted,      \* claim ids made so far: randomUUID never repeats one
  issued,      \* the grants handed to callers, who may present their tokens at any time
  disk         \* the claim part of the snapshot file

authorityVars == <<claims, generation, minted, issued, disk>>

Lags == 0..MaxLag

\* What #matches compares.
Token == [taskKey: Tasks, ownerId: Owners, claimId: Nat, generation: Nat]

Claim == [token: Token, scopes: SUBSET Scopes, expiresIn: Int]

\* A grant in the terms of FencedLease: the task, its scopes and its token.
Grant == [task: Tasks, scopes: SUBSET Scopes, token: Token]

IsClaimMap(cs) == DOMAIN cs \subseteq Tasks /\ cs \in [DOMAIN cs -> Claim]

NoClaims == [t \in {} |-> {}]

EmptySnapshot == [claims |-> NoClaims, generation |-> [t \in Tasks |-> 0]]

----------------------------------------------------------------------------
(* The maps and what the methods do to them. *)

MatchesWithoutClaimId(claim, token) ==
  /\ claim.token.taskKey = token.taskKey
  /\ claim.token.ownerId = token.ownerId
  /\ claim.token.generation = token.generation

Matches(claim, token) == claim.token = token

Holds(token) ==
  token.taskKey \in DOMAIN claims /\ Matches(claims[token.taskKey], token)

Live(claim, lag) == claim.expiresIn + lag > 0

Validate(token, lag) == Holds(token) /\ Live(claims[token.taskKey], lag)

Expired(cs, lag) == {t \in DOMAIN cs : ~Live(cs[t], lag)}

Without(cs, S) == Restrict(cs, DOMAIN cs \ S)

With(cs, t, claim) ==
  [u \in DOMAIN cs \cup {t} |-> IF u = t THEN claim ELSE cs[u]]

Bump(gen, S) == [t \in Tasks |-> IF t \in S THEN gen[t] + 1 ELSE gen[t]]

ScopesConflict(cs, t) == \E u \in DOMAIN cs : cs[u].scopes \cap ScopesOf[t] # {}

ClaimableIgnoringScopes(cs, t) == t \notin DOMAIN cs

\* An expired claim that was not swept still blocks its task and its scopes.
Claimable(cs, t) == t \notin DOMAIN cs /\ ~ScopesConflict(cs, t)

NewClaim(gen, t, o, lag) ==
  [token |-> [taskKey |-> t, ownerId |-> o, claimId |-> minted + 1,
              generation |-> gen[t] + 1],
   scopes |-> ScopesOf[t],
   expiresIn |-> Ttl - lag]

GrantOf(claim) ==
  [task |-> claim.token.taskKey, scopes |-> claim.scopes, token |-> claim.token]
----------------------------------------------------------------------------
(* The methods, each called with any argument a caller may hold. *)

AuthorityInit ==
  /\ claims = NoClaims
  /\ generation = [t \in Tasks |-> 0]
  /\ minted = 0
  /\ issued = {}
  /\ disk = EmptySnapshot

\* claim: null, and nothing changes, when the task or one of its scopes is taken.
DoClaim(cs, gen, t, o, lag) ==
  LET claim == NewClaim(gen, t, o, lag) IN
  /\ Claimable(cs, t)
  /\ minted < MaxClaims
  /\ claims' = With(cs, t, claim)
  /\ generation' = Bump(gen, {t})
  /\ minted' = minted + 1
  /\ issued' = issued \cup {GrantOf(claim)}
  /\ UNCHANGED disk

MakeClaim(t, o, lag) == DoClaim(claims, generation, t, o, lag)

\* renew: only the current token of a claim that has not expired.
Renew(token, lag) ==
  /\ Validate(token, lag)
  /\ claims' = [claims EXCEPT ![token.taskKey].expiresIn = Ttl - lag]
  /\ UNCHANGED <<generation, minted, issued, disk>>

\* release asks for the current token, expired or not, and keeps the generation.
Release(token) ==
  /\ Holds(token)
  /\ claims' = Without(claims, {token.taskKey})
  /\ UNCHANGED <<generation, minted, issued, disk>>

\* fence: whether or not the task has a claim.
Fence(t) ==
  /\ generation[t] < MaxFences
  /\ claims' = Without(claims, {t})
  /\ generation' = Bump(generation, {t})
  /\ UNCHANGED <<minted, issued, disk>>

SweepExpired(lag) ==
  LET expired == Expired(claims, lag) IN
  /\ expired # {}
  /\ claims' = Without(claims, expired)
  /\ generation' = Bump(generation, expired)
  /\ UNCHANGED <<minted, issued, disk>>

\* main.js saves a snapshot every second.  The file is written aside and renamed, so
\* it holds one whole snapshot, taken at some earlier moment.
Persist ==
  /\ disk' = [claims |-> claims, generation |-> generation]
  /\ UNCHANGED <<claims, generation, minted, issued>>

RestoreKeepingClaims ==
  /\ claims' = disk.claims
  /\ generation' = disk.generation
  /\ UNCHANGED <<minted, issued, disk>>

RestoredGeneration ==
  [t \in Tasks |->
     IF t \in DOMAIN disk.claims /\ disk.claims[t].token.generation > disk.generation[t]
     THEN disk.claims[t].token.generation
     ELSE disk.generation[t]]

\* A crash and the restart after it: restore brings the saved maps back, and
\* restoreRuntime then fences every restored claim.
Restart ==
  /\ claims' = NoClaims
  /\ generation' = Bump(RestoredGeneration, DOMAIN disk.claims)
  /\ UNCHANGED <<minted, issued, disk>>

\* Bound: a claim past -MaxLag is expired to every caller and is not aged further.
Aged(claim) ==
  [claim EXCEPT !.expiresIn = IF @ > -MaxLag THEN @ - 1 ELSE @]

Tick ==
  /\ claims' = [t \in DOMAIN claims |-> Aged(claims[t])]
  /\ claims' # claims
  /\ UNCHANGED <<generation, minted, issued, disk>>

AuthorityNext ==
  \/ \E t \in Tasks, o \in Owners, lag \in Lags : MakeClaim(t, o, lag)
  \/ \E g \in issued, lag \in Lags : Renew(g.token, lag)
  \/ \E g \in issued : Release(g.token)
  \/ \E t \in Tasks : Fence(t)
  \/ \E lag \in Lags : SweepExpired(lag)
  \/ Persist
  \/ Restart
  \/ Tick

AuthoritySpec == AuthorityInit /\ [][AuthorityNext]_authorityVars

----------------------------------------------------------------------------
(* Properties. *)

\* Every variable keeps its type through every method, crash and restart.
AuthorityTypeOK ==
  /\ IsClaimMap(claims)
  /\ generation \in [Tasks -> Nat]
  /\ minted \in Nat
  /\ issued \in SUBSET Grant
  /\ IsClaimMap(disk.claims)
  /\ disk = [claims |-> disk.claims, generation |-> disk.generation]
  /\ disk.generation \in [Tasks -> Nat]

\* No two claims in the map share a scope, whether they are live, expired or about
\* to be renewed by a caller whose clock is behind: claim() refuses on conflict and
\* no other method widens a claim.
ExclusiveScopes ==
  \A t, u \in DOMAIN claims :
    t # u => claims[t].scopes \cap claims[u].scopes = {}

\* The claim in the map always carries the task's current generation: whatever bumps
\* the generation (fence, sweep, restart) also takes the claim away, so a worker that
\* compares generations learns that it was superseded.
HeldGenerationIsCurrent ==
  \A t \in DOMAIN claims : claims[t].token.generation = generation[t]

GrantsIn(cs) == {GrantOf(cs[t]) : t \in DOMAIN cs}

HeldGrants == GrantsIn(claims)

Lease == INSTANCE FencedLease WITH held <- HeldGrants, retired <- issued \ HeldGrants

\* The claim map implements exclusive leases that never come back: a token that was
\* released, fenced, swept or lost in a crash matches no later claim, although a
\* restart from an old snapshot hands the same generation numbers out again.
ImplementsFencedLease == Lease!LeaseSpec

\* A token a worker kept from an earlier grant passes validate for no caller, however
\* late its clock: release, fence, expiry and restart all leave the worker powerless,
\* which is what keeps its late result out of the task graph.
StaleTokensPowerless ==
  \A g \in issued, lag \in Lags : Validate(g.token, lag) => g \in HeldGrants
=============================================================================
