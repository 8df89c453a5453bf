--------------------------- MODULE MergeAcceptance ---------------------------
(***************************************************************************)
(* complete (src/core/orchestrator.js) for a task whose result is a merge, *)
(* and for the coding repair of it: the verdict of AcceptanceVerifier, then *)
(* the certificate issuer and the economic gate of src/economics.           *)
(*                                                                         *)
(* A risk class is its number; 1 stands for C1 and C2, 5 for C4 and C5.    *)
(* Commit 0 is the one the task starts from.  A repair of the repair and a *)
(* second repair are left out: the repair controller may refuse them.      *)
(***************************************************************************)
EXTENDS AcceptanceVerifier, FiniteSetsExt, Naturals

CONSTANTS
  Owner,        \* the owner of the claim
  Issuer,       \* economic-certificate-issuer
  Authority,    \* economic-verifier-authority
  Contracts,    \* the acceptance contracts callers give
  WorkerReports, \* the evidence workers report
  Submissions,  \* the metadata.economics callers submit
  Surfaces,     \* what the patches of the workers touch
  Hints,        \* the classes a diff, a path or a flag may hint at
  MaxCommits,   \* bound on the candidates the workers make
  MaxRestarts,  \* bound on restarts
  FixedKey      \* MAXXED_CERTIFICATE_SIGNING_KEY is set

ASSUME HintsAssumption == Hints \subseteq {1, 3, 5}
ASSUME IdentitiesAssumption == {Owner, Issuer, Authority} \subseteq Producers
ASSUME ReportsAssumption == Contracts \subseteq Acceptance /\ WorkerReports \subseteq Evidence
ASSUME MergeBoundsAssumption == {MaxCommits, MaxRestarts} \subseteq Nat

VARIABLES
  state,      \* of the merge and of its repair
  economics,  \* metadata.economics of each
  ref,        \* metadata.execution.ref: the commit each starts from
  reported,   \* the patch of the latest report, and whose it is
  head,       \* the newest commit
  restarts    \* how often the process was restarted

costVars == <<state, economics, ref, reported, head, restarts>>
mergeVars == <<verifierVars, costVars>>

Merges == {"MERGE", "REPAIR"}

\* CLOSED is ACCEPTED by the accepted repair and not by a completion.
States == {"ABSENT", "OPEN", "BLOCKED", "ACCEPTED", "CLOSED", "FAILED"}

\* The classes that the text of the diff and that the changed paths hint at, none when the
\* report has no diff or no paths; 0 are paths to documents.
Surface == [diff: {{}} \cup {{h} : h \in Hints}, paths: {{}, {0}} \cup {{h} : h \in Hints}]

ASSUME SurfacesAssumption == Surfaces \subseteq Surface

Patches(commit) == {[commit |-> commit, diff |-> s.diff, paths |-> s.paths] : s \in Surfaces}

\* What is left of a patch that the gate does not see.
Commit(c) == [commit |-> c, diff |-> {}, paths |-> {}]

NoReport == [checks |-> [c \in Checks |-> "ABSENT"], producerId |-> Nobody, verifierId |-> Nobody]

----------------------------------------------------------------------------
(* Certificates. *)

NoCertificate == [key |-> 0, commit |-> 0, costly |-> FALSE]

\* A certificate a caller wrote: no key of the process has signed it.
Unsigned == [key |-> 0, commit |-> 1, costly |-> FALSE]

\* Without a configured key every process draws its own.
SigningKey == IF FixedKey THEN 1 ELSE 1 + restarts

Certificates == [key: 0..(1 + MaxRestarts), commit: 0..MaxCommits, costly: BOOLEAN]

Economics ==
  [addressed: BOOLEAN,                           \* execution.ref is a full SHA
   flagged: {0} \cup Hints,                       \* the touches... flags, compositionParticipants
   docsOnly: BOOLEAN, forced: BOOLEAN, canary: BOOLEAN,
   listed: BOOLEAN,                              \* economics.changedPaths lists the paths
   facts: {"NONE", "WEAK", "CHEAP", "COSTLY"},   \* economics.evidence, WEAK below 0.3
   certificate: Certificates]

\* A caller does not have the signing key.
ASSUME SubmissionsAssumption ==
  Submissions \subseteq Economics /\ \A s \in Submissions : s.certificate.key = 0

RepairEconomicsWithFacts ==
  [addressed |-> TRUE, flagged |-> 0, docsOnly |-> FALSE, forced |-> FALSE, canary |-> FALSE,
   listed |-> FALSE, facts |-> "CHEAP", certificate |-> NoCertificate]

\* What synthesizeRepairTask leaves of it: the repair starts from the failed candidate.
NoEconomics ==
  [addressed |-> TRUE, flagged |-> 0, docsOnly |-> FALSE, forced |-> FALSE, canary |-> FALSE,
   listed |-> FALSE, facts |-> "NONE", certificate |-> NoCertificate]

VerifySignature(c) == c # NoCertificate /\ c.key = SigningKey

VerifyPresence(c) == c # NoCertificate

----------------------------------------------------------------------------
(* The class of a merge, for the gate and for the issuer. *)

Classify(paths, diff, e) ==
  IF paths \cup diff = {} THEN 3
  ELSE IF e.docsOnly /\ paths = {0} THEN 0
  ELSE Max({1, e.flagged} \cup paths \cup diff)

GateClass(p, e) == Classify(p.paths, p.diff, e)

\* The issuer takes the paths from the task and not from the report.
IssuerClass(p, e) == Classify(IF e.listed THEN p.paths ELSE {}, p.diff, e)

RequiresCertificate(class) == class >= 3

Implementer(r) == IF r.producerId = Nobody THEN Owner ELSE r.producerId

\* What one execution costs, times how often, by how many and retried: at least 25 a month.
CostsMaterially(e) == e.facts = "COSTLY"

MayIssue(m, p, r, e) ==
  /\ p.commit # ref[m]
  /\ Issuer \notin {Implementer(r), r.verifierId}
  /\ RequiresCertificate(IssuerClass(p, e)) \/ e.forced
  /\ e.facts \in {"CHEAP", "COSTLY"}

Issue(m, p, r, e) ==
  IF MayIssue(m, p, r, e)
  THEN [key |-> SigningKey, commit |-> p.commit, costly |-> CostsMaterially(e)]
  ELSE NoCertificate

AttachedUnchecked(m, p, r, e) ==
  IF VerifyPresence(e.certificate) THEN e.certificate ELSE Issue(m, p, r, e)

\* The certificate at hand is kept when its signature verifies, whatever it is bound to.
Attached(m, p, r, e) ==
  IF VerifySignature(e.certificate) THEN e.certificate ELSE Issue(m, p, r, e)

\* What EconomicVerifier.verify rejects: a dependent authority, a certificate that is not
\* signed or is bound to another commit, and none where one is required.
RefusedUnlessPresent(p, r, e) ==
  \/ Authority \in {Implementer(r), r.verifierId}
  \/ e.certificate = NoCertificate /\ RequiresCertificate(GateClass(p, e))

Refused(p, r, e) ==
  \/ Authority \in {Implementer(r), r.verifierId}
  \/ e.certificate # NoCertificate
       /\ (~VerifySignature(e.certificate) \/ e.certificate.commit # p.commit)
  \/ e.certificate = NoCertificate /\ RequiresCertificate(GateClass(p, e))

AwaitsCanary(p, e) == e.certificate.costly /\ GateClass(p, e) >= 4 /\ ~e.canary

EconomicVerdict(p, r, e) ==
  IF Refused(p, r, e) THEN "REJECT"
  ELSE IF AwaitsCanary(p, e) THEN "ESCALATE" ELSE "ACCEPT"

----------------------------------------------------------------------------
MergeInit ==
  /\ acceptance \in Contracts
  /\ evidence = NoReport
  /\ verification = NotVerified
  /\ state = [m \in Merges |-> IF m = "MERGE" THEN "OPEN" ELSE "ABSENT"]
  /\ economics \in {[m \in Merges |-> IF m = "MERGE" THEN s ELSE NoEconomics] :
                      s \in Submissions}
  /\ ref = [m \in Merges |-> 0]
  /\ reported = [of |-> "MERGE", patch |-> Commit(0)]
  /\ head = 0
  /\ restarts = 0

\* The worker reports patch p with evidence r, and the verifier has an opinion of it.
Report(m, p, r) ==
  /\ state[m] = "OPEN"
  /\ reported' = [of |-> m, patch |-> p]
  /\ head' = p.commit
  /\ evidence' = r
  /\ verification' = [verdict |-> Verdict(acceptance, r), missing |-> Missing(acceptance, r),
                      failed |-> Failed(acceptance, r)]
  /\ UNCHANGED <<acceptance, restarts>>

\* An accepting verdict: the certificate is attached to the task, and the gate decides.
CompleteAccepted(m, p, r) ==
  LET e     == economics[m]
      known == [e EXCEPT !.certificate = Attached(m, p, r, e)] IN
  /\ Verdict(acceptance, r) = "ACCEPT"
  /\ Report(m, p, r)
  /\ IF e.addressed
     THEN /\ economics' = [economics EXCEPT ![m] = known]
          /\ state' = [state EXCEPT ![m] =
                         IF EconomicVerdict(p, r, known) = "ACCEPT" THEN "ACCEPTED"
                         ELSE "BLOCKED"]
     ELSE /\ economics' = economics
          /\ state' = [state EXCEPT ![m] = "ACCEPTED"]
  /\ UNCHANGED ref

\* A repairable verdict on the merge: the repair controller grants the repair.
CompleteRepairable(c, r) ==
  /\ state["REPAIR"] = "ABSENT"
  /\ Verdict(acceptance, r) = "REPAIR"
  /\ Report("MERGE", Commit(c), r)
  /\ state' = [state EXCEPT !["MERGE"] = "BLOCKED", !["REPAIR"] = "OPEN"]
  /\ ref' = [ref EXCEPT !["REPAIR"] = c]
  /\ UNCHANGED economics

\* A rejection, or a repairable verdict with the budget spent.
CompleteTerminated(m, c, r) ==
  /\ Verdict(acceptance, r) \in {"REJECT", "REPAIR"}
  /\ Report(m, Commit(c), r)
  /\ state' = [state EXCEPT ![m] = "FAILED"]
  /\ UNCHANGED <<economics, ref>>

CompleteEscalated(m, c, r) ==
  /\ Verdict(acceptance, r) = "ESCALATE"
  /\ Report(m, Commit(c), r)
  /\ state' = [state EXCEPT ![m] = "BLOCKED"]
  /\ UNCHANGED <<economics, ref>>

\* resolveVerificationGate with reconciliation evidence: whatever blocked the task, the next
\* attempt has yet to report.
Reconcile(m) ==
  /\ state[m] = "BLOCKED"
  /\ state' = [state EXCEPT ![m] = "OPEN"]
  /\ evidence' = NoReport /\ verification' = NotVerified
  /\ reported' = [of |-> m, patch |-> Commit(0)]
  /\ UNCHANGED <<acceptance, economics, ref, head, restarts>>

\* resolveVerificationGate with the repair task, which closes its parent.
ResolveRepair ==
  /\ state["MERGE"] = "BLOCKED" /\ state["REPAIR"] = "ACCEPTED"
  /\ state' = [state EXCEPT !["MERGE"] = "CLOSED"]
  /\ UNCHANGED <<verifierVars, economics, ref, reported, head, restarts>>

\* Tasks survive a restart, a key that was drawn does not.
Restart ==
  /\ restarts < MaxRestarts
  /\ restarts' = restarts + 1
  /\ UNCHANGED <<verifierVars, state, economics, ref, reported, head>>

MergeNext ==
  \/ \E m \in {n \in Merges : state[n] = "OPEN"}, c \in {head, head + 1} :
       /\ c <= MaxCommits
       /\ \E r \in WorkerReports :
            \/ \E p \in Patches(c) : CompleteAccepted(m, p, r)
            \/ m = "MERGE" /\ CompleteRepairable(c, r)
            \/ CompleteTerminated(m, c, r)
            \/ CompleteEscalated(m, c, r)
  \/ \E m \in Merges : Reconcile(m)
  \/ ResolveRepair
  \/ Restart

MergeSpec == MergeInit /\ [][MergeNext]_mergeVars

----------------------------------------------------------------------------
(* Properties. *)

MergeTypeOK ==
  /\ acceptance \in Acceptance /\ evidence \in Evidence
  /\ verification.verdict \in Verdicts \cup {"NONE"}
  /\ verification.missing \cup verification.failed \subseteq acceptance.requiredChecks
  /\ state \in [Merges -> States]
  /\ economics \in [Merges -> Economics]
  /\ head \in 0..MaxCommits /\ restarts \in 0..MaxRestarts
  /\ ref \in [Merges -> 0..MaxCommits]
  /\ reported.of \in Merges /\ reported.patch.commit \in 0..MaxCommits

\* The types, and what every verdict keeps to whatever becomes of it.
MergeInvariant == MergeTypeOK /\ AcceptanceIsEarned /\ HighRiskIsNeverRepaired

\* A SHA-addressed merge that its own completion accepted and that the gate sees at C3 or
\* above carries a certificate this control plane signed for the accepted commit, from
\* evidence of the task; at C4 or above with material cost, a canary was observed.  This is
\* what the gate is for, across retries with other commits and changes of the key.
CostlyMergeIsCertified ==
  LET m == reported.of
      p == reported.patch
      e == economics[m] IN
  state[m] = "ACCEPTED" /\ e.addressed /\ RequiresCertificate(GateClass(p, e)) =>
    /\ e.certificate.key \in 1..SigningKey
    /\ e.certificate.commit = p.commit
    /\ e.certificate.costly <=> e.facts = "COSTLY"
    /\ e.certificate.costly /\ GateClass(p, e) >= 4 => e.canary

\* The repair of a merge has none of its parent's flags and facts, so it is accepted only
\* below C3: a merge with a declared cost surface that its repair closes has been looked at
\* as one without, and a repair that does touch one is never accepted.
RepairsAreCheap ==
  reported.of = "REPAIR" /\ state["REPAIR"] = "ACCEPTED" =>
    ~RequiresCertificate(GateClass(reported.patch, NoEconomics))

\* The evidence the issuer asks for, for a new commit, by independent parties, with the
\* surface in view of issuer and gate.
IsComplete(m) ==
  LET e == economics[m]
      p == reported'.patch
      r == evidence' IN
  /\ verification'.verdict = "ACCEPT"
  /\ e.facts = "CHEAP" \/ (e.facts = "COSTLY" /\ e.canary)
  /\ p.commit # ref[m]
  /\ {Issuer, Authority} \cap {Implementer(r), r.verifierId} = {}
  /\ RequiresCertificate(GateClass(p, e)) => RequiresCertificate(IssuerClass(p, e))

\* economic-certificate-issuer.js: complete evidence passes the gate instead of being blocked
\* with no path to pass.  The exception is a merge that was certified for another commit by
\* the same key: that certificate is kept, and no later candidate passes.
CompleteEvidencePasses ==
  [][\A m \in Merges :
       state[m] = "OPEN" /\ state'[m] = "BLOCKED" /\ IsComplete(m) =>
         /\ economics[m].certificate.key = SigningKey
         /\ economics[m].certificate.commit # reported'.patch.commit]_mergeVars
=============================================================================
