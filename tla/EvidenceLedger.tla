---------------------------- MODULE EvidenceLedger ----------------------------
(***************************************************************************)
(* src/verification/proof-certificate.js as the micro-shard coordinator     *)
(* uses it: certificates of accepted shards, the graph from the intent to   *)
(* the merge, and the three files of src/service/main.js in which the       *)
(* tasks, the patch sessions and the evidence are saved one after the other *)
(* while work goes on.  A crash between two of them restores the parts as   *)
(* they were at different moments.                                          *)
(*                                                                         *)
(* One parent task; MicroShards says how its shards fail and are repaired.  *)
(* Every certificate is reported by its producer (the loop names no         *)
(* verifier) and composable, so a fingerprint is a shard and its mutation,  *)
(* and what a certificate says is the evidence it was issued for.           *)
(***************************************************************************)
EXTENDS FiniteSets, Naturals

CONSTANTS
  Shards,        \* the shards of the parent
  Mutations,     \* the patch bundles a worker may hand in for a shard
  Reports,       \* the evidence that may come with a bundle
  Commits,       \* the commits an integration may produce
  None,
  MaxSessions,   \* bound on the times the parent is decomposed
  MaxCrashes     \* bound on crashes

ASSUME EvidenceAssumption ==
  /\ None \notin Mutations \cup Reports \cup Commits
  /\ None \notin [evidence: Reports, hasExternalEvidence: BOOLEAN, accepted: BOOLEAN]
  /\ {MaxSessions, MaxCrashes} \subseteq Nat

VARIABLES
  runtime,     \* the parent's session, accepted shards, composition and merge, of the task graph
  patch,       \* the patch session: what was submitted and composed
  ledger,      \* the certificates and the evidence graph
  conflicted,  \* the fingerprints found contradictory by this process
  files,       \* the three files
  saving,      \* the next file to write
  sessions,    \* how many sessions were started: their ids hash the time
  moved,       \* work was done since the runtime was last saved
  even,        \* the files are from one moment
  torn,        \* a crash restored files from different moments
  rekeyed,     \* a restart dropped the certificates of another signing key
  crashes

ledgerVars == <<runtime, patch, ledger, conflicted, files, saving, sessions, moved, even, torn,
                rekeyed, crashes>>

Fingerprints == Shards \X Mutations
Sessions == 1..MaxSessions

Node(kind, of) == [kind |-> kind, of |-> of]
Nodes == [kind: {"INTENT"}, of: {None}] \cup [kind: {"WORK_PACKET", "MERGE"}, of: Sessions]
           \cup [kind: {"SHARD", "EVIDENCE"}, of: Shards] \cup [kind: {"CANDIDATE"}, of: Commits]
Intent == Node("INTENT", None)

\* addNode leaves a node that exists as it is; parents that do not exist are refused.
AddedReplacing(l, n, parents) ==
  [l EXCEPT !.nodes = @ \cup {n},
            !.edges = {e \in @ : e[2] # n} \cup (parents \X {n})]

Added(l, n, parents) ==
  IF n \in l.nodes \/ ~(parents \subseteq l.nodes) THEN l
  ELSE [l EXCEPT !.nodes = @ \cup {n}, !.edges = @ \cup (parents \X {n})]

AddedShards(l, packet) ==
  LET new == {Node("SHARD", s) : s \in Shards} \ l.nodes IN
  [l EXCEPT !.nodes = @ \cup new, !.edges = @ \cup ({packet} \X new)]

ParentsIn(l, n) == {e[1] : e \in {f \in l.edges : f[2] = n}}

Lineage(l, node) ==
  LET chain[n \in Nodes] == {n} \cup UNION {chain[p] : p \in ParentsIn(l, n)} IN chain[node]

\* evidenceCoverage: the shards behind a node that no evidence behind it is about.
MissingProof(l, node) ==
  LET chain == Lineage(l, node)
      behind(e) == UNION {Lineage(l, p) : p \in ParentsIn(l, e)}
  IN  {n \in chain : n.kind = "SHARD" /\ ~\E e \in chain : e.kind = "EVIDENCE" /\ n \in behind(e)}

----------------------------------------------------------------------------
(* The certificate cache. *)

\* The one check of a shard's certificate is external if somebody but the producer verified it;
\* without an external check no certificate is accepted.
Issued(report, verifier) ==
  [evidence |-> report, hasExternalEvidence |-> verifier # None, accepted |-> verifier # None]

ShardCertificates == {Issued(report, None) : report \in Reports}

Contradicts(l, fp, certificate) ==
  fp \in conflicted \/ l.certificate[fp] \notin {None, certificate}

Put(l, fp, certificate) ==
  [l EXCEPT !.certificate[fp] = certificate, !.invalid = @ \ {fp}]

InvalidatedNot(l, fp) == l

Invalidated(l, fp) == [l EXCEPT !.invalid = @ \cup {fp}]

Usable(l, fp) == l.certificate[fp] # None /\ fp \notin l.invalid

\* The evidence node of a shard names the fingerprint of its first certificate.
WithEvidence(l, s, m) ==
  IF Node("EVIDENCE", s) \in l.nodes \/ Node("SHARD", s) \notin l.nodes THEN l
  ELSE [Added(l, Node("EVIDENCE", s), {Node("SHARD", s)}) EXCEPT !.cites[s] = m]

----------------------------------------------------------------------------
EmptyRuntime == [session |-> 0, accepted |-> [s \in Shards |-> None], composed |-> FALSE,
                 merged |-> None]
EmptyPatch == [session |-> 0, submitted |-> [s \in Shards |-> None], composed |-> FALSE]
EmptyLedger == [certificate |-> [fp \in Fingerprints |-> None], invalid |-> {}, nodes |-> {},
                edges |-> {}, cites |-> [s \in Shards |-> None]]

LedgerInit ==
  /\ runtime = EmptyRuntime /\ patch = EmptyPatch /\ ledger = EmptyLedger
  /\ conflicted = {}
  /\ files = [runtime |-> EmptyRuntime, patch |-> EmptyPatch, ledger |-> EmptyLedger]
  /\ saving = "RUNTIME"
  /\ sessions = 0 /\ crashes = 0
  /\ even = TRUE
  /\ moved = FALSE /\ torn = FALSE /\ rekeyed = FALSE

Works ==
  /\ moved' = TRUE
  /\ UNCHANGED <<files, saving, even, torn, rekeyed, crashes>>

\* A parent that has no session gets one; the nodes of its shards are kept from an earlier one.
Materialize ==
  /\ runtime.session = 0
  /\ sessions < MaxSessions
  /\ sessions' = sessions + 1
  /\ runtime' = [runtime EXCEPT !.session = sessions']
  /\ patch' = [EmptyPatch EXCEPT !.session = sessions']
  /\ LET packet == Node("WORK_PACKET", sessions')
         lineage == Added(Added(ledger, Intent, {}), packet, {Intent})
     IN  ledger' = AddedShards(lineage, packet)
  /\ UNCHANGED conflicted
  /\ Works

ComposedEarly(p) == [p EXCEPT !.composed = \E s \in Shards : p.submitted[s] # None]

Composed(p) == [p EXCEPT !.composed = \A s \in Shards : p.submitted[s] # None]

\* A shard is accepted and the coordinator sees it in the same tick.  The session may be missing
\* or may hold another bundle: the coordinator throws.  A certificate that is refused is
\* journalled and the bundle is submitted all the same.
AcceptShard(s, m, report) ==
  LET fp == <<s, m>>
      known == patch.session = runtime.session
      certificate == Issued(report, None)
      refused == Contradicts(ledger, fp, certificate)
  IN
  /\ runtime.session # 0 /\ runtime.accepted[s] = None
  /\ IF known /\ patch.submitted[s] = None
     THEN /\ ledger' = IF refused THEN Invalidated(ledger, fp)
                       ELSE WithEvidence(Put(ledger, fp, certificate), s, m)
          /\ conflicted' = IF refused THEN conflicted \cup {fp} ELSE conflicted
          /\ patch' = Composed([patch EXCEPT !.submitted[s] = m])
     ELSE UNCHANGED <<ledger, conflicted, patch>>
  /\ runtime' = [runtime EXCEPT !.accepted[s] = report,
                                !.composed = @ \/ (patch'.composed /\ ~patch.composed)]
  /\ UNCHANGED sessions
  /\ Works

\* The evidence nodes of the shards that the session expects.
Cited(l) ==
  IF patch.session = runtime.session THEN {Node("EVIDENCE", s) : s \in Shards} \cap l.nodes ELSE {}

\* The integration is accepted: the parent is accepted whatever evidence there is.
AcceptParent(c) ==
  LET candidate == Node("CANDIDATE", c)
      withCandidate == IF Cited(ledger) = {} THEN ledger ELSE Added(ledger, candidate, Cited(ledger))
  IN
  /\ runtime.composed /\ runtime.merged = None
  /\ runtime' = [runtime EXCEPT !.merged = c]
  /\ ledger' = Added(withCandidate, Node("MERGE", runtime.session), {candidate})
  /\ UNCHANGED <<patch, conflicted, sessions>>
  /\ Works

----------------------------------------------------------------------------
(* Persistence.  A save of one file is atomic: it is written beside and renamed. *)

SaveRuntime ==
  /\ saving = "RUNTIME"
  /\ files' = [files EXCEPT !.runtime = runtime]
  /\ saving' = "PATCH"
  /\ moved' = FALSE
  /\ even' = FALSE
  /\ UNCHANGED <<runtime, patch, ledger, conflicted, sessions, torn, rekeyed, crashes>>

SavePatch ==
  /\ saving = "PATCH"
  /\ files' = [files EXCEPT !.patch = patch]
  /\ saving' = "LEDGER"
  /\ UNCHANGED <<runtime, patch, ledger, conflicted, sessions, moved, even, torn, rekeyed, crashes>>

SaveLedger ==
  /\ saving = "LEDGER"
  /\ files' = [files EXCEPT !.ledger = ledger]
  /\ saving' = "RUNTIME"
  /\ even' = ~moved
  /\ UNCHANGED <<runtime, patch, ledger, conflicted, sessions, moved, torn, rekeyed, crashes>>

\* A seal verifies under the key that made it.
SealHolds(certificate, sameKey) == certificate # None /\ sameKey

\* A certificate whose seal does not verify under the key of the process is dropped.
Restored(l, sameKey) ==
  [l EXCEPT !.certificate =
     [fp \in Fingerprints |-> IF SealHolds(@[fp], sameKey) THEN @[fp] ELSE None]]

Crash(sameKey) ==
  /\ crashes < MaxCrashes
  /\ crashes' = crashes + 1
  /\ runtime' = files.runtime
  /\ patch' = files.patch
  /\ ledger' = Restored(files.ledger, sameKey)
  /\ conflicted' = {}
  /\ saving' = "RUNTIME"
  /\ moved' = FALSE
  /\ torn' = (torn \/ ~even)
  /\ rekeyed' = (rekeyed \/ ~sameKey)
  /\ UNCHANGED <<files, sessions, even>>

LedgerNext ==
  \/ Materialize
  \/ \E s \in Shards, m \in Mutations, report \in Reports : AcceptShard(s, m, report)
  \/ \E c \in Commits : AcceptParent(c)
  \/ SaveRuntime \/ SavePatch \/ SaveLedger
  \/ \E sameKey \in BOOLEAN : Crash(sameKey)

LedgerSpec == LedgerInit /\ [][LedgerNext]_ledgerVars
----------------------------------------------------------------------------
(* Properties. *)

\* The types, and a graph that a reader can walk: every node but the intent cites a node that
\* exists, and the certificate an evidence node names is known unless its key was lost.
LedgerTypeOK ==
  /\ runtime \in [session: 0..MaxSessions, accepted: [Shards -> Reports \cup {None}],
                  composed: BOOLEAN, merged: Commits \cup {None}]
  /\ patch \in [session: 0..MaxSessions, submitted: [Shards -> Mutations \cup {None}], composed: BOOLEAN]
  /\ ledger.certificate \in [Fingerprints -> ShardCertificates \cup {None}]
  /\ ledger.invalid \subseteq Fingerprints
  /\ ledger.nodes \subseteq Nodes
  /\ ledger.edges \subseteq ledger.nodes \X ledger.nodes
  /\ \A n \in ledger.nodes \ {Intent} : ParentsIn(ledger, n) # {}
  /\ \A s \in Shards : ledger.cites[s] # None <=> Node("EVIDENCE", s) \in ledger.nodes
  /\ \A s \in Shards : ledger.cites[s] # None /\ ~rekeyed => ledger.certificate[<<s, ledger.cites[s]>>] # None

\* A process that has seen two contradictory certificates of one identity offers neither,
\* however often and in whatever order they come.
ContradictedIsUnusable == \A fp \in conflicted : ~Usable(ledger, fp)

\* The types, a graph that can be walked, and no use of contradictory evidence.
LedgerInvariant == LedgerTypeOK /\ ContradictedIsUnusable

ProvenShards ==
  LET merge == Node("MERGE", runtime.session) IN
  {s \in Shards : Node("SHARD", s) \in Lineage(ledger, merge) \ MissingProof(ledger, merge)}

\* The lineage of a merge reaches the evidence of every shard of its parent, and the certificate
\* found there is of the bundle that was composed and of the evidence the shard was accepted on,
\* through crashes that restore the three files from one moment.  (When they are from different
\* moments the merge may cite fewer shards, or the certificate of a lost bundle.)
MergeIsProven ==
  runtime.merged # None /\ ~torn =>
    /\ ProvenShards = Shards
    /\ \A s \in Shards :
         /\ ledger.cites[s] = patch.submitted[s]
         /\ ~rekeyed => ledger.certificate[<<s, ledger.cites[s]>>].evidence = runtime.accepted[s]

\* A step that is not a crash keeps the nodes and their parents and what evidence names.
KeepsEvidence ==
  crashes' = crashes =>
    /\ ledger.nodes \subseteq ledger'.nodes
    /\ \A n \in ledger.nodes : ParentsIn(ledger, n) = ParentsIn(ledger', n)
    /\ \A s \in Shards : ledger.cites[s] # None => ledger.cites[s] = ledger'.cites[s]

\* What the graph said stays said, though work is done again after a crash: nodes stay, a node
\* never cites other parents and evidence never names another certificate.
EvidenceIsAppendOnly == [][KeepsEvidence]_ledgerVars
=============================================================================
