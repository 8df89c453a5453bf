-------------------------- MODULE MCMergeAcceptance --------------------------
(* Two checks, of which callers require both from an independent verifier or *)
(* one; every pair of outcomes up to the name of the class, and every        *)
(* distribution of the identities over accepted evidence.                    *)
EXTENDS MergeAcceptance

CONSTANTS build, test, worker, judge, issuer, authority

MCContracts ==
  {[requiredChecks |-> {build, test}, requireIndependentVerifier |-> TRUE],
   [requiredChecks |-> {build}, requireIndependentVerifier |-> FALSE]}

MCSurfaces ==
  {[diff |-> d, paths |-> p] : d \in {{}, {1}}, p \in {{}, {5}}}
    \cup {[diff |-> {}, paths |-> {0}], [diff |-> {5}, paths |-> {}]}

Pairs ==
  {<<"PASSED", "PASSED">>, <<"UNDECIDED", "ABSENT">>, <<"SECURITY_FAILURE", "ABSENT">>,
   <<"TEST_FAILURE", "PASSED">>, <<"TEST_FAILURE", "POLICY_FAILURE">>}

Parties == {<<worker, Nobody>>, <<worker, worker>>, <<worker, authority>>, <<issuer, judge>>}

MCReport(pair, parties) ==
  [checks |-> [c \in Checks |-> IF c = build THEN pair[1] ELSE pair[2]],
   producerId |-> parties[1], verifierId |-> parties[2]]

MCReports ==
  {MCReport(pair, <<worker, judge>>) : pair \in Pairs}
    \cup {MCReport(<<"PASSED", "PASSED">>, parties) : parties \in Parties}

\* Every combination of the flag, the listed paths, the facts and the canary, and the rest one
\* at a time.
MCSubmissions ==
  {s \in [addressed: BOOLEAN, flagged: {0, 5}, docsOnly: BOOLEAN, forced: BOOLEAN,
          canary: BOOLEAN, listed: BOOLEAN, facts: {"NONE", "WEAK", "CHEAP", "COSTLY"},
          certificate: {NoCertificate, Unsigned}] :
     /\ ~s.addressed => s.flagged = 5 /\ ~s.docsOnly /\ ~s.listed /\ s.facts = "NONE"
     /\ s.forced => s.flagged = 0 /\ ~s.docsOnly /\ ~s.listed /\ s.facts = "CHEAP"
     /\ s.docsOnly => s.flagged = 0 /\ s.listed /\ s.facts \in {"NONE", "CHEAP"}
     /\ s.canary => s.facts = "COSTLY" /\ s.flagged = 5
     /\ s.facts = "WEAK" => s.flagged = 5 /\ ~s.listed
     /\ s.certificate = Unsigned => s.facts = "NONE" /\ s.flagged = 5 /\ s.listed}
=============================================================================
