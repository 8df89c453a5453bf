---------------------------- MODULE FencedLease ----------------------------
(***************************************************************************)
(* What the control plane promises about work claims, whatever the storage, *)
(* the clock or the crashes behind it: a grant gives one holder exclusive   *)
(* use of a set of mutation scopes until it is dropped, and a grant that    *)
(* was dropped never comes back.                                            *)
(***************************************************************************)
VARIABLES held,    \* the grants in force, records with the fields task and scopes
          retired  \* the grants that were in force once

leaseVars == <<held, retired>>

Compatible(g, h) == g.task # h.task /\ g.scopes \cap h.scopes = {}

Exclusive(S) == \A g, h \in S : g # h => Compatible(g, h)

LeaseInit == held = {} /\ retired = {}

\* One step drops some grants and then makes some: a dispatch sweeps expired
\* claims before it claims.
Exchange(dropped, granted) ==
  /\ dropped \subseteq held
  /\ granted \cap (held \cup retired) = {}
  /\ Exclusive((held \ dropped) \cup granted)
  /\ held' = (held \ dropped) \cup granted
  /\ retired' = retired \cup dropped

LeaseNext == Exchange(held \ held', held' \ held)

LeaseSpec == LeaseInit /\ [][LeaseNext]_leaseVars
=============================================================================
