-------------------------- MODULE RepairController --------------------------
(***************************************************************************)
(* src/verification/repair-controller.js as a component: the history map,  *)
(* decide, reset, and its part of a snapshot and of a restart.             *)
(***************************************************************************)
EXTENDS RepairDecision, Sequences

CONSTANTS
  Keys,         \* task keys
  MaxDecisions  \* bound: decisions taken in a behaviour

ASSUME DecisionsAssumption == MaxDecisions \in Nat

VARIABLES
  history,   \* this.history
  saved,     \* the history in the snapshot file
  granted,   \* for each task, what it was granted since its last reset (not in the code):
             \* how many retries, and for which failures since the last acceptance
  decisions  \* how many decisions were taken (not in the code)

repairVars == <<history, saved, granted, decisions>>

NothingGranted == [retries |-> 0, run |-> <<>>]

NothingSaved ==
  [history |-> [k \in Keys |-> Fresh], granted |-> [k \in Keys |-> NothingGranted]]

GrantedAfter(g, action, v) ==
  CASE action = "RETRY_REPAIR" -> [retries |-> g.retries + 1, run |-> Append(g.run, v.failure)]
    [] action = "ACCEPT" -> [g EXCEPT !.run = <<>>]
    [] OTHER -> g

RepairInit ==
  /\ history = [k \in Keys |-> Fresh]
  /\ granted = [k \in Keys |-> NothingGranted]
  /\ saved = NothingSaved
  /\ decisions = 0

Decide(k, v) ==
  /\ decisions < MaxDecisions
  /\ decisions' = decisions + 1
  /\ history' = [history EXCEPT ![k] = HistoryAfter(history[k], v)]
  /\ granted' = [granted EXCEPT ![k] = GrantedAfter(@, ActionFor(history[k], v), v)]
  /\ UNCHANGED saved

\* An accepted coding repair resets the history of its parent.
Reset(k) ==
  /\ history' = [history EXCEPT ![k] = Fresh]
  /\ granted' = [granted EXCEPT ![k] = NothingGranted]
  /\ UNCHANGED <<saved, decisions>>

\* The snapshot holds the repair tasks that were granted along with the history.
SaveRepairs ==
  /\ saved' = [history |-> history, granted |-> granted]
  /\ UNCHANGED <<history, granted, decisions>>

\* A crash and the restart after it.
RestoreRepairs ==
  /\ history' = saved.history
  /\ granted' = saved.granted
  /\ UNCHANGED <<saved, decisions>>

RepairNext ==
  \/ \E k \in Keys, v \in Verification : Decide(k, v)
  \/ \E k \in Keys : Reset(k)
  \/ SaveRepairs
  \/ RestoreRepairs

RepairSpec == RepairInit /\ [][RepairNext]_repairVars

----------------------------------------------------------------------------
(* Properties. *)

GrantedType == [retries: Nat, run: Seq(Failures)]

\* The variables keep their types.
RepairTypeOK ==
  /\ history \in [Keys -> History]
  /\ granted \in [Keys -> GrantedType]
  /\ saved \in [history: [Keys -> History], granted: [Keys -> GrantedType]]
  /\ decisions \in Nat

\* Whatever mix of verdicts, acceptances and restarts a task goes through, it is granted
\* fewer repairs than MaxAttempts between two resets.
RetryBudget == \A k \in Keys : granted[k].retries > 0 => granted[k].retries < MaxAttempts

\* Identical failures trip the breaker: no task is granted BreakerThreshold repairs in
\* a row for one failure, with other verdicts and restarts in between.
IdenticalFailuresTrip ==
  \A k \in Keys, f \in Failures :
    LET run == granted[k].run IN
    \A i \in 1..Len(run) :
      i + BreakerThreshold - 1 <= Len(run) =>
        \E j \in i..(i + BreakerThreshold - 1) : run[j] # f

\* An open breaker grants nothing more: until a reset, or a restart from a snapshot
\* taken before it opened, the history and what was granted stay as they are.
OpenBreakerHolds ==
  [][\A k \in Keys :
       history[k].breakerOpen =>
         \/ history'[k] = history[k] /\ granted'[k] = granted[k]
         \/ history'[k] = Fresh /\ granted'[k] = NothingGranted
         \/ history'[k] = saved.history[k] /\ granted'[k] = saved.granted[k]]_repairVars
=============================================================================
