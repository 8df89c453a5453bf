--------------------------- MODULE MCLaneScheduler ---------------------------
(* Two members of a packet, the first with a repair, and two deployments, of *)
(* which one has no repository; two workers, of which one has two slots.   *)
EXTENDS LaneScheduler

CONSTANTS one, two, fix, deploy, ship, repo, packet, big, small

MCTasks == {one, two, fix, deploy, ship}
MCRepairOf == [r \in {fix} |-> one]
MCRepositoryOf == [t \in MCTasks |-> IF t = ship THEN Unscoped ELSE repo]
MCStageOf ==
  [t \in MCTasks |-> CASE t = fix -> "REPAIR"
                      [] t \in {deploy, ship} -> "DEPLOYMENT"
                      [] OTHER -> "IMPLEMENTATION"]
MCScopesOf == [t \in MCTasks |-> IF t \in {one, fix, ship} THEN {one} ELSE {t}]
MCPacketOf == [t \in MCTasks |-> IF t \in {one, two} THEN packet ELSE NoPacket]
MCPriority == [t \in MCTasks |-> CASE t = one -> 20 [] t = ship -> 10 [] t = fix -> 5 [] OTHER -> 0]
MCCanRun == [n \in Workers |-> IF n = big THEN MCTasks ELSE {two, deploy}]
MCSlots == [n \in Workers |-> IF n = big THEN 2 ELSE 1]
=============================================================================
