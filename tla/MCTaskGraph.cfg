SPECIFICATION GraphSpec
CONSTANTS
  Keys = {k1, k2, k3}
  MaxOdd = 1
CONSTRAINT FewOddTasks
SYMMETRY Symmetry
INVARIANTS
  WorkRemainsReachable
  

  
CHECK_DEADLOCK FALSE
