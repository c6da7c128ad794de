SPECIFICATION Spec
CONSTANTS
  Nodes = {"a", "b", "c"}
  Texts = {0, 1}
  Start <- Two
  Deployed <- NoneOrTwo
  Plans <- SomePlans
  Nothing = Nothing
  MaxHistory = 2
  MaxEdits = 3
  MaxSaves = 2
  MaxFlows = 1
INVARIANTS EdgesJoinNodes NoCycleByHand 
 
CHECK_DEADLOCK FALSE
