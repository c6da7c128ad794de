SPECIFICATION FairSpec
CONSTANTS
  Nodes <- MCNodes
  Graphs <- MCGraphs
  MaxSignals = 1
INVARIANTS BranchNotTaken CompletedMeansSettled ClosedLeavesNothingRunning
PROPERTIES StartsAfterUpstream RunCloses
CHECK_DEADLOCK FALSE
