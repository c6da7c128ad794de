SPECIFICATION FairSpec
CONSTANTS
  Tabs = {w1}
  Turns = {t1, t2}
  NoTurn = NoTurn
INVARIANTS WatchedIsRead 
PROPERTIES OutcomeOnce Concludes
CHECK_DEADLOCK FALSE
