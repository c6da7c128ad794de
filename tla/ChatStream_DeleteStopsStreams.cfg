SPECIFICATION Spec
CONSTANTS
  Tabs = {w1}
  Turns = {t1, t2}
  NoTurn = NoTurn
PROPERTY DeleteStopsStreams
CHECK_DEADLOCK FALSE
