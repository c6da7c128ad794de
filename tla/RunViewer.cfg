SPECIFICATION FairViewer
CONSTANTS
  Runs = {r1, r2}
  Sockets = {s1, s2}
  Requests = {q1, q2}
  MaxViews = 2
  MaxLosses = 1
  Nothing = Nothing
  
PROPERTY EndIsShown
CHECK_DEADLOCK FALSE
