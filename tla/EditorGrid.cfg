SPECIFICATION Spec
CONSTANTS
  Files = {f, g}
  PaneIds = {0, 1, 2}
  MAX_COLS = 2
  MAX_ROWS = 2
  MaxTabs = 3
  Nothing = Nothing
INVARIANTS GridShape
PROPERTY LayoutKeepsDrafts
CHECK_DEADLOCK FALSE
