SPECIFICATION FairSpec
CONSTANTS
  Sessions = {s1}
  Agents = {a1, a2}
  Requests = {r1, r2, r3}
  Nobody = Nobody
INVARIANTS EntryExclusive NoLostWaiter ControllerLive RegisteredIsAbortable
PROPERTIES FifoPerEntry TurnLockSpec Served
CHECK_DEADLOCK FALSE
