SPECIFICATION StreamFairSpec
CONSTANTS
  Streams = {s1}
  MaxChunks = 3
  MaxAborts = 2
  
PROPERTIES AbortEnds
CHECK_DEADLOCK FALSE
