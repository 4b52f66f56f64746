SPECIFICATION FairSpec
CONSTANTS
  Sockets = {w1, w2}
  First = w1
  Nobody = Nobody
  MaxCandidates = 0
  MaxMessages = 0
CHECK_DEADLOCK FALSE
PROPERTY RedirectionConnects
