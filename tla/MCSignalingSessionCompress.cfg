SPECIFICATION Spec
CONSTANTS
  Sockets = {w1, w2}
  First = w1
  Nobody = Nobody
  MaxCandidates = 0
  MaxMessages = 1
CHECK_DEADLOCK FALSE
INVARIANT HeardIntact
