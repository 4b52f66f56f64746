SPECIFICATION FairSpec
CONSTANTS
  Sockets = {w1, w2}
  First = w1
  Nobody = Nobody
  MaxCandidates = 1
  MaxMessages = 2
CHECK_DEADLOCK FALSE
INVARIANTS
  WellFormedSession
  HeardAsSent
PROPERTIES
  SilentAfterSwitch
  OnlyCandidatesComeLate
  OfferIsAnswered
  NotesAreHeard
