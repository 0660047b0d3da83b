SPECIFICATION FairSpec
CONSTANTS
  Threads = {t1, t2}
  Free = Free
  T = 1
  Addresses = 2
  BufferSize = 180
  Answers <- MCAnswers
INVARIANTS TypeOK NoSocketLeft OwnSocket CallBounded AcceptedAsSent
PROPERTY CallEnds
