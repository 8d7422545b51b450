SPECIFICATION FairSpec
CONSTANTS
  m1 = m1
  m2 = m2
  None = None
  Msgs = {m1, m2}
  MaxTroubles = 2
INVARIANTS ViewIsJournal AckedIsTaken
PROPERTIES OnlyForward EveryMessageAcked
