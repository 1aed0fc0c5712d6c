SPECIFICATION Spec
CONSTANTS
  Calls = {c1, c2}
  Timeouts = {0, 1, 3}
  CoreDefault = 2
  ServerCodes = {1, 4, 5}
INVARIANTS
  AnswerTellsWhatHappened
  DeadlineHonoured
  TlsFitsTarget
\* A closed client whose calls have all returned has nothing left to do.
CHECK_DEADLOCK FALSE
