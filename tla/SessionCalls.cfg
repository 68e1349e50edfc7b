SPECIFICATION FairSpec
CONSTANTS
    t1 = t1  t2 = t2  c1 = c1  c2 = c2  k1 = k1
    None = None
    Turns = {t1, t2}
    Commands = {c1}
    Closers = {k1}
    Droppable = {k1}
    MaxFailures = 1
    MaxRestarts = 1
CHECK_DEADLOCK FALSE
INVARIANTS NoStrayStep HistoryIsStored EventsOfATurn AnswersFollowInstructions
PROPERTIES ClosedForGood TurnsWorkAlone AnswerStored CancelledIsHeeded TurnsEnd CloseCloses
