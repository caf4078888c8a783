SPECIFICATION FairSpec
CONSTANTS
  p1 = p1 p2 = p2 turn = turn noHooks = noHooks other = other noMatcher = noMatcher
  unreadable = unreadable dead = dead never = never unknown = unknown
  Procs = {p1, p2}
  Entries = {turn}
  Wanted <- WantedHooks
  Nobody = Nobody
  Absent = Absent
  MaxAttempts = 2
  LockMayFail = TRUE
  MaxCycles = 2
  MaxEdits = 2
CHECK_DEADLOCK FALSE
INVARIANTS TypeOK RetriesAreStrays
PROPERTIES ForeignEditsSurvive BackupIsOfTheReplaced CommandsEnd
