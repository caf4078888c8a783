SPECIFICATION FairSpec
CONSTANTS
  old = old new1 = new1 new2 = new2 dirty = dirty
  Procs = {old, new1, new2, dirty}
  Expects <- ExpectsOfAll
  Dirty = {dirty}
  Forced = {}
  Shared = TRUE
  Nobody = nobody
  Retries = 2
  FirstVersion = {0, 1}
CHECK_DEADLOCK FALSE
INVARIANTS TypeOK LadderWhole NobodyRepeatsAMigration NobodyIsStranded
PROPERTIES EveryOpenEnds
