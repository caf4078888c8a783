SPECIFICATION Spec
CONSTANTS
  alice = alice bob = bob carol = carol lone = lone retry = retry nothing = nothing
  web = web api = api everyone = everyone nokey = nokey k1 = k1
  a1 = a1 b1 = b1 b2 = b2 c1 = c1
  Agents = {alice, bob, carol}
  Projects = {web, api}
  Everyone = everyone
  Procs = {a1, b1, b2, c1}
  Owner <- OwnerOfAll
  Runs <- RunsOffers
  Home <- HomeOfAll
  Keys = {k1}
  NoKey = nokey
  Drafts <- ForeignDrafts
  MaxOffers = 2
  ForeignGlobalOffers = 1
  MaxRendered = 1
  Horizon = 0
  MaxMsgs = 1
  MaxClock = 1
  MayFail = TRUE
CHECK_DEADLOCK FALSE
INVARIANTS ForeignGlobalIsMentioned
