SPECIFICATION FairSpec
CONSTANTS
  alice = alice bob = bob web = web api = api src = src lib = lib
  a1 = a1 b1 = b1 b2 = b2
  Agents = {alice, bob}
  Projects = {web, api}
  Paths = {src, lib}
  Overlap <- OverlapAll
  Procs = {a1, b1, b2}
  Owner <- OwnerOfAll
  Runs <- RunsAll
  Home <- HomeRoaming
  Leases = {3}
  MaxNotices = 1
  MaxClock = 4
  MaxFails = 1
CHECK_DEADLOCK FALSE
INVARIANTS TypeOK FirstContact EndedSessionsHoldNothing NoticesAreOfToldClaims
PROPERTIES CollisionsAreTold
