SPECIFICATION Spec
CONSTANTS
  s1 = s1 s2 = s2 s3 = s3 web = web api = api ann = ann ref = ref ref3 = ref3
  p1 = p1 p2 = p2 p3 = p3 NoName = NoName
  Sessions = {s1, s2}
  Projects = {web, api}
  Chosen = {ann, s1}
  Refs = {s1, s2, s3, ref, ref3}
  Prefixes <- SharedPrefixes
  Procs = {p1, p2}
  Owner <- OwnerOfAll
  Known = {s1}
  Window = 1
  MaxStarts <- StartsOfKnown
  MaxClock = 2
CHECK_DEADLOCK FALSE
INVARIANTS TypeOK AddressesReachOneSession
PROPERTIES NewSessionsAreNamed ChosenNamesStick OnlyTheGoneAreDisplaced
