SPECIFICATION Spec
CONSTANTS
  a = a
  home = home
  topic = topic
  elsewhere = elsewhere
  everywhere = everywhere
  b = b
  e = e
  idea = idea
  echo = echo
  obs = obs
  unopened = unopened allTime = allTime unknownTerms = unknownTerms
  Sessions = {a, b, e}
  Cands = {idea, echo}
  Observation = obs
  Notes = {idea, echo, obs}
  Home <- HomeThree
  Topics <- TopicsTwo
  TopicsOf <- TopicsOfThree
  Refuses <- RefusesOne
  Days <- DaysFour
  Threshold = 2
  TTL = 0
  MaxCommands = 4
  MaxTime = 1
  MaxDeaths = 1
  Nobody = Nobody
INVARIANTS TypeOK StrikesAreIndependent DecisionsRestOnEvidence ReceiptAddsUp
PROPERTIES StrikesAreKept OffersAreOpen
CHECK_DEADLOCK FALSE
