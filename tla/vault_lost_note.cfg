SPECIFICATION Spec
CONSTANTS
  agent = agent
  host = host
  hook = hook older = older newer = newer decision = decision noLink = noLink noPart = noPart nothing = nothing illegible = illegible
  open = open close = close firstLine = firstLine lastLine = lastLine newline = newline removed = removed
  block = block key = key bearer = bearer secret = secret pair = pair cleanPair = cleanPair word = word
  Dirs = {"projects", "captures"}
  Procs = {agent, hook, host}
  Runs <- RunsHooks
  SlugLimit = 2
  AutoIndexLimit = 2
  People = FALSE
  MaxWrites = 3
  MaxDeaths = 1
  Nobody = Nobody

PROPERTIES NotesAreKept
