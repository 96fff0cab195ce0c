SPECIFICATION Spec
CONSTANTS
  hub = hub
  git = git
  sim = sim
  web = web
  api = api
  None = None
  Requests = {hub, git, sim}
  Kind <- Kinds
  Name <- Names
  Want <- Wants
  StartPort = 3000
  Ops = {}
  Faults = {"exec"}
INVARIANTS ClonesRemoved
CHECK_DEADLOCK FALSE
