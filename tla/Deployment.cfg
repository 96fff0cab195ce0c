SPECIFICATION Spec
CONSTANTS
  hub = hub
  git = git
  sim = sim
  web = web
  api = api
  None = None
  Requests = {hub, git, sim}
  Kind <- Kinds
  Name <- Names
  Want <- Wants
  StartPort = 3000
  Ops = {"start", "stop", "delete"}
  Faults = {"docker", "git", "exec", "commit", "crash"}
INVARIANTS TypeOK PortsDistinct AnswerTrue NoneLeftPending KnownClonesRemoved
PROPERTIES AbandonedForCause
CHECK_DEADLOCK FALSE
