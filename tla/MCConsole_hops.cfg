\* What was given for one ring's gates, on the way into the next.
SPECIFICATION ConsoleSpec
CONSTANTS
  a = a
  b = b
  s = s
  t = t
  here1 = here1
  there1 = there1
  t1 = t1
  t2 = t2
  Scenes = {"gates"}
  Site = {s, t}
  App = {a, b}
  NoPage = NoPage
  Remote = {r1}
  Local = l
  Server = {here1, there1}
  Home = here1
  Credential = {t1, t2}
  None = None
  Granted <- MCGranted
  MaxRequests = 2
  MaxActs = 4
  Hop = {1, 2}
  MaxGestures = 6
  MaxPosts = 2
  MaxSteps = 4
  MaxMoves = 3
  MaxJobs = 2
  HomeSite = s
  Configured <- MCConfigured
  Legacy <- MCLegacy
  MaxGroups = 3
  MaxEdits = 3
  Depth = 3
  MaxBuilds = 2
  MaxTurns = 3
  MaxStrokes = 6
  MaxRuns = 2
  MaxLives = 2
  MaxClicks = 3
  v1 = v1
  v2 = v2
  Version = {v1, v2}
  NotGiven = NotGiven
  Targets <- MCTargets
  MaxEvents = 4
  Shapes <- MCShapes
  Asks <- MCAsks
  Slack = 1
  MaxTime = 3
  Slot = {1, 2}
  Said <- MCSaid
  MaxNews = 3
INVARIANTS
  HopsFailClosed
CHECK_DEADLOCK FALSE
