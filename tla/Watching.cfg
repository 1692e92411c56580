SPECIFICATION Spec
CONSTANTS
  Ids = {i1, i2}
  Targets = {db, dist}
  NoTarget = NoTarget
  Fragile = {dist}
  Handles = {h1, h2, h3}
  NoHandle = NoHandle
  Handlers = {k1, k2}
  MaxStops = 1
  MaxErrs = 1
  Gaps <- MCGaps
  Threshold = 3
  MaxQueue = 6
  Branches = {main, topic}
  MaxGit = 4
  MaxLines = 5
CONSTRAINT WatchesOrErrors
SYMMETRY MCSymmetry
INVARIANTS TypeOK WatcherKeepsItsEntry EntryIsLive RowIsWatched StableIsBelieved FileConverges ChangesReported DockerConverges LoneSwitchReported
PROPERTIES FlapSuppressed StopIsNoOutage
