SPECIFICATION Spec
CONSTANTS
  Ids = {i1, i2}
  Targets = {db, dist}
  NoTarget = NoTarget
  Fragile = {dist}
  Handles = {h1, h2, h3}
  NoHandle = NoHandle
  Handlers = {k1}
  MaxStops = 0
  MaxErrs = 0
  Gaps <- MCGaps
  Threshold = 3
  MaxQueue = 3
  Branches = {main, topic}
  MaxGit = 4
  MaxLines = 0
SYMMETRY MCSymmetry
INVARIANT CreationReports
