SPECIFICATION Spec
CONSTANTS
  s1 = s1
  s2 = s1
  Sessions = {s1}
  Conts = {c1, c2, c3}
  r1 = r1
  r2 = r2
  Rules = {r1, r2}
  Workers = {w1, w2}
  Callers = {k1}
  claude = claude
  NoAgent = NoAgent
  Given = {"waiting", "running"}
  Agents = {claude, other}
  Registrants = {claude, other}
  Adapters = {claude}
  RuleDef <- MCRules
  Injected <- MCReady
  Manual = Manual
  AnySource = AnySource
  NoLabel = NoLabel
  ManualLabel = ManualLabel
  SessionIdle = 0
  ContinuationAge = 0
  MaxErrs = 0
  MaxStimuli = 2
  MaxStops = 1
  MaxDay = 1
CONSTRAINT DayOrDays
SYMMETRY MCSymmetry
INVARIANTS TypeOK WorkerExclusion NoLostWakeUp ResultAtMostOnce OneShotFiresOnce RunningSessionIsOwed HeldRowIsRunning ArmedSessionExists
PROPERTY ImplementsQueue
