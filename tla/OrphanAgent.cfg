SPECIFICATION Spec
CONSTANTS
  s1 = s1
  s2 = s1
  Sessions = {s1}
  Conts = {c1, c2}
  r1 = r1
  r2 = r2
  Rules = {r1, r2}
  Workers = {w1, w2}
  Callers = {k1}
  claude = claude
  NoAgent = NoAgent
  Given = {"waiting"}
  Agents = {claude}
  Registrants = {claude}
  Adapters = {claude}
  RuleDef <- MCRules
  Injected <- MCReadyWithPort
  Manual = Manual
  AnySource = AnySource
  NoLabel = NoLabel
  ManualLabel = ManualLabel
  SessionIdle = 0
  ContinuationAge = 0
  MaxErrs = 0
  MaxStimuli = 1
  MaxStops = 1
  MaxDay = 0
SYMMETRY MCSymmetry
INVARIANT OneAgentPerSession
