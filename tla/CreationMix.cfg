SPECIFICATION FairSpec
CONSTANTS
  k1 = k1
  k2 = k2
  c1 = c1
  c2 = c2
  c3 = c3
  v1 = v1
  w1 = w1
  w2 = w2
  b1 = b1
  b2 = b2
  NoBody = NoBody
  Keys <- MCMixKeys
  Kind <- MCMixKind
  Space <- MCMixSpace
  Spaces <- MCMixSpaces
  Existing = {}
  Calls <- MCMixCalls
  KeyOf <- MCMixKeyOf
  BodyOf <- MCMixBodyOf
  Bodies <- MCBodies
  Subscribing = {}
  Watchers <- MCWatcher
  MaxListeners = 2
  Limit = 1
  Faults <- MCFaultsMix
INVARIANTS
  AdmissionWithinLimit
PROPERTIES
  AnswersArrive
