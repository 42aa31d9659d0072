SPECIFICATION Spec
CONSTANTS
  k1 = k1
  k2 = k2
  c1 = c1
  c2 = c2
  c3 = c3
  v1 = v1
  w1 = w1
  w2 = w2
  b1 = b1
  b2 = b2
  NoBody = NoBody
  Keys <- MCKey
  Kind <- MCKeyKind
  Space <- MCKeySpace
  Spaces <- MCSpace
  Existing = {}
  Calls <- MCTwoCalls
  KeyOf <- MCKeyCalls
  BodyOf <- MCSameBody
  Bodies <- MCBody
  Subscribing <- MCSubscriber
  Watchers <- MCWatcher
  MaxListeners = 2
  Limit = 1
  Faults <- MCFaultsKey
INVARIANTS
  AgentCreatedOnce
PROPERTIES
  RecordIsFinal
  KeyedRequestImplemented
