SPECIFICATION Spec
CONSTANTS
  h1 = h1
  h2 = h2
  a = a
  b = b
  Handler = {h1, h2}
  Client = {a, b}
  NoClient = NoClient
  Healthy = {a}
  AnswerTime = 1
  Timeout = 3
  MaxRetries = 2
  Good = {h1}
  Broken = {}
CHECK_DEADLOCK FALSE
INVARIANTS
  UploadsLastAnswer
PROPERTIES
  HealthyLostOnlyLate
