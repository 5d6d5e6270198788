SPECIFICATION Spec
CONSTANTS
  s1 = s1
  s2 = s2
  s3 = s3
  h1 = h1
  h2 = h2
  six = six
  Source = {s1, s2, s3}
  TypeOf <- Types
  Host = {h1, h2, six}
  Six = {six}
  NoHost = NoHost
  Bodies <- Texts
CHECK_DEADLOCK FALSE
INVARIANTS
  NoRepeats
  Complete
  ProxiesOffered
