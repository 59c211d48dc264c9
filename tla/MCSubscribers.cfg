SPECIFICATION SubscribersSpec
CONSTANTS
  s1 = s1
  s2 = s2
  m1 = m1
  m2 = m2
  bad = bad
  Subs = {s1, s2}
  Messages = {m1, m2, bad}
  Certificates = {s1}
  ValidPayload = {m1, m2}
  Nothing = Nothing
  Damaged = Damaged
  Request <- MCRequest
  TopicOf <- MCTopicOf
  Capacity = 1
INVARIANTS
  SubscribersTypeOK
  NoPanic
  InOrder
  FilesAreLatest
PROPERTIES
  BufferedIsHandled
  ConsumersEnd
  
  CredentialsStored
CHECK_DEADLOCK FALSE
