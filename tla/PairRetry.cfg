CONSTANTS
  cloud = cloud
  lan = lan
  NoFile = NoFile
  Empty = Empty
  Garbled = Garbled
  i1 = i1
  i2 = i2
  Id = {i1, i2}
  Backend = {cloud}
  CodeTTL = 3
  DecisionWindow = 2
  ConnectMayFail = FALSE
SPECIFICATION Spec
PROPERTY RetryMeansRetry
