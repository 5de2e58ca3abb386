CONSTANTS
  cloud = cloud
  lan = lan
  NoFile = NoFile
  Empty = Empty
  Garbled = Garbled
  i1 = i1
  i2 = i2
  Id = {i1, i2}
  Backend = {cloud, lan}
  CodeTTL = 2
  DecisionWindow = 1
  ConnectMayFail = TRUE
SPECIFICATION FairSpec
INVARIANTS TypeOK PairedHasURL ExitCodeHonest
PROPERTIES DialogsEnd DialogProgress ImplementsPairStore
