CONSTANTS
  menu = menu
  shell = shell
  run1 = run1
  run2 = run2
  i1 = i1
  i2 = i2
  i3 = i3
  cloud = cloud
  lan = lan
  public = public
  NoFile = NoFile
  Empty = Empty
  Garbled = Garbled
  Pairing = {menu}
  Id = {i1}
  Backend = {cloud, lan}
  Reader = {run1}
  Default = cloud
  Trusted = {cloud, lan}
  MaxMishaps = 0
SPECIFICATION StoreSpec
INVARIANT SentToMinter
