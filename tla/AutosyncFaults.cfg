CONSTANTS
  udev = udev
  menu = menu
  h1 = h1
  h2 = h2
  home = home
  book = book
  Nobody = Nobody
  NoView = NoView
  Torn = Torn
  Proc = {udev, menu}
  Quiet = {menu}
  Highlight = {h1}
  Blank = {}
  Undated = {}
  View = {home, book}
  ToastAllow = {home}
  MaxWait <- OneCadence
  WritesMayFail = TRUE
SPECIFICATION FairSpec
INVARIANT RecordHonest
PROPERTIES BaselineNeverForgets ImplementsSerialSync RunsEnd RunProgress
