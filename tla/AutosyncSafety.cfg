CONSTANTS
  udev = udev
  menu = menu
  h1 = h1
  h2 = h2
  home = home
  book = book
  Nobody = Nobody
  NoView = NoView
  Torn = Torn
  Proc = {udev, menu}
  Quiet = {menu}
  Highlight = {h1, h2}
  Blank = {}
  Undated = {}
  View = {home}
  ToastAllow = {home}
  MaxWait <- OneCadence
  WritesMayFail = FALSE
SPECIFICATION Spec
INVARIANTS TypeOK OneRunAtATime RecordHonest ToastIsNews
PROPERTY BaselineNeverForgets
SYMMETRY HighlightSymmetry
