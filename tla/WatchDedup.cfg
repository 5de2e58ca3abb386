CONSTANTS
  udev = udev
  Daemon = Daemon
  h1 = h1
  h2 = h2
  home = home
  Nobody = Nobody
  NoView = NoView
  Torn = Torn
  Proc = {udev, Daemon}
  Quiet = {}
  Highlight = {h1}
  Blank = {}
  Undated = {}
  View = {home}
  ToastAllow = {}
  MaxWait <- NoPatience
  WritesMayFail = FALSE
  WalBound = 1
  Window = 2
  Cap = 3
  ClockMayStepBack = FALSE
SPECIFICATION WatchSpec
PROPERTIES DedupIsCovered
