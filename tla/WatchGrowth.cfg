CONSTANTS
  udev = udev
  Daemon = Daemon
  h1 = h1
  h2 = h2
  home = home
  Nobody = Nobody
  NoView = NoView
  Torn = Torn
  Proc = {Daemon}
  Quiet = {}
  Highlight = {h1, h2}
  Blank = {h2}
  Undated = {}
  View = {home}
  ToastAllow = {}
  MaxWait <- NoPatience
  WritesMayFail = FALSE
  WalBound = 1
  Window = 2
  Cap = 3
  ClockMayStepBack = FALSE
SPECIFICATION WatchSpec
INVARIANTS AdditionSeen AdvanceForCause MissingIsGrowth
PROPERTY EvaluationProgress
