CONSTANTS
  udev = udev
  daemon = daemon
  menu = menu
  Proc = {udev, daemon, menu}
  MaxBytes = 4
  MaxLen = 2
  MaxLines = 6
SPECIFICATION Spec
INVARIANTS SizeBounded WholeLines NewestKept
PROPERTY ImplementsRollingLog
SYMMETRY ProcSymmetry
