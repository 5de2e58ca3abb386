CONSTANTS
  udev = udev
  menu = menu
  h1 = h1
  h2 = h2
  home = home
  book = book
  Nobody = Nobody
  NoView = NoView
  Torn = Torn
  Proc = {udev, menu}
  Quiet = {menu}
  Highlight = {h1}
  Blank = {}
  Undated = {h1}
  View = {home}
  ToastAllow = {home}
  MaxWait <- NoPatience
  WritesMayFail = FALSE
SPECIFICATION DeliverySpec
PROPERTY Delivered
