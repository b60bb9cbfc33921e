SPECIFICATION OpenSpec
CONSTANTS
  h1 = h1
  h2 = h2
  s1 = s1
  s2 = s2
  Hosts = {h1, h2}
  NPorts = 2
  Setups <- AllSetups
  NoDev = NoDev
  NoSerial = NoSerial
  NoHost = NoHost
  Whichever = Whichever
  List = List
  USB_STRING_ATTEMPTS = 2
  Matches = 2
  MaxGlitch = 2
  MaxFail = 1
  MaxPlug = 2
INVARIANTS RightDevice NothingLeft
PROPERTIES Served
CHECK_DEADLOCK FALSE
