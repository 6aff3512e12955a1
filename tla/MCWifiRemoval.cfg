SPECIFICATION Spec
CONSTANTS
  wpa = wpa
  open = open
  None = None
  AP = {open}
  Security <- OpenOnly
  QueueMax = 2
  Requests <- EssidOnly
INVARIANT RemovalStops
