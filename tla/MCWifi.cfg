SPECIFICATION FairSpec
CONSTANTS
  wpa = wpa
  open = open
  None = None
  AP = {wpa, open}
  Security <- BothKinds
  QueueMax = 1
  Requests <- AllRequests
INVARIANTS TypeOK KeyedBeforeData NoStaleKeys RevokedWithLink CarrierAgrees DropUnencrypted
PROPERTIES QueueWoken RemovalNoticed
