------------------------------- MODULE MCWifi -------------------------------
(* Instances of Wifi: every ioctl over a WPA and an open network; and changes  *)
(* of network only, over an open one.                                          *)
EXTENDS Wifi, TLC

CONSTANTS wpa, open

BothKinds == wpa :> "wpa" @@ open :> "open"

AllRequests ==
  {"wpa", "cipher", "key", "wep", "drop", "countermeasures", "essid", "ap", "mlme"}
EssidOnly == {"essid"}

OpenOnly == open :> "open"
=============================================================================
