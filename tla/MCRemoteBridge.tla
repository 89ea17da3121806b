--------------------------- MODULE MCRemoteBridge ---------------------------
(***************************************************************************)
(* RemoteBridge with few enough requests and sockets that a socket can be  *)
(* replaced by the next while the public server still holds the old one.   *)
(***************************************************************************)
EXTENDS RemoteBridge, TLC

CONSTANTS home, cabin, k1, k2

=============================================================================
