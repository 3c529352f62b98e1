-------------------------- MODULE MCNetworkSetup --------------------------
(***************************************************************************)
(* The two interfaces of the board, and a stack without WiFi.  WiFi may    *)
(* have an address or none; the address of the other interface is seen by  *)
(* nothing but ip_wait, which WiFi shows.  Two retries before the limit,   *)
(* and two failed polls beyond it before the counter starts again.         *)
(***************************************************************************)
EXTENDS NetworkSetup

MCNets == {"PIC32INT", "MRF24W"}
MCStacks == {MCNets, {"PIC32INT"}}
MCAddresses == [net \in MCNets |-> IF net = "MRF24W" THEN {0, 1} ELSE {0}]
=============================================================================
