---------------------------- MODULE MCPlatform ----------------------------
(***************************************************************************)
(* The queue of the USB function driver as it is configured, one idle rate *)
(* (no decision depends on it) and every command.                          *)
(***************************************************************************)
EXTENDS Platform

MCTyped == Command
MCIdleRates == {0}
=============================================================================
