---------------------------- MODULE MCHttpsClient ----------------------------
(* Two users and one URL for every path through the client: one that does   *)
(* not parse, clear text and TLS, an address and a name.  Faults one at a   *)
(* time, and all together.                                                  *)
EXTENDS HttpsClient

CONSTANTS nixie, fetch

MCClient == {nixie, fetch}
MCUrl ==
  { [valid |-> FALSE, secure |-> FALSE, host |-> "name"],
    [valid |-> TRUE,  secure |-> FALSE, host |-> "IPV4"],
    [valid |-> TRUE,  secure |-> TRUE,  host |-> "name"] }

Survivable == Fault \ {"encrypt", "hangup"}
MCRegimes ==
  {{}, Fault, Survivable, Survivable \ {"dns"}} \cup {{f} : f \in Fault}
OnlyHangup == {{"hangup"}}
==============================================================================
