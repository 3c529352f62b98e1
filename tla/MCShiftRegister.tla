--------------------------- MODULE MCShiftRegister ---------------------------
(* Two chained registers.  The payloads are asymmetric in every way the     *)
(* driver could confuse: byte order, bit order, a repeated or a lost bit.   *)
EXTENDS ShiftRegister

Bits(S) == [b \in 0..7 |-> IF b \in S THEN 1 ELSE 0]

MCPayloads ==
  { [i \in 0..MaxData-1 |-> Bits({})],
    [i \in 0..MaxData-1 |-> IF i = 0 THEN Bits({0, 1, 4}) ELSE Bits({6})],
    [i \in 0..MaxData-1 |-> IF i = 0 THEN Bits({7, 2}) ELSE Bits({0, 5, 6, 7})] }

MCPowerOn == { [i \in Stage |-> 1] }
==============================================================================
