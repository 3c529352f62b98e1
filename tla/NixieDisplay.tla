---------------------------- MODULE NixieDisplay ----------------------------
(***************************************************************************)
(* From a value to the cathodes that glow: the display sequence of the     *)
(* nixie subsystem (src/firmware/src/app_nixie.c) for the display which is *)
(* really built, four IN-12A tubes behind six shift registers, and the way *)
(* a value takes from the console (src/firmware/src/app_command_nixie.c).  *)
(*                                                                         *)
(* A character is its ASCII code.  A register is the set of its bits which *)
(* are one.  What the shift register driver does with the data it is given *)
(* is the business of ShiftRegister; here a transfer is a single step, at  *)
(* whose end register 0 of the chain, the nearest one, has the last byte.  *)
(***************************************************************************)
EXTENDS Integers, Sequences, FiniteSets

CONSTANTS
  Arguments,     \* arguments of "nixie display", sequences of characters
  ServerValues   \* display values shuffleServerValueDigits leaves

num_nixies == 4
num_shift_registers == 6

Tube == 0 .. num_nixies - 1
Register == 0 .. num_shift_registers - 1
Char == 0 .. 127
Nul == 0
Digit == 48 .. 57

\* What is assumed of the constants, by the module that composes this one.
DisplayAssumption ==
  /\ Arguments \subseteq Seq(Char \ {Nul})
  /\ ServerValues \subseteq [Tube -> Digit]

\* Registers and bits of the cathodes 2, 3, .. 11 of every tube.
Wiring == <<
  <<<<3,3>>, <<3,1>>, <<3,4>>, <<3,0>>, <<3,5>>, <<2,7>>, <<3,6>>, <<2,6>>, <<3,7>>, <<2,5>>>>,
  <<<<2,0>>, <<1,6>>, <<2,1>>, <<1,5>>, <<2,2>>, <<1,4>>, <<2,3>>, <<1,0>>, <<2,4>>, <<1,1>>>>,
  <<<<1,2>>, <<0,0>>, <<1,3>>, <<0,1>>, <<0,7>>, <<0,2>>, <<0,6>>, <<0,3>>, <<0,5>>, <<5,3>>>>,
  <<<<4,5>>, <<4,6>>, <<4,4>>, <<5,7>>, <<5,0>>, <<5,6>>, <<5,1>>, <<5,5>>, <<5,2>>, <<5,4>>>>
>>

\* The symbols the diagram gives these cathodes; the code does not keep them.
Symbol == <<"0", "9", "8", "7", "6", "5", "4", "3", "2", "1">>

VARIABLES
  state,                 \* AppNixieState, the display sequence
  display_value,         \* display_value[0] is the least significant digit
  cathodes,              \* cathode to glow per tube, -1 for none
  register_shift_state,  \* what is sent to the registers
  outputs,               \* external: what the registers hold
  requested              \* history: the characters to be shown, left to right

vars == <<state, display_value, cathodes, register_shift_state, outputs, requested>>

State == {"idle", "decode", "encode", "write"}

Init ==
  /\ state = "idle"
  /\ display_value = [i \in Tube |-> Nul]
  /\ cathodes = [i \in Tube |-> 0]
  /\ register_shift_state = [r \in Register |-> {}]
  /\ outputs = [r \in Register |-> {}]
  /\ requested = << >>

-----------------------------------------------------------------------------
(* The console.  What strncpy puts into the array of the command, and what *)
(* it copies from that array into the display value: it stops at a '\0'.   *)

CopyOfArgument(argument) ==
  [i \in Tube |-> IF i < Len(argument) THEN argument[i + 1] ELSE Nul]

reverse_bytes(value) == [i \in Tube |-> value[num_nixies - 1 - i]]

UpToNul(value) ==
  [i \in Tube |-> IF \E j \in 0 .. i : value[j] = Nul THEN Nul ELSE value[i]]

APP_Nixie_Display(argument) ==
  /\ state = "idle"
  /\ display_value' = UpToNul(reverse_bytes(CopyOfArgument(argument)))
  /\ requested' = argument
  /\ state' = "decode"
  /\ UNCHANGED <<cathodes, register_shift_state, outputs>>

\* A value of the server is in place when the display sequence begins.
DisplayServerValue(value) ==
  /\ state = "idle"
  /\ display_value' = value
  /\ requested' = [i \in 1 .. num_nixies |-> value[num_nixies - i]]
  /\ state' = "decode"
  /\ UNCHANGED <<cathodes, register_shift_state, outputs>>

-----------------------------------------------------------------------------
(* The display sequence.                                                   *)

(* Mutant: no upper bound of the digits.                                   *)
IN12A_SymbolToCathodeIndex_NoUpperBound(symbol) ==
  CASE symbol = 48 -> 2
    [] symbol > 48 -> 12 - (symbol - 48)
    [] OTHER -> -1

IN12A_SymbolToCathodeIndex(symbol) ==
  CASE symbol = 48 -> 2
    [] symbol > 48 /\ symbol <= 57 -> 12 - (symbol - 48)
    [] OTHER -> -1

decodeDisplayValue ==
  /\ state = "decode"
  /\ cathodes' = [i \in Tube |->
                    IN12A_SymbolToCathodeIndex(display_value[num_nixies - i - 1])]
  /\ state' = "encode"
  /\ UNCHANGED <<display_value, register_shift_state, outputs, requested>>

\* Register and bit of the cathode of a tube.
cathode_mapping(tube, cathode) == Wiring[tube + 1][cathode - 1]

\* The bytes of the transfer, with the bits of the lit cathodes added to what
\* they held.  The first byte goes to the last register.
WithCathodes(data) ==
  [num_byte \in Register |->
     data[num_byte] \union
       {cathode_mapping(i, cathodes[i])[2] : i \in
          {t \in Tube : /\ cathodes[t] # -1
                        /\ num_byte = num_shift_registers
                             - cathode_mapping(t, cathodes[t])[1] - 1}}]

EncodedRegisters == WithCathodes([r \in Register |-> {}])

encodeShiftRegister ==
  /\ state = "encode"
  /\ register_shift_state' = EncodedRegisters
  /\ state' = "write"
  /\ UNCHANGED <<display_value, cathodes, outputs, requested>>

\* External: the chain after a transfer of the bytes.
Shifted(data) == [r \in Register |-> data[num_shift_registers - 1 - r]]

writeShiftRegister ==
  /\ state = "write"
  /\ outputs' = Shifted(register_shift_state)
  /\ state' = "idle"
  /\ UNCHANGED <<display_value, cathodes, register_shift_state, requested>>

Next ==
  \/ \E argument \in Arguments : APP_Nixie_Display(argument)
  \/ \E value \in ServerValues : DisplayServerValue(value)
  \/ decodeDisplayValue
  \/ encodeShiftRegister
  \/ writeShiftRegister

Spec == Init /\ [][Next]_vars

-----------------------------------------------------------------------------
(* Properties.                                                             *)

\* The types of the variables; every cathode index is one the tubes have.
TypeOK ==
  /\ state \in State
  /\ display_value \in [Tube -> Char]
  /\ cathodes \in [Tube -> {-1, 0} \union 2 .. 11]
  /\ register_shift_state \in [Register -> SUBSET (0 .. 7)]
  /\ outputs \in [Register -> SUBSET (0 .. 7)]
  /\ requested \in Seq(Char)

\* The symbols which glow in a tube, by the diagram.
Glow(tube) ==
  {Symbol[k] : k \in {j \in DOMAIN Symbol :
     LET wire == Wiring[tube + 1][j] IN wire[2] \in outputs[wire[1]]}}

\* The symbol of a character; only digits have one.
SymbolOf(char) ==
  IF char \in Digit
  THEN {<<"0", "1", "2", "3", "4", "5", "6", "7", "8", "9">>[char - 47]}
  ELSE {}

\* Once decodeDisplayValue, encodeShiftRegister and writeShiftRegister are
\* done with a value that fills the display, every tube glows with exactly the
\* symbol asked for, from left to right, by the labels of the wiring diagram
\* which the code that counts cathodes does not know, and a tube whose
\* character is no digit is dark.  What an earlier value has lit is gone, and
\* no wire is driven that belongs to no cathode, or to two tubes.
TubesShowValue ==
  state = "idle" =>
    /\ Len(requested) >= num_nixies =>
         \A t \in Tube : Glow(t) = SymbolOf(requested[t + 1])
    /\ \A r \in Register : \A bit \in outputs[r] :
         Cardinality({t \in Tube :
           \E k \in DOMAIN Symbol : Wiring[t + 1][k] = <<r, bit>>}) = 1

=============================================================================
