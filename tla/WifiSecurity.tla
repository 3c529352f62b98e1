---------------------------- MODULE WifiSecurity ----------------------------
(***************************************************************************)
(* The iwsecurity command (app_command_wifi.c): a mode and a key from the  *)
(* console become what the WiFi driver is told to secure the network with. *)
(***************************************************************************)
EXTENDS Integers, Sequences

CONSTANTS
  Keys  \* what may be typed for a key: a name for the text, and its length

\* What is assumed of the constants, by the module that composes this one.
WifiAssumption == \A key \in Keys : key.length \in Nat

VARIABLES
  security,  \* external: the last DRV_WIFI_SecurityWepSet or OpenSet
  argv       \* words of the command line that are in the console's array,
             \* argv[0] left out; those behind argc are from earlier lines

wifi_vars == <<security, argv>>

Mode == {"wep40", "wep104", "wpa", "wpa2", "pin"}

Init ==
  /\ security = [type |-> "none"]
  /\ argv = [i \in 1..3 |-> "none"]

\* The numbers of characters a key of the mode may have.
KeyLength(mode) ==
  CASE mode = "wep40" -> {10}
    [] mode = "wep104" -> {26}
    [] mode \in {"wpa", "wpa2"} -> 8..63
    [] mode = "pin" -> {8}

\* IwSecurity_Set_*: the length and the text of the key are given apart.
Set(mode, text, length) ==
  security' = [type |-> mode, key |-> text, length |-> length]

\* The console puts the words of a line into its array.
Typed(words) ==
  argv' = [i \in 1..3 |-> IF i <= Len(words) THEN words[i] ELSE argv[i]]

IwSecurity_Set_None ==
  /\ Typed(<<"open">>)
  /\ security' = [type |-> "open"]

IwSecurity_Set_Key(mode, key) ==
  /\ mode # "pin" /\ key.length \in KeyLength(mode)
  /\ Typed(<<mode, key.text>>)
  /\ Set(mode, key.text, key.length)

\* The text is taken from the word behind the pin.
IwSecurity_Set_WPSPIN(key) ==
  /\ key.length \in KeyLength("pin")
  /\ Typed(<<"pin", key.text>>)
  /\ Set("pin", argv[3], key.length)

\* A wrong length, or words the command does not know.
Refused(mode, key) ==
  /\ \/ key.length \notin KeyLength(mode) /\ Typed(<<mode, key.text>>)
     \/ Typed(<<mode, key.text, key.text>>)
  /\ UNCHANGED security

APP_Command_IwSecurity ==
  \/ IwSecurity_Set_None
  \/ \E key \in Keys :
       \/ IwSecurity_Set_WPSPIN(key)
       \/ \E mode \in Mode : IwSecurity_Set_Key(mode, key) \/ Refused(mode, key)

Spec == Init /\ [][APP_Command_IwSecurity]_wifi_vars

=============================================================================
