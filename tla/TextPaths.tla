----------------------------- MODULE TextPaths -----------------------------
(***************************************************************************)
(* Text in, parts out: the four places where single characters decide what *)
(* happens.  A page of the server becomes a value, a value or an argument  *)
(* of "nixie display" becomes bits of the registers, the text of a request *)
(* the parts of a URL, and "iwsecurity" with its key the security of the   *)
(* WiFi module.  A behaviour stays with one of them: they share nothing at *)
(* this level but the state of the nixie subsystem, which is idle in       *)
(* between, so that taking turns would show nothing new.  The page has an  *)
(* alphabet and tubes of its own.                                          *)
(***************************************************************************)
EXTENDS Naturals, Sequences

CONSTANTS
  Byte, PageDigit, Zero, PageNul, Token, NumNixies, FragmentSizes, MaxPage,
                                               \* of NixieParser
  Arguments, ServerValues,                     \* of NixieDisplay
  MaxUrl, MaxHost, MaxPart, Questions, Texts,  \* of UrlParser
  Keys                                         \* of WifiSecurity

VARIABLES
  path,          \* which of them
  nixie_state,   \* AppNixieData::state
  is_value_parsed, cyclic_buffer, parsed_value, page,
  display_value, cathodes, register_shift_state, outputs, requested,
  https_state,   \* AppHTTPSClientData::state
  request_url, parts, asked,
  security, argv

Parser == INSTANCE NixieParser
            WITH state <- nixie_state, display_value <- parsed_value,
                 Digit <- PageDigit, Nul <- PageNul
Display == INSTANCE NixieDisplay WITH state <- nixie_state
Https == INSTANCE UrlParser WITH state <- https_state
Wifi == INSTANCE WifiSecurity

ASSUME TextPathsAssumption ==
  /\ Parser!ParserAssumption
  /\ Display!DisplayAssumption
  /\ Https!UrlAssumption
  /\ Wifi!WifiAssumption

page_vars == <<is_value_parsed, cyclic_buffer, parsed_value, page>>
display_vars == <<display_value, cathodes, register_shift_state, outputs,
                  requested>>
url_vars == <<https_state, request_url, parts, asked>>
wifi_vars == <<security, argv>>
vars == <<path, nixie_state, page_vars, display_vars, url_vars, wifi_vars>>

Init ==
  /\ path \in {"page", "display", "url", "security"}
  /\ Parser!Init /\ Display!Init /\ Https!Init /\ Wifi!Init

ServerPage ==
  /\ path = "page" /\ Parser!Next
  /\ UNCHANGED <<path, display_vars, url_vars, wifi_vars>>

DisplayedValue ==
  /\ path = "display" /\ Display!Next
  /\ UNCHANGED <<path, page_vars, url_vars, wifi_vars>>

RequestUrl ==
  /\ path = "url" /\ Https!Next
  /\ UNCHANGED <<path, nixie_state, page_vars, display_vars, wifi_vars>>

IwSecurity ==
  /\ path = "security" /\ Wifi!APP_Command_IwSecurity
  /\ UNCHANGED <<path, nixie_state, page_vars, display_vars, url_vars>>

Next == ServerPage \/ DisplayedValue \/ RequestUrl \/ IwSecurity

Spec == Init /\ [][Next]_vars
-----------------------------------------------------------------------------
(* While the value is not parsed, the cyclic buffer is what was received   *)
(* last, with no byte twice and none missing (bufferReceivedCallback).     *)
CyclicBufferIsTail == path = "page" => Parser!CyclicBufferIsTail

(* Whatever the fragments the page arrives in: what is parsed are the      *)
(* digits behind its first token, the tubes get them aligned to the right, *)
(* and no value is found only if there is no token (parseValueFromBuffer,  *)
(* shuffleServerValueDigits, requestHandledCallback).                      *)
ValueIsFound ==
  path = "page" => /\ Parser!ParsedIsOnPage
                   /\ Parser!DisplayIsRightAligned
                   /\ Parser!TokenIsNotMissed

(* Every tube glows with exactly the symbol asked for, and nothing else is *)
(* driven (decodeDisplayValue, encodeShiftRegister, writeShiftRegister).   *)
TubesShowValue == path = "display" => Display!TubesShowValue

(* The parts of a URL are the ones it was put together from, whatever      *)
(* earlier requests have left behind; the path only of a URL that has one, *)
(* or nothing behind its host (urlParseGetParts).                          *)
PartsAreTheOnesAskedFor == Https!PartsAreTheOnesAskedFor

(* No part of a URL shows what an earlier request has left in the array    *)
(* (strchr_any_len, safe_strncpy_len).                                     *)
NothingFromEarlierRequests == Https!NothingFromEarlierRequests
=============================================================================
