---------------------------- MODULE NixieParser ----------------------------
(***************************************************************************)
(* How the nixie subsystem finds the value in the page the server sends    *)
(* (src/firmware/src/app_nixie.c).  The page arrives in fragments the TCP  *)
(* stack chooses, so a token that precedes the value, or the value itself, *)
(* may be cut at any byte.  The cyclic buffer glues the end of what was    *)
(* received to what arrives next.  The last action right-aligns the value. *)
(*                                                                         *)
(* The page is whatever the fragments add up to; `page' records it for the *)
(* properties.  The transaction may be reported as handled, or as failed,  *)
(* after any fragment: an abort of the connection is reported the same way *)
(* as its end.                                                             *)
(***************************************************************************)
EXTENDS Integers, Sequences, FiniteSetsExt

CONSTANTS
  Byte,       \* bytes a page is made of
  Digit,      \* bytes between '0' and '9'
  Zero,       \* the digit '0'
  Nul,        \* the byte '\0', an unused position of the display value
  Token,      \* bytes that come before the value in the page
  NumNixies,  \* number of nixie tubes
  FragmentSizes,  \* lengths of the fragments the client may deliver
  MaxPage     \* bound on the length of a page, for TLC

\* What is assumed of the constants, by the module that composes this one.
ParserAssumption ==
  /\ Zero \in Digit /\ Nul \notin Digit
  /\ Token \in Seq(Byte) /\ Token # << >>
  /\ NumNixies \in Nat \ {0}
  /\ FragmentSizes \subseteq Nat \ {0}
  /\ MaxPage \in Nat

VARIABLES
  state,            \* AppNixieState, as far as a server value is concerned
  is_value_parsed,
  cyclic_buffer,    \* its first cyclic_buffer_len bytes
  display_value,    \* display_value[0] is the least significant digit
  page              \* history: bytes delivered since the last request

vars == <<state, is_value_parsed, cyclic_buffer, display_value, page>>

Tube == 0 .. NumNixies - 1

State == {"idle", "error", "waiting", "shuffle", "display"}

Init ==
  /\ state = "idle"
  /\ is_value_parsed = FALSE
  /\ cyclic_buffer = << >>
  /\ display_value = [i \in Tube |-> Nul]
  /\ page = << >>

-----------------------------------------------------------------------------
(* Pieces of byte strings.                                                 *)

min_zz(a, b) == IF a < b THEN a ELSE b

First(s, n) == SubSeq(s, 1, min_zz(n, Len(s)))
Drop(s, n) == SubSeq(s, n + 1, Len(s))
Last(s, n) == Drop(s, Len(s) - min_zz(n, Len(s)))

\* Offsets at which the token occurs in a string.
Occurrences(s) ==
  {i \in 0 .. Len(s) - Len(Token) : SubSeq(s, i + 1, i + Len(Token)) = Token}

Contains(s) == Occurrences(s) # {}

\* The offset strstr_len finds.
strstr_len(s) == Min(Occurrences(s))

\* Number of bytes which hold the token and the whole value.
required_len == Len(Token) + NumNixies

max_cyclic_buffer_len == 2 * required_len

-----------------------------------------------------------------------------
(* Number of digits a string begins with, at most one for every tube.      *)
NumDigits(s) ==
  Max({n \in 0 .. min_zz(Len(s), NumNixies) : \A i \in 1 .. n : s[i] \in Digit})

\* The display value for the digits a string begins with: the first of them
\* goes to the most significant position, unused positions are zeroed.
parseValueFromBuffer(s) ==
  [i \in Tube |-> IF NumNixies - i <= NumDigits(s) THEN s[NumNixies - i] ELSE Nul]

Parse(s) ==
  /\ display_value' = parseValueFromBuffer(s)
  /\ is_value_parsed' = TRUE

\* How much of a fragment fits behind the bytes of the cyclic buffer.
append_suffix_len(buffer) ==
  min_zz(Len(buffer), max_cyclic_buffer_len - Len(cyclic_buffer))

Glued(buffer) == cyclic_buffer \o First(buffer, append_suffix_len(buffer))

(* Mutant: the token stays where it was found.                             *)
Moved_InPlace(buffer) == Glued(buffer)

\* The cyclic buffer moved so that it begins with the token, the space this
\* frees filled with what is left of the fragment.
Moved(buffer) ==
  LET prefix_len == strstr_len(Glued(buffer))
  IN  Drop(Glued(buffer), prefix_len)
        \o First(Drop(buffer, append_suffix_len(buffer)), prefix_len)

\* The token is in the cyclic buffer or ends in the new fragment.
TokenInCyclicBuffer(buffer) ==
  /\ Contains(Glued(buffer))
  /\ cyclic_buffer' = Moved(buffer)
  /\ IF Len(Moved(buffer)) < required_len
     THEN UNCHANGED <<display_value, is_value_parsed>>
     ELSE Parse(Drop(Moved(buffer), Len(Token)))

\* The token lies in a part of the fragment which did not fit.
TokenInFragment(buffer) ==
  /\ ~Contains(Glued(buffer)) /\ Contains(buffer)
  /\ LET found == Drop(buffer, strstr_len(buffer))
     IN  IF Len(found) >= required_len
         THEN Parse(Drop(found, Len(Token))) /\ UNCHANGED cyclic_buffer
         ELSE cyclic_buffer' = found /\ UNCHANGED <<display_value, is_value_parsed>>

(* Mutant: nothing is kept of what came before the fragment.               *)
Kept_OfFragment(buffer) == Last(buffer, required_len)

\* The bytes kept of a fragment without the token, and of those before it.
Kept(buffer) ==
  LET new == Last(buffer, required_len)
  IN  Last(cyclic_buffer, required_len - Len(new)) \o new

NoToken(buffer) ==
  /\ ~Contains(Glued(buffer)) /\ ~Contains(buffer)
  /\ cyclic_buffer' = Kept(buffer)
  /\ UNCHANGED <<display_value, is_value_parsed>>

bufferReceivedCallback(buffer) ==
  \/ /\ is_value_parsed
     /\ UNCHANGED <<cyclic_buffer, display_value, is_value_parsed>>
  \/ /\ ~is_value_parsed
     /\ \/ TokenInCyclicBuffer(buffer)
        \/ TokenInFragment(buffer)
        \/ NoToken(buffer)

-----------------------------------------------------------------------------
(* Actions.                                                                *)

waitHttpsClientAndSendRequest ==
  /\ state \in {"idle", "error", "display"}
  /\ is_value_parsed' = FALSE
  /\ cyclic_buffer' = << >>
  /\ page' = << >>
  /\ state' \in {"waiting", "error"}   \* the client may refuse the request
  /\ UNCHANGED display_value

Receive(buffer) ==
  /\ state = "waiting"
  /\ bufferReceivedCallback(buffer)
  /\ page' = page \o buffer
  /\ UNCHANGED state

requestHandledCallback ==
  /\ state = "waiting"
  /\ IF ~is_value_parsed /\ Contains(cyclic_buffer)
     THEN Parse(Drop(cyclic_buffer, Len(Token)))
     ELSE UNCHANGED <<display_value, is_value_parsed>>
  /\ state' = IF is_value_parsed' THEN "shuffle" ELSE "idle"
  /\ UNCHANGED <<cyclic_buffer, page>>

errorCallback ==
  /\ state = "waiting"
  /\ state' = "error"
  /\ UNCHANGED <<is_value_parsed, cyclic_buffer, display_value, page>>

\* Moves the digits to the least significant positions and fills the others
\* with zeros.
Shuffled(value) ==
  LET used == {i \in Tube : value[i] # Nul}
      num_leading_null == IF used = {} THEN NumNixies ELSE Min(used)
  IN  [i \in Tube |-> IF i + num_leading_null < NumNixies
                      THEN value[i + num_leading_null] ELSE Zero]

shuffleServerValueDigits ==
  /\ state = "shuffle"
  /\ display_value' = Shuffled(display_value)
  /\ state' = "display"
  /\ UNCHANGED <<is_value_parsed, cyclic_buffer, page>>

Next ==
  \/ waitHttpsClientAndSendRequest
  \/ \E n \in FragmentSizes :
       /\ Len(page) + n <= MaxPage
       /\ \E buffer \in [1 .. n -> Byte] : Receive(buffer)
  \/ requestHandledCallback
  \/ errorCallback
  \/ shuffleServerValueDigits

Spec == Init /\ [][Next]_vars

-----------------------------------------------------------------------------
(* Properties.                                                             *)

\* The digits that follow the first token of what has been received.
Number ==
  LET rest == Drop(page, strstr_len(page) + Len(Token))
  IN  First(rest, NumDigits(rest))

\* The types of the variables; the cyclic buffer never exceeds the length the
\* glueing in bufferReceivedCallback reserves for it.
TypeOK ==
  /\ state \in State
  /\ is_value_parsed \in BOOLEAN
  /\ cyclic_buffer \in Seq(Byte) /\ Len(cyclic_buffer) <= max_cyclic_buffer_len
  /\ display_value \in [Tube -> Digit \union {Nul}]
  /\ page \in Seq(Byte)

\* While the value is not parsed, the cyclic buffer of bufferReceivedCallback
\* is what was received last, with no byte twice and none missing, and when it
\* has the token then at its beginning, where requestHandledCallback reads the
\* value behind it.
CyclicBufferIsTail ==
  state = "waiting" /\ ~is_value_parsed =>
    /\ cyclic_buffer = Last(page, Len(cyclic_buffer))
    /\ Contains(cyclic_buffer) => strstr_len(cyclic_buffer) = 0

\* Whatever the fragments the page arrives in, what bufferReceivedCallback or
\* requestHandledCallback has parsed are the digits behind the first token of
\* the page: no digit of the value is cut off, no later token is used.
ParsedIsOnPage ==
  is_value_parsed /\ state \in {"waiting", "shuffle"} =>
    /\ Contains(page)
    /\ \A i \in Tube : display_value[i] =
         IF NumNixies - i <= Len(Number) THEN Number[NumNixies - i] ELSE Nul

\* A token never gets lost between two fragments: when requestHandledCallback
\* goes back to the idle state there was none in the page.
TokenIsNotMissed ==
  state = "idle" => ~Contains(page)

\* What shuffleServerValueDigits passes on to the tubes is the number of the
\* page, aligned to the right and filled with zeros on its left.
DisplayIsRightAligned ==
  state = "display" =>
    \A i \in Tube : display_value[i] =
      IF i < Len(Number) THEN Number[Len(Number) - i] ELSE Zero

=============================================================================
