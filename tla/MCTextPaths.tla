---------------------------- MODULE MCTextPaths ----------------------------
(***************************************************************************)
(* Page: a token of three bytes, one of which occurs twice, and two tubes: *)
(* five bytes hold the token and the value and ten fit into the cyclic     *)
(* buffer, so that a page of MaxPage = 11 bytes fills it, overflows it and *)
(* has the token at every distance from either end, cut into up to three   *)
(* fragments.  A fragment that overflows it has six bytes or more; with    *)
(* all lengths in FragmentSizes the reachable states are the same.  Zero   *)
(* is not among the bytes of a page, so that a zero on the tubes is one    *)
(* shuffleServerValueDigits has put there.                                 *)
(*                                                                         *)
(* Display: every pair of digits on neighbouring tubes, so that every tube *)
(* shows all digits after all others, and arguments of up to five          *)
(* characters: the first and the last digit, and the characters next to    *)
(* them in the ASCII table.                                                *)
(*                                                                         *)
(* URLs: each part alone, all of them, one with an authority too short to  *)
(* be taken for one, and one whose parts are too long for the buffers, in  *)
(* every order that leaves something different behind in the array, with   *)
(* texts that have no colon, or no slashes behind it.                      *)
(*                                                                         *)
(* Keys: of every length at which some mode begins or ends to take them.   *)
(***************************************************************************)
EXTENDS TextPaths

CONSTANTS a, b, One

MCToken == <<a, b, a>>

MCChar == {47, 48, 57, 58}
MCArguments ==
  UNION {[1 .. n -> MCChar] : n \in 1 .. 4} \union [1 .. 5 -> {48, 57}]
MCServerValues ==
  {[i \in 0 .. 3 |-> IF i % 2 = 0 THEN p[1] ELSE p[2]] :
     p \in (48 .. 57) \X (48 .. 57)}

If(part, s, text) == IF part \in s THEN text ELSE <<>>
MCQuestions ==
  {[scheme |-> IF "password" \in s THEN "http" ELSE "https",
    user |-> If("user", s, <<"u">>),
    password |-> If("password", s, <<"p">>),
    host |-> <<"h">> \o If("name", s, <<"i", "j">>) \o If("long", s, <<"k", "l">>),
    port |-> If("port", s, <<"8", "1">>),
    path |-> If("path", s, <<"/", "a">>) \o If("long", s, <<"/", "b", "b", "b", "b", "b">>),
    query |-> If("query", s, <<"q">>),
    fragment |-> If("fragment", s, <<"f">>)] :
     s \in {{}, {"name"}, {"name", "port"}, {"name", "query"},
            {"name", "fragment"}, {"path", "query"}, {"name", "user"},
            {"user", "password", "name", "port", "path", "query", "fragment"},
            {"user", "password", "port", "query", "fragment"},
            {"name", "long", "path", "query", "fragment"}}}
MCTexts == {<<"h">>, <<"https", ":">>, <<"https", ":", "a">>,
            <<"https", ":", "/", "a", "b">>}

MCKeys == {[text |-> "k7", length |-> 7], [text |-> "k8", length |-> 8],
           [text |-> "k10", length |-> 10], [text |-> "k26", length |-> 26],
           [text |-> "k63", length |-> 63], [text |-> "k64", length |-> 64]}
=============================================================================
