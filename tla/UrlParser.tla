----------------------------- MODULE UrlParser -----------------------------
(***************************************************************************)
(* From the text of a request to the parts of its URL: util_url.c, with    *)
(* the string helpers of util_string.c it is written with, as the HTTPS    *)
(* client calls it (app_https_client.c, which passes no buffers for the    *)
(* user, the password, the query and the fragment; the tests do).          *)
(*                                                                         *)
(* The lengths the parser hands on are counted with an offset, and are     *)
(* wrong by a few characters here and there.  So the memory is modelled:   *)
(* request_url is an array which still holds, behind the '\0', what the    *)
(* requests before have left there, and a buffer that is not written keeps *)
(* what an earlier URL has put into it.  The name of a scheme counts as    *)
(* one character.                                                          *)
(***************************************************************************)
EXTENDS Integers, Sequences, FiniteSetsExt

CONSTANTS
  MaxUrl,     \* MAX_URL: 128
  MaxHost,    \* MAX_URL_HOST: 32
  MaxPart,    \* size of the other buffers; MAX_URL_PATH is 64
  Questions,  \* what is asked for: the parts of a URL
  Texts       \* requests that are no URL of these parts

Nul == "NUL"
NULL == 0
Digit == {"0", "1", "2", "3", "4", "5", "6", "7", "8", "9"}
ValueOf(c) ==
  LET numerals == <<"0", "1", "2", "3", "4", "5", "6", "7", "8", "9">>
  IN  (CHOOSE n \in 1..10 : numerals[n] = c) - 1

\* What 16 bits hold of a number.
uint16_t(n) == n % 65536

\* A size_t that goes below zero is larger than any buffer.
size_t(n) == IF n < 0 THEN 2 * MaxUrl + MaxPart ELSE n

\* The text of a URL with given parts; those which are empty are left out.
After(mark, part) == IF part = <<>> THEN <<>> ELSE <<mark>> \o part
Suffix(q) == q.path \o After("?", q.query) \o After("#", q.fragment)
Text(q) ==
  <<q.scheme, ":", "/", "/">>
    \o (IF q.user = <<>> THEN <<>>
        ELSE q.user \o After(":", q.password) \o <<"@">>)
    \o q.host \o After(":", q.port) \o Suffix(q)

(* The number a question's port stands for, the scheme's if it has none.   *)
NumberOf(digits) ==
  LET value[k \in 0..Len(digits)] ==
        IF k = 0 THEN 0 ELSE value[k - 1] * 10 + ValueOf(digits[k])
  IN  value[Len(digits)]
PortOf(q) ==
  IF q.port # <<>> THEN NumberOf(q.port)
  ELSE [https |-> 443, http |-> 80][q.scheme]

\* No part has a character that ends it, and the port is one.
Without(part, marks) == \A i \in DOMAIN part : part[i] \notin marks
WellFormed(q) ==
  /\ q.scheme \in {"http", "https"}
  /\ q.user \in Seq(STRING) /\ q.password \in Seq(STRING)
  /\ q.host \in Seq(STRING) /\ q.port \in Seq(STRING)
  /\ q.path \in Seq(STRING) /\ q.query \in Seq(STRING)
  /\ q.fragment \in Seq(STRING)
  /\ Without(q.user, {":", "@", "/", "?", "#"})
  /\ Without(q.password, {"@", "/", "?", "#"})
  /\ q.user = <<>> => q.password = <<>>
  /\ Without(q.host, {":", "@", "/", "?", "#"})
  /\ \A i \in DOMAIN q.port : q.port[i] \in Digit
  /\ uint16_t(NumberOf(q.port)) = NumberOf(q.port)
  /\ q.path # <<>> => q.path[1] = "/"
  /\ Without(q.path, {"?", "#"}) /\ Without(q.query, {"#"})

\* What is assumed of the constants, by the module that composes this one.
UrlAssumption ==
  /\ MaxUrl \in Nat \ {0} /\ MaxHost \in Nat \ {0}
  /\ MaxPart \in Nat \ {0, 1}  \* the name of a scheme fits
  /\ \A text \in Texts \cup {Text(q) : q \in Questions} :
       text \in Seq(STRING) /\ \A i \in DOMAIN text : text[i] # Nul
  /\ \A q \in Questions : WellFormed(q)

VARIABLES
  state,        \* of the client, as far as the parser is concerned
  request_url,  \* all of the array
  parts,        \* scheme, host, port, path and the other outputs
  asked         \* history: the text, and the parts it was put together from

url_vars == <<state, request_url, parts, asked>>

Part == {"scheme", "user", "password", "host", "path", "query", "fragment",
         "path_suffix"}

Init ==
  /\ state = "IDLE"
  /\ request_url = [i \in 1..MaxUrl |-> Nul]
  /\ parts = [port |-> 0, text |-> [p \in Part |-> <<>>]]
  /\ asked = [parts |-> <<>>, text |-> <<>>]
-----------------------------------------------------------------------------
(* Strings.                                                                *)

\* Behind the array there is something else.
At(i) == IF i <= MaxUrl THEN request_url[i] ELSE "?"

(* Mutant: the search goes on behind the '\0'.                             *)
strchr_any_len_NoNul(i, needles, len) ==
  LET found == {k \in i..(i + len - 1) : At(k) \in needles}
  IN  IF found = {} THEN NULL ELSE Min(found)

\* Where the first of the characters is, also for strchr_len.
strchr_any_len(i, needles, len) ==
  LET found == {k \in i..(i + len - 1) : At(k) \in needles \cup {Nul}}
  IN  IF found = {} \/ At(Min(found)) = Nul THEN NULL ELSE Min(found)

\* What a reader of the copy finds there: it ends at the first '\0'.
CString(i, n) ==
  LET nul == {k \in 0..(n - 1) : At(i + k) = Nul}
      m == IF nul = {} THEN n ELSE Min(nul)
  IN  [k \in 1..m |-> At(i + k - 1)]

safe_strncpy_len(i, len, max) == CString(i, Min({len, max - 1}))

\* The array after a copy: what is behind the end of the text stays.
safe_strncpy(text) ==
  LET src_len == Min({Len(text), MaxUrl - 1})
  IN  [i \in 1..MaxUrl |-> CASE i <= src_len -> text[i]
                             [] i = src_len + 1 -> Nul
                             [] OTHER -> request_url[i]]

\* The digits at the beginning, and as much of the number as 16 bits hold.
atoi(i) ==
  LET end == Min({k \in i..(MaxUrl + 1) : At(k) \notin Digit})
      value[k \in (i - 1)..(end - 1)] ==
        IF k = i - 1 THEN 0 ELSE value[k - 1] * 10 + ValueOf(At(k))
  IN  uint16_t(value[end - 1])
-----------------------------------------------------------------------------
(* The parser: each operator returns the parts it writes.                  *)

urlParse_scheme(len) ==
  [port |-> CASE At(1) = "https" -> 443 [] At(1) = "http" -> 80
              [] OTHER -> parts.port,
   scheme |-> safe_strncpy_len(1, len, MaxPart)]

urlParse_userAndPassword(i, len) ==
  LET colon == strchr_any_len(i, {":"}, len)
  IN  IF colon = NULL
      THEN [user |-> safe_strncpy_len(i, len, MaxPart), password |-> <<>>]
      ELSE [user |-> safe_strncpy_len(i, colon - i, MaxPart),
            password |-> safe_strncpy_len(colon + 1, len - (colon - i + 1),
                                          MaxPart)]

urlParse_hostAndPort(i, len, port) ==
  LET colon == strchr_any_len(i, {":"}, len)
  IN  IF colon = NULL
      THEN [host |-> safe_strncpy_len(i, len, MaxHost), port |-> port]
      ELSE [host |-> safe_strncpy_len(i, colon - i, MaxHost),
            port |-> atoi(colon + 1)]

urlParse_userPasswordHostAndPort(i, len, port) ==
  LET at == strchr_any_len(i, {"@"}, len)
      user == IF at = NULL THEN [user |-> <<>>, password |-> <<>>]
              ELSE urlParse_userAndPassword(i, at - i)
      host == IF at = NULL THEN urlParse_hostAndPort(i, len, port)
              ELSE urlParse_hostAndPort(at + 1, len - (at - i + 1), port)
  IN  [user |-> user.user, password |-> user.password,
       host |-> host.host, port |-> host.port]

(* Mutant: the query is looked for in the fragment, too.                   *)
urlParse_pathQueryAndFragment_KeepsLength(i, len) ==
  LET hash == strchr_any_len(i, {"#"}, len)
      mark == strchr_any_len(i, {"?"}, len)
  IN  [path |-> safe_strncpy_len(i, IF mark = NULL THEN len ELSE mark - i, MaxPart),
       query |-> IF mark = NULL THEN <<>>
                 ELSE safe_strncpy_len(mark + 1, len - (mark - i) - 1, MaxPart),
       fragment |-> IF hash = NULL THEN <<>>
                    ELSE safe_strncpy_len(hash + 1, len - (hash - i) - 1, MaxPart)]

urlParse_pathQueryAndFragment(i, len) ==
  LET hash == strchr_any_len(i, {"#"}, len)
      before == IF hash = NULL THEN len ELSE hash - i
      mark == strchr_any_len(i, {"?"}, before)
  IN  [path |-> safe_strncpy_len(i, IF mark = NULL THEN before ELSE mark - i,
                                 MaxPart),
       query |-> IF mark = NULL THEN <<>>
                 ELSE safe_strncpy_len(mark + 1, before - (mark - i) - 1, MaxPart),
       fragment |-> IF hash = NULL THEN <<>>
                    ELSE safe_strncpy_len(hash + 1, len - (hash - i) - 1, MaxPart)]

\* Two slashes with so little behind them that they are taken for a path
\* leave the user, the password and the host as they are.
urlParse_pastScheme(i, len, port) ==
  LET authority == len >= 3 /\ At(i) = "/" /\ At(i + 1) = "/"
      start == i + 2
      slash == strchr_any_len(start, {"/", "?", "#"}, len + 2)
      first == IF slash = NULL THEN len + 2 ELSE slash - start
      who == IF authority
             THEN urlParse_userPasswordHostAndPort(start, first, port)
             ELSE [user |-> parts.text.user, password |-> parts.text.password,
                   host |-> parts.text.host, port |-> port]
      where == IF authority THEN slash ELSE i
      left == IF authority THEN len + 2 - first ELSE len
      what == IF where = NULL
              THEN [path |-> <<"/">>, query |-> <<>>, fragment |-> <<>>]
              ELSE urlParse_pathQueryAndFragment(where, left)
  IN  [port |-> who.port,
       text |-> [user |-> who.user, password |-> who.password,
                 host |-> who.host,
                 path |-> what.path, query |-> what.query,
                 fragment |-> what.fragment,
                 path_suffix |-> IF where = NULL THEN <<"/">>
                                 ELSE safe_strncpy_len(where, left, MaxPart)]]

\* The length of what follows the colon is taken for two less than it is.
urlParseGetParts ==
  LET colon == strchr_any_len(1, {":"}, MaxUrl)
      total_len == Len(CString(1, MaxUrl))
      scheme_len == colon - 1
      scheme == urlParse_scheme(scheme_len)
      rest == urlParse_pastScheme(colon + 1, size_t(total_len - scheme_len - 3),
                                  scheme.port)
  IN  [ok |-> colon # NULL,
       port |-> rest.port,
       text |-> [p \in Part |-> IF p = "scheme" THEN scheme.scheme
                                ELSE rest.text[p]]]
-----------------------------------------------------------------------------
(* The client.                                                             *)
\* The caller's text, an argument of the console or the URL of the tracker.
APP_HTTPS_Client_Request(question, text) ==
  /\ state # "PARSE_REQUEST_URL"
  /\ request_url' = safe_strncpy(text)
  /\ asked' = [parts |-> question, text |-> text]
  /\ state' = "PARSE_REQUEST_URL"
  /\ UNCHANGED parts

pasreRequestURL ==
  /\ state = "PARSE_REQUEST_URL"
  /\ IF urlParseGetParts.ok
     THEN /\ parts' = [port |-> urlParseGetParts.port,
                       text |-> urlParseGetParts.text]
          /\ state' = "PROCESS_REQUEST"
     ELSE state' = "ERROR" /\ UNCHANGED parts
  /\ UNCHANGED <<request_url, asked>>

Next ==
  \/ \E question \in Questions : APP_HTTPS_Client_Request(question, Text(question))
  \/ \E text \in Texts : APP_HTTPS_Client_Request(<<>>, text)
  \/ pasreRequestURL

Spec == Init /\ [][Next]_url_vars
-----------------------------------------------------------------------------
\* What the buffers hold without a cut.
Fits(q) ==
  /\ Len(Text(q)) < MaxUrl
  /\ Len(q.host) < MaxHost
  /\ \A part \in {q.user, q.password, q.path, q.query, q.fragment, Suffix(q)} :
       Len(part) < MaxPart

(* "scheme:[//[user[:password]@]host[:port]][/path][?query][#fragment]":   *)
(* the parts are the ones of the URL, for every combination of them that   *)
(* fits the buffers and has three characters behind the slashes, whatever  *)
(* an earlier URL has left in the array and in the buffers.  What path is  *)
(* when a query or a fragment follows the host at once is left open.       *)
PartsAreTheOnesAskedFor ==
  LET done == state \in {"PROCESS_REQUEST", "ERROR"} /\ asked.parts # <<>>
      q == asked.parts
      right ==
        /\ state = "PROCESS_REQUEST"
        /\ parts.port = PortOf(q)
        /\ \A p \in {"user", "password", "host", "query", "fragment"} :
             parts.text[p] = q[p]
        /\ parts.text.scheme = <<q.scheme>>
        /\ q.path # <<>> => parts.text.path = q.path
        /\ IF Suffix(q) = <<>>
           THEN parts.text.path = <<"/">> /\ parts.text.path_suffix = <<"/">>
           ELSE parts.text.path_suffix = Suffix(q)
  IN  done /\ Fits(q) /\ Len(Text(q)) >= 7 => right

(* Whatever the text of a request is, also one that is cut: what is asked  *)
(* of the server is a piece of it, or "/".  The lengths that are too large *)
(* bring nothing to light that an earlier request has left in the array.   *)
NothingFromEarlierRequests ==
  state = "PROCESS_REQUEST" =>
    \A p \in {"scheme", "path", "query", "fragment", "path_suffix"} :
      \/ parts.text[p] \in {<<>>, <<"/">>}
      \/ \E i \in DOMAIN asked.text :
           /\ i + Len(parts.text[p]) - 1 <= Len(asked.text)
           /\ SubSeq(asked.text, i, i + Len(parts.text[p]) - 1) = parts.text[p]
=============================================================================
