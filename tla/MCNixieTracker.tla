--------------------------- MODULE MCNixieTracker ---------------------------
(* One page with one value, followed by the tubes and fetched from the     *)
(* console; one value typed by the user.  A URL with an address will do:   *)
(* lookups and TLS are checked with HttpsClient.                           *)
EXTENDS NixieTracker

CONSTANTS open_tasks, typed

MCServerValue == {open_tasks}
MCUserValue == {typed}
Numeric == [valid |-> TRUE, secure |-> FALSE, host |-> "IPV4"]
NumericUrl == {Numeric}

Never == {{}}
Failing == {{"socket"}}
NoneOrMany == {{}, {"socket", "miss", "hangup"}}
OneAtATime == {{"socket"}, {"miss"}}
=============================================================================
