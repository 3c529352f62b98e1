------------------------------ MODULE TlsGlue ------------------------------
(***************************************************************************)
(* The TLS provider of the presentation layer (net_pres_enc_glue.c and     *)
(* net_pres_cert_store.c): it wraps wolfSSL for the layer, which polls it  *)
(* on behalf of the HTTPS client.  wolfSSL, the layer and the transport    *)
(* are external.                                                           *)
(*                                                                         *)
(* A handshake is a number of messages of the server, each an answer to    *)
(* one of ours; after it come records of data.                             *)
(***************************************************************************)
EXTENDS Integers, Sequences

CONSTANTS
  Messages,   \* messages of the server a handshake takes
  RecordSize, \* bytes of a record
  MaxRecords  \* bound: records the transport holds before they are read

ASSUME TlsAssumption ==
  /\ Messages \in Nat \ {0} /\ RecordSize \in Nat \ {0}
  /\ MaxRecords \in Nat \ {0}

VARIABLES
  users,     \* _net_pres_wolfsslUsers
  context,   \* net_pres_wolfSSLInfoStreamClient0.context
  isInited,  \* and its isInited
  session,   \* what the layer was last told of the session
  ready,     \* and of the bytes it may read, unless it has not asked yet
  library,   \* external: wolfSSL_Init less wolfSSL_Cleanup
  broken,    \* external: wolfSSL has given this session up
  asked,     \* external: our message of the handshake is on its way
  messages,  \* external: messages of the server still to be read
  pending,   \* external: bytes decrypted and not yet read
  incoming,  \* external: records in the transport
  writable,  \* external: the transport takes data
  alive      \* external: the server is there

glue_vars == <<users, context, isInited, library>>
session_vars == <<session, ready, broken, asked, messages, pending>>
transport_vars == <<incoming, writable, alive>>
vars == <<glue_vars, session_vars, transport_vars>>

Record == {"handshake", "data", "bad", "end"}
Session == {"none", "negotiating", "open", "failed"}
NotAsked == -1

TypeOK ==
  /\ users \in 0..1 /\ library \in 0..1
  /\ context \in {"null", "valid", "freed"}
  /\ isInited \in BOOLEAN
  /\ session \in Session
  /\ ready \in NotAsked..RecordSize /\ pending \in 0..RecordSize
  /\ broken \in BOOLEAN /\ asked \in BOOLEAN
  /\ messages \in 0..Messages
  /\ incoming \in Seq(Record) /\ Len(incoming) <= MaxRecords
  /\ writable \in BOOLEAN /\ alive \in BOOLEAN

\* A session before wolfSSL_connect.
Fresh ==
  /\ ready' = NotAsked /\ broken' = FALSE /\ asked' = FALSE
  /\ messages' = Messages /\ pending' = 0

Init ==
  /\ users = 0 /\ library = 0
  /\ context = "null" /\ isInited = FALSE
  /\ session = "none" /\ ready = NotAsked
  /\ broken = FALSE /\ asked = FALSE
  /\ messages = Messages /\ pending = 0
  /\ incoming = <<>> /\ writable = TRUE /\ alive = TRUE
-----------------------------------------------------------------------------
(* The provider.  The layer initialises it before it opens a session, and  *)
(* again the next time if that fails.                                      *)

\* Mutant: every attempt counts.
CountUser_Always == users' = users + 1 /\ library' = 1

CountUser ==
  IF users = 0 THEN users' = 1 /\ library' = library + 1
  ELSE UNCHANGED <<users, library>>

\* The certificates are built in; wolfSSL may not have the memory for a context,
\* or may not take the certificates.
NET_PRES_EncProviderStreamClientInit0(result) ==
  /\ ~isInited
  /\ CountUser
  /\ context' = CASE result = "no_context" -> "null"
                  [] result = "not_loaded" -> "freed"
                  [] OTHER                 -> "valid"
  /\ isInited' = (result = "loaded")
  /\ UNCHANGED <<session_vars, transport_vars>>

\* The program never takes the presentation layer down; the layer could be.
NET_PRES_EncProviderStreamClientDeinit0 ==
  /\ isInited /\ session = "none"
  /\ context' = "freed" /\ isInited' = FALSE
  /\ users' = users - 1
  /\ library' = IF users = 1 THEN library - 1 ELSE library
  /\ UNCHANGED <<session_vars, transport_vars>>

\* A session that cannot be made leaves nothing behind.
NET_PRES_EncProviderStreamClientOpen0 ==
  /\ isInited /\ session = "none"
  /\ session' = "negotiating"
  /\ Fresh
  /\ incoming' = <<>> /\ writable' = TRUE /\ alive' = TRUE
  /\ UNCHANGED glue_vars

\* wolfSSL_free.
NET_PRES_EncProviderConnectionClose0 ==
  /\ session # "none"
  /\ session' = "none"
  /\ Fresh
  /\ UNCHANGED <<glue_vars, transport_vars>>

(* The callbacks through which wolfSSL reaches the transport.  An empty    *)
(* transport is one to wait for, whether or not the server is there.       *)
StreamClientReceiveCb0 == incoming # <<>>
StreamClientSendCb0 == writable

\* Mutant: only a success ends the negotiation.
ConnectStatus_FailureWaits(done) ==
  IF done /\ ~broken' THEN "open" ELSE "negotiating"

\* What becomes of the result of wolfSSL_connect: WANT_READ and WANT_WRITE are
\* no failures.
ConnectStatus(done) ==
  IF broken' THEN "failed" ELSE IF done THEN "open" ELSE "negotiating"

\* wolfSSL_connect goes on from where it stopped: it reads the answer to our
\* message and sends the next, which may fill the transport.
NET_PRES_EncProviderClientConnect0 ==
  /\ session = "negotiating" /\ messages > 0
  /\ \/ /\ asked /\ StreamClientReceiveCb0
        /\ incoming' = Tail(incoming)
        /\ broken' = (Head(incoming) # "handshake")
        /\ messages' = messages - 1
        /\ asked' = (messages > 1 /\ StreamClientSendCb0)
     \/ /\ ~asked /\ StreamClientSendCb0
        /\ asked' = TRUE
        /\ UNCHANGED <<incoming, broken, messages>>
  /\ writable' \in {writable, writable /\ ~asked'}
  /\ session' = ConnectStatus(messages' = 0)
  /\ UNCHANGED <<glue_vars, ready, pending, alive>>

\* An error, and nothing written, are 0 bytes written.
NET_PRES_EncProviderWrite0 ==
  /\ session = "open" /\ ~broken /\ StreamClientSendCb0
  /\ writable' = FALSE
  /\ UNCHANGED <<glue_vars, session_vars, incoming, alive>>

\* wolfSSL_peek: without decrypted bytes it reads the next record, and a bad
\* one ends the session.
Peek ==
  IF pending = 0 /\ ~broken /\ StreamClientReceiveCb0
  THEN /\ incoming' = Tail(incoming)
       /\ pending' = IF Head(incoming) = "data" THEN RecordSize ELSE 0
       /\ broken' = (Head(incoming) # "data")
  ELSE UNCHANGED <<incoming, pending, broken>>

\* Mutant: wolfSSL_pending alone.
ReadReady_PendingOnly ==
  /\ session = "open"
  /\ ready' = pending
  /\ UNCHANGED <<glue_vars, session, broken, asked, messages, pending,
                 transport_vars>>

\* An error of wolfSSL_peek is not 0 and goes on to wolfSSL_pending, which
\* then is.
NET_PRES_EncProviderReadReady0 ==
  /\ session = "open"
  /\ Peek
  /\ ready' = pending'
  /\ UNCHANGED <<glue_vars, session, asked, messages, writable, alive>>

\* The layer reads no more than it was told is there; errors read as 0 bytes.
NET_PRES_EncProviderRead0(size) ==
  /\ session = "open" /\ 0 < size /\ size <= ready
  /\ pending' = pending - size
  /\ ready' = ready - size
  /\ UNCHANGED <<glue_vars, session, broken, asked, messages, transport_vars>>

Provider ==
  \/ \E result \in {"no_context", "not_loaded", "loaded"} :
        NET_PRES_EncProviderStreamClientInit0(result)
  \/ NET_PRES_EncProviderStreamClientDeinit0
  \/ NET_PRES_EncProviderStreamClientOpen0
  \/ NET_PRES_EncProviderConnectionClose0
  \/ NET_PRES_EncProviderClientConnect0
  \/ NET_PRES_EncProviderWrite0
  \/ NET_PRES_EncProviderReadReady0
  \/ \E size \in 1..RecordSize : NET_PRES_EncProviderRead0(size)
-----------------------------------------------------------------------------
(* The server and the transport.                                           *)
Receive(record) == incoming' = Append(incoming, record)

ServerAnswers ==
  /\ session = "negotiating" /\ alive /\ asked /\ messages > 0
  /\ incoming = <<>>
  /\ \E record \in {"handshake", "bad"} : Receive(record)
  /\ UNCHANGED <<glue_vars, session_vars, writable, alive>>

ServerSends ==
  /\ session = "open" /\ alive /\ Len(incoming) < MaxRecords
  /\ \E record \in {"data", "bad"} : Receive(record)
  /\ UNCHANGED <<glue_vars, session_vars, writable, alive>>

\* With a last record, if there is a session and there is room for it, or
\* without.
ServerGoesAway ==
  /\ session # "none" /\ alive
  /\ alive' = FALSE
  /\ \/ UNCHANGED incoming
     \/ session = "open" /\ Len(incoming) < MaxRecords /\ Receive("end")
  /\ UNCHANGED <<glue_vars, session_vars, writable>>

Drain ==
  /\ ~writable
  /\ writable' = TRUE
  /\ UNCHANGED <<glue_vars, session_vars, incoming, alive>>

Transport == ServerAnswers \/ ServerSends \/ ServerGoesAway \/ Drain

Next == Provider \/ Transport

(* The layer polls a handshake; a server that is there answers; what is    *)
(* written gets out.                                                       *)
Fairness ==
  /\ WF_vars(NET_PRES_EncProviderClientConnect0)
  /\ WF_vars(ServerAnswers)
  /\ WF_vars(Drain)

Spec == Init /\ [][Next]_vars /\ Fairness
-----------------------------------------------------------------------------
(* A session only exists while its context and the library do: a provider  *)
(* that fails to initialise, is tried again or is taken down, and is used  *)
(* by the next session, leaves the library's users counted right.          *)
SessionHasLibrary ==
  /\ session # "none" => isInited
  /\ isInited => context = "valid" /\ library = 1
  /\ users = library

(* "wolfSSL_pending() doesn't check the underlying layer": the layer is    *)
(* told of nothing to read only when nothing is left, neither decrypted    *)
(* nor in the transport, or the session is over.  The client takes such an *)
(* answer on a closed connection for the end of the response.              *)
NothingIsLeft ==
  [][NET_PRES_EncProviderReadReady0 /\ ready' = 0 =>
       pending = 0 /\ (broken' \/ incoming = <<>>)]_vars

(* What the client relies on: a handshake comes to an end, unless the      *)
(* server goes away or the session is closed.  A server that has gone away *)
(* is waited for like one that is slow.                                    *)
HandshakeEnds == session = "negotiating" ~> session # "negotiating" \/ ~alive
=============================================================================
