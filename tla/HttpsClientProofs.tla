------------------------- MODULE HttpsClientProofs -------------------------
(***************************************************************************)
(* Proofs about HttpsClient for any number of users, URLs and sockets, and *)
(* for every set of faults.                                                 *)
(***************************************************************************)
EXTENDS HttpsClient, TLAPS

(* The states in which the stored callbacks belong to a user who waits.    *)
Pending == State \ {"IDLE", "CLOSE_CONNECTION"}

(* Who waits: in a pending state the owner of the stored callbacks; in the *)
(* others nobody, provided TLS always starts.                              *)
Owed ==
  /\ state \in Pending => awaiting # Nobody /\ awaiting = callbacks
  /\ "encrypt" \notin faults /\ state \notin Pending => awaiting = Nobody

(* A connection has a socket.                                              *)
HasSocket == state \in Connected => sockets >= 1

(* During a connection the reset flag is about this connection.            *)
FlagIsFresh ==
  /\ state \in Connected /\ was_reset => sock \in {"closed", "stalled"}
  /\ sock = "stalled" /\ state \in Connected => state = "WAIT_FOR_SSL_CONNECT"
  /\ state \in Connected /\ sock = "negotiating" =>
       state = "WAIT_FOR_SSL_CONNECT"

(* The end of a connection that was waiting for a response is the end of   *)
(* the response.                                                           *)
ServedFirst ==
  "abort" \notin faults /\ state = "WAIT_FOR_RESPONSE" /\ sock = "closed" =>
    served

Others == Owed /\ HasSocket /\ NoSocketLeak /\ FlagIsFresh /\ ServedFirst
IInv == TypeOK /\ Others /\ NoClearTextForHttps /\ ConnectsToResolvedFamily
-----------------------------------------------------------------------------
LEMMA InitIInv == Init => IInv
<1> SUFFICES ASSUME Init PROVE IInv
  OBVIOUS
<1>1. TypeOK
  <2>1. 0 \in 0..MaxSockets /\ 0 \in 0..MaxRx
    BY HttpsClientAssumption
  <2>2. dns \in [family : Family, status : {"none", "pending", "ok", "failed"}]
    BY DEF Init, Family
  <2> QED
    BY <2>1, <2>2 DEF Init, TypeOK, State, Sock, Family
<1>2. Others
  <2>1. Owed
    BY DEF Init, Owed, Pending
  <2>2. HasSocket /\ NoSocketLeak
    BY DEF Init, HasSocket, NoSocketLeak, Connected
  <2>3. FlagIsFresh /\ ServedFirst
    BY DEF Init, FlagIsFresh, ServedFirst, Connected
  <2> QED
    BY <2>1, <2>2, <2>3 DEF Others
<1>3. NoClearTextForHttps /\ ConnectsToResolvedFamily
  BY DEF Init, NoClearTextForHttps, ConnectsToResolvedFamily
<1> QED
  BY <1>1, <1>2, <1>3 DEF IInv

(* The client's own steps keep the invariant.                              *)
LEMMA SilentStep == IInv /\ SilentTasks => IInv'
<1> SUFFICES ASSUME IInv, SilentTasks PROVE IInv'
  OBVIOUS
<1> USE HttpsClientAssumption
    DEF IInv, TypeOK, State, Sock, Family, UrlKind, Others, Owed, Pending,
        HasSocket, NoSocketLeak, FlagIsFresh, ServedFirst, Connected,
        NoClearTextForHttps, ConnectsToResolvedFamily, fixed, Goto,
        net_vars
<1>1. CASE beginSequence
  BY <1>1 DEF beginSequence
<1>2. CASE waitForNetworkAvailable
  BY <1>2 DEF waitForNetworkAvailable
<1>3. CASE pasreRequestURL
  BY <1>3 DEF pasreRequestURL
<1>4. CASE processRequest
  BY <1>4 DEF processRequest, DnsResolve
<1>5. CASE checkDNSResolveStatus
  BY <1>5 DEF checkDNSResolveStatus, DnsResolve, DnsOk, DnsAnswered
<1>6. CASE startNetworkConnection
  <2>1. CASE sockets < MaxSockets /\ state' = "WAIT_FOR_CONNECTION"
    <3>1. sockets' = sockets + 1 /\ was_reset' = FALSE
      BY <1>6, <2>1 DEF startNetworkConnection
    <3>2. sockets' \in 0..MaxSockets /\ 0 \in 0..MaxRx
      BY <2>1, <3>1
    <3>3. TypeOK'
      BY <1>6, <2>1, <3>1, <3>2 DEF startNetworkConnection
    <3>4. Others'
      BY <1>6, <2>1, <3>1 DEF startNetworkConnection
    <3>5. NoClearTextForHttps' /\ ConnectsToResolvedFamily'
      BY <1>6, <2>1 DEF startNetworkConnection
    <3> QED
      BY <3>3, <3>4, <3>5
  <2>2. CASE state' = "ERROR"
    BY <1>6, <2>2 DEF startNetworkConnection
  <2> QED
    BY <1>6, <2>1, <2>2 DEF startNetworkConnection
<1>7. CASE waitNetworkConnection
  BY <1>7 DEF waitNetworkConnection
<1>8. CASE closeNetworkConnection
  BY <1>8 DEF closeNetworkConnection, SocketClose
<1>9. CASE waitForSSLConnect
  BY <1>9 DEF waitForSSLConnect, SocketClose, Negotiating
<1>10. CASE sendRequest
  BY <1>10 DEF sendRequest, Writable
<1> QED
  BY <1>1, <1>2, <1>3, <1>4, <1>5, <1>6, <1>7, <1>8, <1>9, <1>10
     DEF SilentTasks

(* Steps that invoke a callback, and new requests, keep the invariant.     *)
LEMMA CallbackStep ==
  IInv /\ (responseOver \/ responseBuffer \/ handleError \/ Request) => IInv'
<1> SUFFICES ASSUME IInv,
                    responseOver \/ responseBuffer \/ handleError \/ Request
             PROVE  IInv'
  OBVIOUS
<1> USE HttpsClientAssumption
    DEF IInv, TypeOK, State, Sock, Family, UrlKind, Others, Owed, Pending,
        HasSocket, NoSocketLeak, FlagIsFresh, ServedFirst, Connected,
        NoClearTextForHttps, ConnectsToResolvedFamily, fixed,
        client_vars, net_vars
<1>1. CASE responseOver
  BY <1>1 DEF responseOver
<1>2. CASE responseBuffer
  BY <1>2 DEF responseBuffer
<1>3. CASE handleError
  BY <1>3 DEF handleError
<1>4. ASSUME NEW client \in Client, NEW url \in Url,
             APP_HTTPS_Client_Request(client, url)
      PROVE  IInv'
  BY <1>4 DEF APP_HTTPS_Client_Request, APP_HTTPS_Client_IsBusy
<1> QED
  BY <1>1, <1>2, <1>3, <1>4 DEF Request

(* So do the stack and the server.                                         *)
LEMMA NetworkStep == IInv /\ Network => IInv'
<1> SUFFICES ASSUME IInv, Network PROVE IInv'
  OBVIOUS
<1> USE HttpsClientAssumption
    DEF IInv, TypeOK, State, Sock, Family, UrlKind, Others, Owed, Pending,
        HasSocket, NoSocketLeak, FlagIsFresh, ServedFirst, Connected,
        NoClearTextForHttps, ConnectsToResolvedFamily, fixed,
        client_vars, Answering, Writable
<1>1. CASE DnsAnswers
  BY <1>1 DEF DnsAnswers
<1>2. CASE DnsFails
  BY <1>2 DEF DnsFails
<1>3. CASE Connects
  BY <1>3 DEF Connects
<1>4. CASE HandshakeEnds
  BY <1>4 DEF HandshakeEnds
<1>5. CASE ServerSends
  BY <1>5 DEF ServerSends
<1>6. CASE ServerFinishes
  BY <1>6 DEF ServerFinishes
<1>7. CASE ServerGoesAway
  <2>1. sock' \in {"stalled", "closed"}
    BY <1>7 DEF ServerGoesAway
  <2> QED
    BY <1>7, <2>1 DEF ServerGoesAway, Negotiating
<1> QED
  BY <1>1, <1>2, <1>3, <1>4, <1>5, <1>6, <1>7 DEF Network

LEMMA NextStep == IInv /\ [Next]_vars => IInv'
<1>1. IInv /\ UNCHANGED vars => IInv'
  BY DEF vars, client_vars, net_vars, fixed, IInv, TypeOK, Others, Owed,
         HasSocket, NoSocketLeak, FlagIsFresh, ServedFirst,
         NoClearTextForHttps, ConnectsToResolvedFamily
<1>2. Tasks => SilentTasks \/ responseOver \/ responseBuffer \/ handleError
  BY DEF Tasks, APP_HTTPS_Client_Tasks
<1> QED
  BY <1>1, <1>2, SilentStep, CallbackStep, NetworkStep DEF Next

LEMMA Invariance == Spec => []IInv
BY InitIInv, NextStep, PTL DEF Spec
-----------------------------------------------------------------------------
(* When nothing goes wrong, each state finds what it relies on.            *)
GoesWell ==
  faults = {} =>
    /\ state = "WAIT_ON_DNS" =>
         dns.status \in {"pending", "ok"} /\ dns.family = dns_query_ip_mode
    /\ state = "WAIT_FOR_SSL_CONNECT" => sock \in {"negotiating", "secure"}
    /\ state = "ERROR" => ~request_url.valid

LEMMA GoesWellInit == Init => GoesWell
BY DEF Init, GoesWell

LEMMA GoesWellStep == IInv /\ GoesWell /\ [Next]_vars => GoesWell'
<1> SUFFICES ASSUME IInv, GoesWell, [Next]_vars, faults = {} PROVE GoesWell'
  BY DEF vars, net_vars, fixed, Next, Tasks, Request, Network, GoesWell,
     APP_HTTPS_Client_Tasks, SilentTasks, APP_HTTPS_Client_Request,
     beginSequence, waitForNetworkAvailable, pasreRequestURL, processRequest,
     checkDNSResolveStatus, startNetworkConnection, waitNetworkConnection,
     closeNetworkConnection, waitForSSLConnect, sendRequest, SocketClose,
     responseOver, responseBuffer, handleError, DnsAnswers, DnsFails,
     Connects, HandshakeEnds, ServerSends, ServerFinishes, ServerGoesAway
<1> USE DEF GoesWell
<1>1. CASE beginSequence \/ waitForNetworkAvailable \/ pasreRequestURL
  BY <1>1 DEF beginSequence, waitForNetworkAvailable, pasreRequestURL, Goto,
     net_vars
<1>2. CASE processRequest
  BY <1>2, HttpsClientAssumption DEF processRequest, DnsResolve, IInv, TypeOK
<1>3. CASE checkDNSResolveStatus
  BY <1>3 DEF checkDNSResolveStatus, DnsAnswered, DnsOk
<1>4. CASE startNetworkConnection
  <2>1. sockets < MaxSockets
    BY <1>4, HttpsClientAssumption
       DEF startNetworkConnection, IInv, Others, NoSocketLeak, Connected
  <2> QED
    BY <1>4, <2>1 DEF startNetworkConnection, Goto, IInv, TypeOK
<1>5. CASE waitNetworkConnection
  BY <1>5 DEF waitNetworkConnection, Goto
<1>6. CASE waitForSSLConnect
  BY <1>6 DEF waitForSSLConnect, Negotiating, Goto, net_vars
<1>7. CASE closeNetworkConnection \/ sendRequest
  BY <1>7 DEF closeNetworkConnection, sendRequest, Goto
<1>8. CASE responseOver \/ responseBuffer \/ handleError \/ Request
  BY <1>8 DEF responseOver, responseBuffer, handleError, Request,
     APP_HTTPS_Client_Request, client_vars
<1>9. CASE Network
  BY <1>9 DEF Network, DnsAnswers, DnsFails, Connects, HandshakeEnds,
     ServerSends, ServerFinishes, ServerGoesAway, Answering, client_vars,
     IInv, TypeOK
<1>10. CASE UNCHANGED vars
  BY <1>10 DEF vars, client_vars, net_vars
<1> QED
  BY <1>1, <1>2, <1>3, <1>4, <1>5, <1>6, <1>7, <1>8, <1>9, <1>10
     DEF Next, Tasks, APP_HTTPS_Client_Tasks, SilentTasks
-----------------------------------------------------------------------------
(* The variables keep their types; in particular no socket is closed that  *)
(* is not open.                                                            *)
THEOREM TypeCorrect == Spec => []TypeOK
<1>1. IInv => TypeOK
  BY DEF IInv
<1> QED
  BY <1>1, Invariance, PTL

(* Whatever the stack and the server do, a callback only ever reaches the  *)
(* user whose request is outstanding.                                      *)
THEOREM CallbackOwnership == Spec => CallbacksReachWaiter
<1>1. IInv /\ [Next]_vars =>
        [\A event \in Event :
           Invokes(event) => awaiting # Nobody /\ callbacks = awaiting]_vars
  <2> SUFFICES ASSUME IInv, NEW event \in Event, Invokes(event)
               PROVE  awaiting # Nobody /\ callbacks = awaiting
    OBVIOUS
  <2>1. state \in {"WAIT_FOR_RESPONSE", "ERROR"}
    BY DEF Invokes, APP_HTTPS_Client_Tasks, responseOver, responseBuffer,
           handleError
  <2> QED
    BY <2>1 DEF IInv, Others, Owed, Pending, State
<1> QED
  BY <1>1, Invariance, PTL DEF Spec, CallbacksReachWaiter

(* The end of a response is reported after its last buffer was passed on,  *)
(* and because this connection ended, not an earlier one.                  *)
THEOREM HandledIsLast == Spec => HandledAfterLastBuffer
<1>1. IInv /\ [Next]_vars =>
        [Invokes("request_handled") => rx = 0 /\ sock = "closed"]_vars
  <2> SUFFICES ASSUME IInv, Invokes("request_handled")
               PROVE  rx = 0 /\ sock = "closed"
    OBVIOUS
  <2>1. responseOver
    BY DEF Invokes, APP_HTTPS_Client_Tasks
  <2> QED
    BY <2>1 DEF responseOver, IInv, Others, FlagIsFresh, Connected
<1> QED
  BY <1>1, Invariance, PTL DEF Spec, HandledAfterLastBuffer

(* With a server that does not go away, request_handled means that it has  *)
(* sent its whole response.                                                *)
THEOREM HandledIsWhole == Spec => HandledMeansServed
<1>1. IInv /\ [Next]_vars =>
        [Invokes("request_handled") /\ "abort" \notin faults => served]_vars
  <2> SUFFICES ASSUME IInv, Invokes("request_handled"), "abort" \notin faults
               PROVE  served
    OBVIOUS
  <2>1. responseOver
    BY DEF Invokes, APP_HTTPS_Client_Tasks
  <2> QED
    BY <2>1 DEF responseOver, IInv, Others, FlagIsFresh, ServedFirst, Connected
<1> QED
  BY <1>1, Invariance, PTL DEF Spec, HandledMeansServed

(* Unless the TLS layer refuses to start, the client is never free while   *)
(* somebody waits for an outcome.                                          *)
THEOREM IdleIsSettled == Spec => []IdleOwesNothing
<1>1. IInv => IdleOwesNothing
  BY DEF IInv, Others, Owed, Pending, IdleOwesNothing
<1> QED
  BY <1>1, Invariance, PTL

(* Unless a write is short, no request leaks its socket.                   *)
THEOREM SocketsReturned == Spec => []NoSocketLeak
<1>1. IInv => NoSocketLeak
  BY DEF IInv, Others
<1> QED
  BY <1>1, Invariance, PTL

(* An https request goes out over a secured connection, or not at all.     *)
THEOREM TlsOrNothing == Spec => []NoClearTextForHttps
<1>1. IInv => NoClearTextForHttps
  BY DEF IInv
<1> QED
  BY <1>1, Invariance, PTL

(* An address is used with the family of the lookup that gave it.          *)
THEOREM AddressFamily == Spec => []ConnectsToResolvedFamily
<1>1. IInv => ConnectsToResolvedFamily
  BY DEF IInv
<1> QED
  BY <1>1, Invariance, PTL

(* When nothing goes wrong in the stack or at the server, only a URL that  *)
(* cannot be parsed ends a request in an error: the client itself never    *)
(* runs out of sockets, never mistakes an answer for that of another       *)
(* family, and never takes a handshake under way for one that failed.      *)
OnlyBadUrlsFail == faults = {} /\ state = "ERROR" => ~request_url.valid

THEOREM OnlyBadUrls == Spec => []OnlyBadUrlsFail
<1>1. GoesWell => OnlyBadUrlsFail
  BY DEF GoesWell, OnlyBadUrlsFail
<1> QED
  BY <1>1, Invariance, GoesWellInit, GoesWellStep, PTL DEF Spec
=============================================================================
