---------------------------- MODULE HttpsClient ----------------------------
(***************************************************************************)
(* The HTTP(S) client (app_https_client.c): one request at a time, driven  *)
(* by polling the TCP/IP stack from the main loop, with the result handed  *)
(* to callbacks.  The stack and the server are external: the variables of  *)
(* the second group, moved by the actions of Network.                      *)
(*                                                                         *)
(* Tasks(event) is one call of APP_HTTPS_Client_Tasks; event names the     *)
(* callback the call invokes, so that a module which composes the client   *)
(* with its users can conjoin what the callback does.                      *)
(***************************************************************************)
EXTENDS Integers

CONSTANTS
  Client,       \* users of the client (AppHttpsClientCallbacks::user_data)
  Nobody,       \* no user
  Url,          \* URLs requested
  IpModeConfig, \* values of ip_mode_config; the code sets it to "IPV4"
  Regimes,      \* what may go wrong: sets of faults, one of which applies
  MaxSockets,   \* sockets the stack has
  MaxRx         \* buffers of response the stack holds before it is read

Family == {"IPV4", "IPV6"}
(* A URL by what the code tells apart: whether it parses, its scheme, and  *)
(* whether its host is an IP address or a name to be resolved.  (util_url  *)
(* cuts the host at the first colon, so no IPv6 address gets through it.)  *)
UrlKind == [valid : BOOLEAN, secure : BOOLEAN, host : Family \cup {"name"}]
Fault == {"dns",       \* a lookup is refused or fails
          "socket",    \* the stack cannot open a socket
          "encrypt",   \* the TLS layer refuses to start
          "handshake", \* the TLS handshake fails
          "write",     \* a write takes less than offered
          "hangup",    \* the server goes away before the request is written
          "abort",     \* the server goes away in the middle of its response
         "miss"}      \* the page lacks what a user looks for

ASSUME HttpsClientAssumption ==
  /\ Nobody \notin Client
  /\ Url \subseteq UrlKind
  /\ IpModeConfig \subseteq Family
  /\ Regimes \subseteq SUBSET Fault
  /\ MaxSockets \in Nat \ {0}
  /\ MaxRx \in Nat \ {0}

VARIABLES
  state,             \* AppHTTPSClientData::state
  callbacks,         \* whose callbacks are stored (callbacks.user_data)
  request_url,
  dns_query_ip_mode,
  ip_mode,
  awaiting           \* history: whose accepted request has no outcome yet

client_vars == <<state, callbacks, request_url, dns_query_ip_mode, ip_mode,
                 awaiting>>

VARIABLES
  dns,      \* the lookup: its family and its status
  sock,     \* the connection of the socket in use
  sockets,  \* sockets allocated in the stack
  was_reset,\* the flag NET_PRES_SocketWasReset reads and clears
  rx,       \* buffers of response received and not yet read
  served,   \* the server has sent its whole response
  faults,   \* what the stack and the server do wrong in this behaviour
  ip_mode_config

(* What is chosen once and for all.                                        *)
fixed == <<ip_mode_config, faults>>

net_vars == <<dns, sock, sockets, was_reset, rx, served, fixed>>
vars == <<client_vars, net_vars>>

State == {"IDLE", "BEGIN_SEQUENCE", "WAIT_FOR_NETWORK", "PARSE_REQUEST_URL",
  "PROCESS_REQUEST", "WAIT_ON_DNS", "START_CONNECTION", "WAIT_FOR_CONNECTION",
  "CLOSE_CONNECTION", "WAIT_FOR_SSL_CONNECT", "SEND_REQUEST",
  "WAIT_FOR_RESPONSE", "ERROR"}

(* Callbacks a call of Tasks may invoke, at most one.                      *)
Event == {"none", "buffer_received", "request_handled", "error"}

(* A negotiation is stalled when the server has gone away: the TLS layer   *)
(* takes a connection without data for one it has to wait for (TlsGlue).   *)
Sock == {"none", "connecting", "connected", "negotiating", "stalled", "secure",
         "insecure", "closed"}

TypeOK ==
  /\ state \in State
  /\ callbacks \in Client \cup {Nobody}
  /\ request_url \in Url
  /\ dns_query_ip_mode \in Family /\ ip_mode \in Family
  /\ awaiting \in Client \cup {Nobody}
  /\ dns \in [family : Family, status : {"none", "pending", "ok", "failed"}]
  /\ sock \in Sock
  /\ sockets \in 0..MaxSockets
  /\ was_reset \in BOOLEAN
  /\ rx \in 0..MaxRx
  /\ served \in BOOLEAN
  /\ faults \in Regimes /\ ip_mode_config \in IpModeConfig

(* APP_HTTPS_Client_Initialize.  The fields it leaves alone lie on the     *)
(* stack of main() with any content; none is read before it is written, so *)
(* only request_url is given more than one initial value.                  *)
Init ==
  /\ state = "IDLE"
  /\ callbacks = Nobody /\ awaiting = Nobody
  /\ request_url \in Url
  /\ dns_query_ip_mode = "IPV4" /\ ip_mode = "IPV4"
  /\ dns = [family |-> "IPV4", status |-> "none"]
  /\ sock = "none" /\ sockets = 0
  /\ was_reset = FALSE /\ rx = 0 /\ served = FALSE
  /\ faults \in Regimes /\ ip_mode_config \in IpModeConfig
-----------------------------------------------------------------------------
(* Steps that only move the state machine.                                 *)
Goto(to) ==
  /\ state' = to
  /\ UNCHANGED <<callbacks, request_url, dns_query_ip_mode, ip_mode, awaiting>>

beginSequence ==
  state = "BEGIN_SEQUENCE" /\ Goto("WAIT_FOR_NETWORK") /\ UNCHANGED net_vars

(* checkNetworkIsAvailable always answers yes.                             *)
waitForNetworkAvailable ==
  state = "WAIT_FOR_NETWORK" /\ Goto("PARSE_REQUEST_URL") /\ UNCHANGED net_vars

(* Mutant: a URL that does not parse ends the request in silence.          *)
pasreRequestURL_Silent ==
  /\ state = "PARSE_REQUEST_URL"
  /\ Goto(IF request_url.valid THEN "PROCESS_REQUEST" ELSE "IDLE")
  /\ UNCHANGED net_vars

pasreRequestURL ==
  /\ state = "PARSE_REQUEST_URL"
  /\ Goto(IF request_url.valid THEN "PROCESS_REQUEST" ELSE "ERROR")
  /\ UNCHANGED net_vars

(* TCPIP_DNS_Resolve: accepted, or refused with the fault "dns".           *)
DnsResolve(family, accepted) ==
  /\ accepted \/ "dns" \in faults
  /\ dns' = IF accepted THEN [family |-> family, status |-> "pending"] ELSE dns

processRequest ==
  /\ state = "PROCESS_REQUEST"
  /\ \/ /\ request_url.host \in Family
        /\ ip_mode' = request_url.host
        /\ state' = "START_CONNECTION"
        /\ UNCHANGED <<dns_query_ip_mode, dns>>
     \/ /\ request_url.host = "name"
        /\ \E accepted \in BOOLEAN :
              /\ DnsResolve(ip_mode_config, accepted)
              /\ state' = IF accepted THEN "WAIT_ON_DNS" ELSE "ERROR"
        /\ dns_query_ip_mode' = ip_mode_config
        /\ UNCHANGED ip_mode
  /\ UNCHANGED <<callbacks, request_url, awaiting,
                 sock, sockets, was_reset, rx, served, fixed>>

DnsAnswered == dns.status # "pending"

(* The answer of TCPIP_DNS_IsResolved for the family of the query.         *)
DnsOk == dns.status = "ok" /\ dns.family = dns_query_ip_mode

checkDNSResolveStatus ==
  /\ state = "WAIT_ON_DNS" /\ DnsAnswered
  /\ \/ /\ DnsOk
        /\ ip_mode' = dns_query_ip_mode
        /\ state' = "START_CONNECTION"
        /\ UNCHANGED dns
     \/ /\ ~DnsOk /\ dns_query_ip_mode = "IPV6"
        /\ \E accepted \in BOOLEAN :
              /\ DnsResolve("IPV4", accepted)
              /\ state' = IF accepted THEN "WAIT_ON_DNS" ELSE "ERROR"
        /\ UNCHANGED ip_mode
     \/ /\ ~DnsOk /\ dns_query_ip_mode # "IPV6"
        /\ state' = "ERROR"
        /\ UNCHANGED <<ip_mode, dns>>
  /\ UNCHANGED <<callbacks, request_url, dns_query_ip_mode, awaiting,
                 sock, sockets, was_reset, rx, served, fixed>>

(* Mutant: the flag of the previous connection is not cleared.             *)
startNetworkConnection_StaleFlag ==
  /\ state = "START_CONNECTION"
  /\ \/ /\ sockets < MaxSockets
        /\ sock' = "connecting"
        /\ sockets' = sockets + 1
        /\ rx' = 0 /\ served' = FALSE
        /\ Goto("WAIT_FOR_CONNECTION")
     \/ /\ sockets = MaxSockets \/ "socket" \in faults
        /\ Goto("ERROR")
        /\ UNCHANGED <<sock, sockets, rx, served>>
  /\ UNCHANGED <<dns, was_reset, fixed>>

(* NET_PRES_SocketOpen may hand out a socket whose flag still tells of its *)
(* previous use; NET_PRES_SocketWasReset clears the flag.                  *)
startNetworkConnection ==
  /\ state = "START_CONNECTION"
  /\ \/ /\ sockets < MaxSockets
        /\ sock' = "connecting"
        /\ sockets' = sockets + 1
        /\ was_reset' = FALSE /\ rx' = 0 /\ served' = FALSE
        /\ Goto("WAIT_FOR_CONNECTION")
     \/ /\ sockets = MaxSockets \/ "socket" \in faults
        /\ Goto("ERROR")
        /\ UNCHANGED <<sock, sockets, was_reset, rx, served>>
  /\ UNCHANGED <<dns, fixed>>

(* Mutant: the scheme of the URL is forgotten.                             *)
waitNetworkConnection_ClearText ==
  /\ state = "WAIT_FOR_CONNECTION" /\ sock = "connected"
  /\ Goto("SEND_REQUEST")
  /\ UNCHANGED net_vars

(* Not connected yet: the call returns, which is a stuttering step.        *)
waitNetworkConnection ==
  /\ state = "WAIT_FOR_CONNECTION" /\ sock = "connected"
  /\ \/ /\ request_url.secure
        /\ \/ sock' = "negotiating" /\ Goto("WAIT_FOR_SSL_CONNECT")
           \/ /\ "encrypt" \in faults
              /\ UNCHANGED sock /\ Goto("CLOSE_CONNECTION")
     \/ ~request_url.secure /\ UNCHANGED sock /\ Goto("SEND_REQUEST")
  /\ UNCHANGED <<dns, sockets, was_reset, rx, served, fixed>>

(* NET_PRES_SocketClose.                                                   *)
SocketClose ==
  /\ sock' = "none"
  /\ sockets' = sockets - 1
  /\ rx' = 0
  /\ UNCHANGED <<dns, was_reset, served, fixed>>

closeNetworkConnection ==
  state = "CLOSE_CONNECTION" /\ SocketClose /\ Goto("IDLE")

(* NET_PRES_SocketIsNegotiatingEncryption.                                 *)
Negotiating == sock \in {"negotiating", "stalled"}

(* Mutant: a failed handshake leaves the socket open.                      *)
waitForSSLConnect_Leak ==
  /\ state = "WAIT_FOR_SSL_CONNECT" /\ ~Negotiating
  /\ Goto(IF sock = "secure" THEN "SEND_REQUEST" ELSE "ERROR")
  /\ UNCHANGED net_vars

waitForSSLConnect ==
  /\ state = "WAIT_FOR_SSL_CONNECT" /\ ~Negotiating
  /\ \/ sock = "secure" /\ Goto("SEND_REQUEST") /\ UNCHANGED net_vars
     \/ sock # "secure" /\ SocketClose /\ Goto("ERROR")

(* A connection that takes data to write.                                  *)
Writable == sock \in {"connected", "secure"}

sendRequest ==
  /\ state = "SEND_REQUEST" /\ Writable
  /\ \/ Goto("WAIT_FOR_RESPONSE")
     \/ "write" \in faults /\ Goto("ERROR")
  /\ UNCHANGED net_vars

(* Mutant: the end of the connection is taken for an error as well.        *)
responseOver_ThenError ==
  /\ state = "WAIT_FOR_RESPONSE" /\ rx = 0 /\ was_reset
  /\ was_reset' = FALSE
  /\ state' = "ERROR"
  /\ awaiting' = Nobody
  /\ UNCHANGED <<callbacks, request_url, dns_query_ip_mode, ip_mode,
                 dns, sock, sockets, rx, served, fixed>>

(* waitForResponse with nothing to read: the connection is over.           *)
responseOver ==
  /\ state = "WAIT_FOR_RESPONSE" /\ rx = 0 /\ was_reset
  /\ was_reset' = FALSE
  /\ state' = "CLOSE_CONNECTION"
  /\ awaiting' = Nobody
  /\ UNCHANGED <<callbacks, request_url, dns_query_ip_mode, ip_mode,
                 dns, sock, sockets, rx, served, fixed>>

(* waitForResponse with data: read a buffer and pass it on.                *)
responseBuffer ==
  /\ state = "WAIT_FOR_RESPONSE" /\ rx > 0
  /\ rx' = rx - 1
  /\ UNCHANGED <<client_vars, dns, sock, sockets, was_reset, served, fixed>>

handleError ==
  /\ state = "ERROR"
  /\ state' = "IDLE"
  /\ awaiting' = Nobody
  /\ UNCHANGED <<callbacks, request_url, dns_query_ip_mode, ip_mode, net_vars>>

(* The calls of APP_HTTPS_Client_Tasks that do something.                  *)
SilentTasks ==
  \/ beginSequence
  \/ waitForNetworkAvailable
  \/ pasreRequestURL
  \/ processRequest
  \/ checkDNSResolveStatus
  \/ startNetworkConnection
  \/ waitNetworkConnection
  \/ closeNetworkConnection
  \/ waitForSSLConnect
  \/ sendRequest

(* The states in which a call of APP_HTTPS_Client_Tasks returns without    *)
(* having done anything.                                                   *)
NothingToDo ==
  \/ state = "IDLE"
  \/ state = "WAIT_ON_DNS" /\ ~DnsAnswered
  \/ state = "WAIT_FOR_CONNECTION" /\ sock # "connected"
  \/ state = "WAIT_FOR_SSL_CONNECT" /\ Negotiating
  \/ state = "SEND_REQUEST" /\ ~Writable
  \/ state = "WAIT_FOR_RESPONSE" /\ rx = 0 /\ ~was_reset

APP_HTTPS_Client_Tasks(event) ==
  \/ event = "none" /\ SilentTasks
  \/ event = "buffer_received" /\ responseBuffer
  \/ event = "request_handled" /\ responseOver
  \/ event = "error" /\ handleError

APP_HTTPS_Client_IsBusy == state # "IDLE"

(* A request that is accepted; a busy client answers false and changes     *)
(* nothing.                                                                *)
APP_HTTPS_Client_Request(client, url) ==
  /\ ~APP_HTTPS_Client_IsBusy
  /\ request_url' = url
  /\ callbacks' = client
  /\ state' = "BEGIN_SEQUENCE"
  /\ awaiting' = client
  /\ UNCHANGED <<dns_query_ip_mode, ip_mode, net_vars>>
-----------------------------------------------------------------------------
(* The TCP/IP stack and the server.                                        *)

DnsAnswers ==
  /\ dns.status = "pending"
  /\ dns' = [dns EXCEPT !.status = "ok"]
  /\ UNCHANGED <<client_vars, sock, sockets, was_reset, rx, served, fixed>>

DnsFails ==
  /\ dns.status = "pending" /\ "dns" \in faults
  /\ dns' = [dns EXCEPT !.status = "failed"]
  /\ UNCHANGED <<client_vars, sock, sockets, was_reset, rx, served, fixed>>

Connects ==
  /\ sock = "connecting"
  /\ sock' = "connected"
  /\ UNCHANGED <<client_vars, dns, sockets, was_reset, rx, served, fixed>>

HandshakeEnds ==
  /\ sock = "negotiating"
  /\ \/ sock' = "secure"
     \/ "handshake" \in faults /\ sock' = "insecure"
  /\ UNCHANGED <<client_vars, dns, sockets, was_reset, rx, served, fixed>>

(* The server answers once it has the request.                             *)
Answering == state = "WAIT_FOR_RESPONSE" /\ Writable /\ ~served

ServerSends ==
  /\ Answering /\ rx < MaxRx
  /\ rx' = rx + 1
  /\ UNCHANGED <<client_vars, dns, sock, sockets, was_reset, served, fixed>>

(* "Connection: close": the end of the response is the end of the          *)
(* connection.                                                             *)
ServerFinishes ==
  /\ Answering
  /\ served' = TRUE /\ sock' = "closed" /\ was_reset' = TRUE
  /\ UNCHANGED <<client_vars, dns, sockets, rx, fixed>>

ServerGoesAway ==
  /\ \/ "abort" \in faults /\ Answering
     \/ /\ "hangup" \in faults /\ state # "WAIT_FOR_RESPONSE"
        /\ sock \in {"connecting", "connected", "negotiating", "secure"}
  /\ sock' = IF Negotiating THEN "stalled" ELSE "closed"
  /\ was_reset' = TRUE
  /\ UNCHANGED <<client_vars, dns, sockets, rx, served, fixed>>

Network ==
  \/ DnsAnswers
  \/ DnsFails
  \/ Connects
  \/ HandshakeEnds
  \/ ServerSends
  \/ ServerFinishes
  \/ ServerGoesAway
-----------------------------------------------------------------------------
Request == \E client \in Client, url \in Url :
              APP_HTTPS_Client_Request(client, url)

Tasks == \E event \in Event : APP_HTTPS_Client_Tasks(event)

Next == Tasks \/ Request \/ Network

(* The main loop polls the client; the stack answers lookups, connection   *)
(* attempts and handshakes; a server finishes what it answers.  Nothing    *)
(* makes a user place a request.                                           *)
Fairness ==
  /\ WF_vars(Tasks)
  /\ WF_vars(DnsAnswers \/ DnsFails)
  /\ WF_vars(Connects)
  /\ WF_vars(HandshakeEnds)
  /\ WF_vars(ServerFinishes)

Spec == Init /\ [][Next]_vars /\ Fairness
-----------------------------------------------------------------------------
(* Steps of the client that invoke the callback of the given kind.         *)
Invokes(event) == event # "none" /\ APP_HTTPS_Client_Tasks(event)

(* No callback reaches a user who is not waiting for one: not twice for    *)
(* the same request, not after an error, not for a request of another      *)
(* user that was placed in between.                                        *)
CallbacksReachWaiter ==
  [][\A event \in Event :
       Invokes(event) => awaiting # Nobody /\ callbacks = awaiting]_vars

(* "all data was received": request_handled is not reported while a buffer *)
(* is still unread, nor from a flag left over by an earlier connection.    *)
HandledAfterLastBuffer ==
  [][Invokes("request_handled") => rx = 0 /\ sock = "closed"]_vars

(* The client does not become free while it owes somebody an outcome,      *)
(* unless the TLS layer refuses to start: that request is lost.            *)
IdleOwesNothing ==
  "encrypt" \notin faults /\ state = "IDLE" => awaiting = Nobody

(* Sockets are given back: outside a connection none is allocated.  A leak *)
(* exhausts the pool after MaxSockets requests, and a short write is one.  *)
Connected == {"WAIT_FOR_CONNECTION", "WAIT_FOR_SSL_CONNECT", "SEND_REQUEST",
              "WAIT_FOR_RESPONSE", "CLOSE_CONNECTION"}
NoSocketLeak ==
  "write" \notin faults => sockets = IF state \in Connected THEN 1 ELSE 0

(* The request for an https URL never goes out in clear text, whatever     *)
(* becomes of the handshake.                                               *)
NoClearTextForHttps ==
  state \in {"SEND_REQUEST", "WAIT_FOR_RESPONSE"} /\ request_url.secure =>
    sock \in {"secure", "closed"}

(* Every accepted request is eventually answered by request_handled or     *)
(* error: as long as the connection lasts until the request is written,    *)
(* TLS can start, and a name that cannot be resolved is looked up once.    *)
Answerable ==
  /\ faults \cap {"encrypt", "hangup"} = {}
  /\ ip_mode_config = "IPV4" \/ "dns" \notin faults
RequestAnswered ==
  \A client \in Client :
    Answerable /\ awaiting = client ~> awaiting # client

(* "Handler of error happened during the request": whatever happens.       *)
AlwaysAnswered ==
  \A client \in Client : awaiting = client ~> awaiting # client

(* The address a name was resolved to is used with its own family.         *)
ConnectsToResolvedFamily ==
  state = "START_CONNECTION" /\ request_url.host = "name" =>
    ip_mode = dns.family

(* The end of the connection is taken for the end of the response, so a    *)
(* page is only known to be whole if the server does not go away.          *)
HandledMeansServed ==
  [][Invokes("request_handled") /\ "abort" \notin faults => served]_vars
=============================================================================
