-------------------------- MODULE ConnectionProofs --------------------------
(***************************************************************************)
(* Proofs about what a connection needs: the TLS provider, for handshakes, *)
(* records and transports of any size, and the network bring-up, for any   *)
(* interfaces, addresses and limits.                                       *)
(***************************************************************************)
EXTENDS TlsGlue, NetworkSetup, TLAPS

(* The type invariant by owner: a step touches one or two of its parts.    *)
GlueType ==
  /\ users \in 0..1 /\ library \in 0..1
  /\ context \in {"null", "valid", "freed"}
  /\ isInited \in BOOLEAN

SessionType ==
  /\ session \in Session
  /\ ready \in NotAsked..RecordSize /\ pending \in 0..RecordSize
  /\ broken \in BOOLEAN /\ asked \in BOOLEAN
  /\ messages \in 0..Messages

TransportType ==
  /\ incoming \in Seq(Record) /\ Len(incoming) <= MaxRecords
  /\ writable \in BOOLEAN /\ alive \in BOOLEAN

(* The layer knows of no more bytes than there are.                        *)
ReadyIsThere == ready <= pending

IInv ==
  GlueType /\ SessionType /\ TransportType /\ SessionHasLibrary /\ ReadyIsThere

LEMMA TypeOfParts == GlueType /\ SessionType /\ TransportType <=> TypeOK
BY DEF TypeOK, GlueType, SessionType, TransportType

LEMMA Bounds ==
  /\ 0 \in 0..RecordSize /\ RecordSize \in 0..RecordSize
  /\ NotAsked \in NotAsked..RecordSize /\ NotAsked <= 0
  /\ 0..RecordSize \subseteq NotAsked..RecordSize
  /\ Messages \in 0..Messages
  /\ <<>> \in Seq(Record) /\ Len(<<>>) <= MaxRecords
BY TlsAssumption DEF NotAsked

LEMMA InitIInv == Init => IInv
<1> SUFFICES ASSUME Init PROVE IInv
  OBVIOUS
<1>1. GlueType /\ SessionHasLibrary /\ ReadyIsThere
  <2>1. GlueType
    <3>1. isInited \in BOOLEAN
      BY Zenon DEF Init
    <3>2. users \in 0..1 /\ library \in 0..1 /\ context = "null"
      BY DEF Init
    <3> QED
      BY <3>1, <3>2 DEF GlueType
  <2>3. ReadyIsThere
    BY Bounds DEF Init, ReadyIsThere
  <2>2. SessionHasLibrary
    BY DEF Init, SessionHasLibrary
  <2> QED
    BY <2>1, <2>2, <2>3
<1>2. SessionType
  BY Bounds DEF Init, SessionType, Session
<1>3. TransportType
  BY Bounds DEF Init, TransportType
<1> QED
  BY <1>1, <1>2, <1>3 DEF IInv

(* A record that is read leaves a shorter transport.                       *)
LEMMA TailType ==
  ASSUME TransportType, incoming # <<>>
  PROVE  /\ Tail(incoming) \in Seq(Record)
         /\ Len(Tail(incoming)) <= MaxRecords
BY TlsAssumption DEF TransportType

(* Peeking keeps the types, and makes bytes of no more than a record.      *)
LEMMA PeekType ==
  ASSUME SessionType, TransportType, Peek
  PROVE  /\ incoming' \in Seq(Record) /\ Len(incoming') <= MaxRecords
         /\ pending' \in 0..RecordSize /\ broken' \in BOOLEAN
         /\ pending <= pending'
<1>1. CASE pending = 0 /\ ~broken /\ StreamClientReceiveCb0
  BY <1>1, TailType, TlsAssumption
     DEF Peek, SessionType, StreamClientReceiveCb0
<1>2. CASE ~(pending = 0 /\ ~broken /\ StreamClientReceiveCb0)
  BY <1>2 DEF Peek, SessionType, TransportType
<1> QED
  BY <1>1, <1>2

(* The provider's own steps keep the invariant.                            *)
LEMMA ProviderStep == IInv /\ Provider => IInv'
<1> SUFFICES ASSUME IInv, Provider PROVE IInv'
  OBVIOUS
<1>0. /\ GlueType /\ SessionType /\ TransportType
      /\ SessionHasLibrary /\ ReadyIsThere
  BY DEF IInv
<1>1. ASSUME NEW result \in {"no_context", "not_loaded", "loaded"},
             NET_PRES_EncProviderStreamClientInit0(result)
      PROVE  IInv'
  <2>1. users' = 1 /\ library' = 1
    BY <1>0, <1>1
       DEF NET_PRES_EncProviderStreamClientInit0, CountUser,
           SessionHasLibrary, GlueType
  <2>2. GlueType' /\ SessionHasLibrary'
    BY <1>0, <1>1, <2>1
       DEF NET_PRES_EncProviderStreamClientInit0, GlueType,
           SessionHasLibrary, session_vars
  <2>3. SessionType' /\ TransportType' /\ ReadyIsThere'
    BY <1>0, <1>1
       DEF NET_PRES_EncProviderStreamClientInit0, SessionType, TransportType,
           ReadyIsThere, session_vars, transport_vars
  <2> QED
    BY <2>2, <2>3 DEF IInv
<1>2. CASE NET_PRES_EncProviderStreamClientDeinit0
  <2>0. users = 1 /\ library = 1
    BY <1>0, <1>2
       DEF NET_PRES_EncProviderStreamClientDeinit0, SessionHasLibrary
  <2>1. users' = 0 /\ library' = 0
    BY <1>2, <2>0 DEF NET_PRES_EncProviderStreamClientDeinit0
  <2>3. context' = "freed" /\ ~isInited' /\ isInited' \in BOOLEAN
        /\ session' = "none"
    BY <1>2 DEF NET_PRES_EncProviderStreamClientDeinit0, session_vars
  <2>4. GlueType' /\ SessionHasLibrary'
    BY <2>1, <2>3 DEF GlueType, SessionHasLibrary
  <2>2. SessionType' /\ TransportType' /\ ReadyIsThere'
    BY <1>0, <1>2
       DEF NET_PRES_EncProviderStreamClientDeinit0, SessionType,
           TransportType, ReadyIsThere, session_vars, transport_vars
  <2> QED
    BY <2>2, <2>4 DEF IInv
<1>3. CASE NET_PRES_EncProviderStreamClientOpen0
  <2>1. GlueType' /\ SessionHasLibrary'
    BY <1>0, <1>3
       DEF NET_PRES_EncProviderStreamClientOpen0, GlueType,
           SessionHasLibrary, glue_vars
  <2>2. SessionType'
    BY <1>0, <1>3, Bounds
       DEF NET_PRES_EncProviderStreamClientOpen0, SessionType, Session, Fresh
  <2>3. TransportType'
    BY <1>0, <1>3, Bounds
       DEF NET_PRES_EncProviderStreamClientOpen0, TransportType
  <2>4. ReadyIsThere'
    BY <1>3, Bounds
       DEF NET_PRES_EncProviderStreamClientOpen0, ReadyIsThere, Fresh
  <2> QED
    BY <2>1, <2>2, <2>3, <2>4 DEF IInv
<1>4. CASE NET_PRES_EncProviderConnectionClose0
  <2>1. GlueType' /\ SessionHasLibrary' /\ TransportType'
    BY <1>0, <1>4
       DEF NET_PRES_EncProviderConnectionClose0, GlueType, TransportType,
           SessionHasLibrary, glue_vars, transport_vars
  <2>2. SessionType'
    BY <1>0, <1>4, Bounds
       DEF NET_PRES_EncProviderConnectionClose0, SessionType, Session, Fresh
  <2>3. ReadyIsThere'
    BY <1>4, Bounds
       DEF NET_PRES_EncProviderConnectionClose0, ReadyIsThere, Fresh
  <2> QED
    BY <2>1, <2>2, <2>3 DEF IInv
<1>5. CASE NET_PRES_EncProviderClientConnect0
  <2>1. GlueType' /\ SessionHasLibrary' /\ ReadyIsThere'
    BY <1>0, <1>5
       DEF NET_PRES_EncProviderClientConnect0, GlueType, ReadyIsThere,
           SessionHasLibrary, glue_vars
  <2>2. session' \in Session
    BY <1>5 DEF NET_PRES_EncProviderClientConnect0, ConnectStatus, Session
  <2>3. TransportType'
    <3>1. \/ incoming' = incoming
          \/ incoming # <<>> /\ incoming' = Tail(incoming)
      <4>1. CASE incoming # <<>> /\ incoming' = Tail(incoming)
        BY <4>1
      <4>2. CASE UNCHANGED <<incoming, broken, messages>>
        BY <4>2
      <4>3. \/ StreamClientReceiveCb0 /\ incoming' = Tail(incoming)
            \/ UNCHANGED <<incoming, broken, messages>>
        BY <1>5, Zenon DEF NET_PRES_EncProviderClientConnect0
      <4> QED
        BY <4>1, <4>2, <4>3 DEF StreamClientReceiveCb0
    <3>2. writable' \in BOOLEAN /\ alive' = alive
      BY <1>0, <1>5 DEF NET_PRES_EncProviderClientConnect0, TransportType
    <3> QED
      BY <1>0, <3>1, <3>2, TailType DEF TransportType
  <2>4. broken' \in BOOLEAN /\ asked' \in BOOLEAN
    BY <1>0, <1>5, Zenon DEF NET_PRES_EncProviderClientConnect0, SessionType
  <2>5. messages' \in 0..Messages
    <3>1. messages > 0 /\ messages' \in {messages, messages - 1}
      BY <1>5 DEF NET_PRES_EncProviderClientConnect0
    <3> QED
      BY <1>0, <3>1, TlsAssumption DEF SessionType
  <2>6. ready' = ready /\ pending' = pending
    BY <1>5 DEF NET_PRES_EncProviderClientConnect0
  <2> QED
    BY <1>0, <2>1, <2>2, <2>3, <2>4, <2>5, <2>6 DEF IInv, SessionType
<1>6. CASE NET_PRES_EncProviderWrite0
  <2>1. TransportType'
    BY <1>0, <1>6 DEF NET_PRES_EncProviderWrite0, TransportType
  <2>2. GlueType' /\ SessionType' /\ SessionHasLibrary' /\ ReadyIsThere'
    BY <1>0, <1>6
       DEF NET_PRES_EncProviderWrite0, GlueType, SessionType,
           SessionHasLibrary, ReadyIsThere, glue_vars, session_vars
  <2> QED
    BY <2>1, <2>2 DEF IInv
<1>7. CASE NET_PRES_EncProviderReadReady0
  <2>1. GlueType' /\ SessionHasLibrary'
    BY <1>0, <1>7
       DEF NET_PRES_EncProviderReadReady0, GlueType, SessionHasLibrary,
           glue_vars
  <2>2. SessionType' /\ TransportType' /\ ReadyIsThere'
    BY <1>0, <1>7, PeekType, Bounds
       DEF NET_PRES_EncProviderReadReady0, SessionType, TransportType,
           ReadyIsThere
  <2> QED
    BY <2>1, <2>2 DEF IInv
<1>8. ASSUME NEW size \in 1..RecordSize, NET_PRES_EncProviderRead0(size)
      PROVE  IInv'
  <2>1. GlueType' /\ SessionHasLibrary' /\ TransportType'
    BY <1>0, <1>8
       DEF NET_PRES_EncProviderRead0, GlueType, SessionHasLibrary,
           TransportType, glue_vars, transport_vars
  <2>2. SessionType' /\ ReadyIsThere'
    BY <1>0, <1>8, TlsAssumption
       DEF NET_PRES_EncProviderRead0, SessionType, ReadyIsThere, NotAsked
  <2> QED
    BY <2>1, <2>2 DEF IInv
<1> QED
  BY <1>1, <1>2, <1>3, <1>4, <1>5, <1>6, <1>7, <1>8 DEF Provider

(* So do the server and the transport.                                     *)
LEMMA TransportStep == IInv /\ Transport => IInv'
<1> SUFFICES ASSUME IInv, Transport PROVE IInv'
  OBVIOUS
<1>0. /\ GlueType /\ SessionType /\ TransportType
      /\ SessionHasLibrary /\ ReadyIsThere
  BY DEF IInv
<1>1. UNCHANGED <<glue_vars, session_vars>>
  BY DEF Transport, ServerAnswers, ServerSends, ServerGoesAway, Drain
<1>2. GlueType' /\ SessionType' /\ SessionHasLibrary' /\ ReadyIsThere'
  BY <1>0, <1>1
     DEF GlueType, SessionType, SessionHasLibrary, ReadyIsThere, glue_vars,
         session_vars
<1>3. \/ incoming' = incoming
      \/ /\ Len(incoming) < MaxRecords
         /\ \E record \in Record : incoming' = Append(incoming, record)
  <2>1. CASE ServerAnswers
    BY <1>0, <2>1, TlsAssumption
       DEF ServerAnswers, Receive, Record, TransportType
  <2>2. CASE ServerSends
    BY <2>2 DEF ServerSends, Receive, Record
  <2>3. CASE ServerGoesAway
    BY <2>3 DEF ServerGoesAway, Receive, Record
  <2>4. CASE Drain
    BY <2>4 DEF Drain
  <2> QED
    BY <2>1, <2>2, <2>3, <2>4 DEF Transport
<1>4. incoming' \in Seq(Record) /\ Len(incoming') <= MaxRecords
  BY <1>0, <1>3, TlsAssumption DEF TransportType
<1>5. writable' \in BOOLEAN /\ alive' \in BOOLEAN
  BY <1>0
     DEF Transport, ServerAnswers, ServerSends, ServerGoesAway, Drain,
         TransportType
<1> QED
  BY <1>2, <1>4, <1>5 DEF IInv, TransportType

LEMMA NextStep == IInv /\ [Next]_vars => IInv'
<1>1. IInv /\ UNCHANGED vars => IInv'
  BY DEF vars, glue_vars, session_vars, transport_vars, IInv, GlueType,
         SessionType, TransportType, SessionHasLibrary, ReadyIsThere
<1> QED
  BY <1>1, ProviderStep, TransportStep DEF Next

LEMMA Invariance == Spec => []IInv
BY InitIInv, NextStep, PTL DEF Spec
-----------------------------------------------------------------------------
(* The variables keep their types: the layer never reads more bytes than   *)
(* there are, and the users of the library never wrap.                     *)
THEOREM TlsTypeCorrect == Spec => []TypeOK
<1>1. IInv => TypeOK
  BY TypeOfParts DEF IInv
<1> QED
  BY <1>1, Invariance, PTL

(* A session has a context and a library whatever failed before it was     *)
(* opened, and the library is initialised once.                            *)
THEOREM SessionLives == Spec => []SessionHasLibrary
<1>1. IInv => SessionHasLibrary
  BY DEF IInv
<1> QED
  BY <1>1, Invariance, PTL

(* The layer is told that there is nothing to read only when nothing is    *)
(* left or the session is over.                                            *)
THEOREM NothingLeft == Spec => NothingIsLeft
<1>1. ASSUME IInv, [Next]_vars,
             NET_PRES_EncProviderReadReady0, ready' = 0
      PROVE  pending = 0 /\ (broken' \/ incoming = <<>>)
  <2>1. SessionType /\ TransportType /\ Peek /\ pending' = 0
    BY <1>1 DEF IInv, NET_PRES_EncProviderReadReady0
  <2>2. pending = 0
    BY <2>1, PeekType, TlsAssumption DEF SessionType
  <2>3. CASE incoming # <<>> /\ ~broken
    BY <2>1, <2>2, <2>3, TlsAssumption DEF Peek, StreamClientReceiveCb0
  <2>4. CASE broken
    BY <2>1, <2>4 DEF Peek
  <2> QED
    BY <2>2, <2>3, <2>4
<1>2. IInv /\ [Next]_vars =>
        [NET_PRES_EncProviderReadReady0 /\ ready' = 0 =>
           pending = 0 /\ (broken' \/ incoming = <<>>)]_vars
  BY <1>1
<1> QED
  BY <1>2, Invariance, PTL DEF Spec, NothingIsLeft
-----------------------------------------------------------------------------
(* The network.  NetworkSetup names its behaviour NetInit, NetNext and     *)
(* NetSpec, so that both components can be extended here.                  *)

(* The states and the driver of a stack without WiFi.                      *)
WithoutWifi ==
  ~HasWifi => ~wifi_open /\ state # "wifi_config"
WithWifi ==
  HasWifi => state # "modules_enable"

\* The counter of the code counts the failed polls of the present outage.
RetriesAreFailures == reconn_retries = failures

NetInv ==
  /\ NetTypeOK
  /\ WithoutWifi
  /\ WithWifi
  /\ WifiIsKnown
  /\ UpIsServed
  /\ RetriesAreFailures
  /\ ResetsAreCounted

LEMMA NetConstants ==
  /\ \A net \in Nets :
       Addresses[net] \subseteq Nat /\ 0 \in Addresses[net]
  /\ RetryLimit \in Nat /\ RetryWrap \in Nat /\ RetryLimit < RetryWrap
  /\ DhcpThreshold \in Nat /\ DhcpThreshold > 0
  /\ \A stack \in Stacks : stack \subseteq Nets
  /\ Address \subseteq Nat
<1>1. Address \subseteq Nat
  BY NetworkAssumption DEF NetworkConstants, Address
<1> QED
  BY <1>1, NetworkAssumption DEF NetworkConstants

LEMMA NetInitInv ==
  ASSUME NetInit
  PROVE  NetInv
<1>1. NetTypeOK
  <2>1. was_net_up \subseteq nets /\ net_up \subseteq nets
    BY DEF NetInit
  <2>2. address \in [nets -> Address]
    BY NetConstants DEF NetInit, Address
  <2>3. last_ip \in [nets -> Address \cup {NoAddress}]
    BY DEF NetInit
  <2>4. /\ ip_wait \in 0 .. DhcpThreshold /\ resets \in 0 .. RetryLimit
        /\ reconn_retries \in 0 .. RetryWrap - 1
        /\ failures \in 0 .. RetryWrap - 1
    BY NetConstants DEF NetInit
  <2>5. is_wifi_power_save_configured \in BOOLEAN /\ wifi_open \in BOOLEAN
    BY Zenon DEF NetInit
  <2>6. /\ state \in State /\ tcpip \in {"busy", "ready", "error"}
        /\ wifi_net_handle \in {NoHandle, Wifi}
        /\ wifi_default_ip \in Address \cup {NoAddress}
    BY Zenon DEF NetInit, State
  <2>7. nets \in Stacks /\ dhcp \subseteq nets /\ dns \subseteq nets
    BY DEF NetInit
  <2> QED
    BY <2>1, <2>2, <2>3, <2>4, <2>5, <2>6, <2>7, Zenon DEF NetTypeOK
<1> QED
  BY <1>1, NetConstants
     DEF NetInit, NetInv, WithoutWifi, WithWifi, WifiIsKnown,
         UpIsServed, RetriesAreFailures, ResetsAreCounted

(* The states before TRANSACT.                                             *)
LEMMA BeforeTransact ==
  ASSUME NetInv,
         InitWait \/ WifiConfig \/ ModulesEnable
  PROVE  NetInv'
<1> USE DEF NetInv, NetTypeOK, State, WithoutWifi, WithWifi,
            WifiIsKnown, UpIsServed, RetriesAreFailures, ResetsAreCounted,
            HasWifi, ext_vars, static_vars, outage_vars,
            data_vars, module_vars
<1>1. CASE InitWait
  BY <1>1 DEF InitWait, AfterInit
<1>2. CASE WifiConfig
  <2>1. Wifi \in nets
    BY <1>2 DEF WifiConfig
  <2>2. address[Wifi] \in Address /\ address[Wifi] # NoAddress
    BY <2>1, NetConstants DEF NoAddress
  <2> QED
    BY <1>2, <2>1, <2>2, NetConstants
       DEF WifiConfig, appNetworkWifiConfig,
           appNetworkTCPIPModuleEnable,
           APP_Network_TPCIP_IfModulesEnable
<1>3. CASE ModulesEnable
  BY <1>3, NetConstants
     DEF ModulesEnable, appNetworkTCPIPModuleEnable,
         APP_Network_TPCIP_IfModulesEnable
<1> QED
  BY <1>1, <1>2, <1>3

(* The counter starts again when it overflows, and only then.              *)
LEMMA Wraps ==
  ASSUME reconn_retries \in 0 .. RetryWrap - 1
  PROVE  (reconn_retries + 1) % RetryWrap =
           IF reconn_retries + 1 = RetryWrap THEN 0 ELSE reconn_retries + 1
BY NetConstants

LEMMA WifiResetStep ==
  ASSUME NetInv, NEW status \in ConnStatus,
         WifiReset(status)
  PROVE  NetInv'
<1> USE DEF NetInv, NetTypeOK, State, WithoutWifi, WithWifi,
            WifiIsKnown, UpIsServed, RetriesAreFailures, ResetsAreCounted,
            WifiReset, data_vars
<1>1. HasWifi /\ HasWifi' /\ wifi_net_handle \in nets
  BY DEF ConnStatus, HasWifi
<1>2. reconn_retries' = reconn_retries + 1 /\ reconn_retries' < RetryWrap
  BY Wraps, NetConstants DEF CountRetry
<1>3. /\ RetriesAreFailures' /\ ResetsAreCounted'
      /\ failures' \in 0 .. RetryWrap - 1 /\ resets' \in 0 .. RetryLimit
  <2>1. failures < RetryLimit /\ failures \in Nat /\ resets = failures
    OBVIOUS
  <2>2. status = "failed" /\ reconn_retries' = failures + 1
    BY <1>2
  <2>3. failures' = failures + 1
    BY <2>2 DEF Outage, CountRetry
  <2>4. resets' = failures + 1
    BY <2>1, <2>3 DEF Outage
  <2> HIDE DEF NetInv, WifiReset
  <2>5. ~(failures + 1 < RetryLimit) => failures + 1 = RetryLimit
    BY <2>1, NetConstants
  <2>6. /\ failures' \in 0 .. RetryWrap - 1
        /\ resets' \in 0 .. RetryLimit
    BY <2>1, <2>3, <2>4, NetConstants
  <2> QED
    BY <2>2, <2>3, <2>4, <2>5, <2>6
<1>4. address' \in [nets' -> Address] /\ net_up' \subseteq nets'
  <2>1. 0 \in Address
    BY <1>1, NetConstants DEF Address
  <2> QED
    BY <1>1, <2>1 DEF IfaceDownAndUp
<1>5. dhcp' \subseteq nets' /\ dns' \subseteq nets'
  BY DEF APP_Network_TCPIP_IfModulesDisable
<1>6. state' = "wifi_config" /\ wifi_open' = FALSE
  BY DEF IfaceDownAndUp
<1>7. NetTypeOK'
  <2>1. state' \in State /\ wifi_open' \in BOOLEAN
    BY <1>6
  <2>2. reconn_retries' \in 0 .. RetryWrap - 1
    BY <1>2, NetConstants
  <2>3. is_wifi_power_save_configured' \in BOOLEAN
    OBVIOUS
  <2>4. /\ nets' \in Stacks /\ was_net_up' \subseteq nets'
        /\ last_ip' \in [nets' -> Address \cup {NoAddress}]
        /\ tcpip' \in {"busy", "ready", "error"}
    OBVIOUS
  <2>5. /\ ip_wait' \in 0 .. DhcpThreshold
        /\ wifi_default_ip' \in Address \cup {NoAddress}
        /\ wifi_net_handle' \in {NoHandle, Wifi}
    OBVIOUS
  <2> QED
    BY <1>3, <1>4, <1>5, <2>1, <2>2, <2>3, <2>4, <2>5, Zenon DEF NetTypeOK
<1>8. WithoutWifi' /\ WithWifi' /\ WifiIsKnown' /\ UpIsServed'
  BY <1>1, <1>6
<1> QED
  BY <1>3, <1>7, <1>8

LEMMA TransactStep ==
  ASSUME NetInv, NEW status \in ConnStatus,
         NEW tick \in BOOLEAN, Transact(status, tick)
  PROVE  NetInv'
<1> USE DEF NetInv, NetTypeOK, State, Transact, ext_vars
<1>1. /\ HasWifi' = HasWifi
      /\ status = "reestablished" => wifi_net_handle \in nets
  BY DEF ConnStatus, HasWifi, WifiIsKnown
<1>2. /\ reconn_retries' \in 0 .. RetryWrap - 1
      /\ failures' \in 0 .. RetryWrap - 1 /\ resets' \in 0 .. RetryLimit
      /\ RetriesAreFailures' /\ ResetsAreCounted'
  <2> USE DEF Retries, Outage, RetriesAreFailures, ResetsAreCounted
  <2>1. CASE status = "successful"
    BY <2>1, NetConstants
  <2>2. CASE status = "failed"
    <3>1. ~(failures < RetryLimit) /\ resets = RetryLimit
      BY <2>2
    <3>2. /\ failures' = (failures + 1) % RetryWrap
          /\ reconn_retries' = failures'
          /\ resets' = IF failures' = 0 THEN 0 ELSE RetryLimit
      BY <2>2, <3>1, NetConstants DEF CountRetry
    <3>3. failures' = IF failures + 1 = RetryWrap THEN 0 ELSE failures + 1
      BY <3>2, Wraps
    <3> QED
      BY <3>1, <3>2, <3>3, NetConstants
  <2>3. CASE status \notin {"successful", "failed"}
    <3>1. UNCHANGED <<reconn_retries, failures>>
      BY <2>3
    <3> QED
      BY <2>3, <3>1, NetConstants
  <2> QED
    BY <2>1, <2>2, <2>3
<1>3. /\ dhcp' \subseteq nets' /\ dns' \subseteq nets'
      /\ UpIsServed'
  BY <1>1 DEF Modules, WentDown, CameUp, UpIsServed
<1>4. ip_wait' \in 0 .. DhcpThreshold
  BY NetConstants DEF IpWait
<1>5. is_wifi_power_save_configured' \in BOOLEAN
  BY DEF PowerSave
<1>6. last_ip' \in [nets' -> Address \cup {NoAddress}]
  OBVIOUS
<1> QED
  BY <1>1, <1>2, <1>3, <1>4, <1>5, <1>6
     DEF WithoutWifi, WithWifi, WifiIsKnown

LEMMA EnvironmentStep ==
  ASSUME NetInv, Environment
  PROVE  NetInv'
<1> USE DEF NetInv, NetTypeOK, WithoutWifi, WithWifi, WifiIsKnown,
            UpIsServed, RetriesAreFailures, ResetsAreCounted, HasWifi,
            static_vars, outage_vars, data_vars, module_vars
<1>1. CASE \E status \in {"ready", "error"} : StackStarts(status)
  BY <1>1 DEF StackStarts
<1>2. CASE WifiOpens
  BY <1>2 DEF WifiOpens, HasWifi
<1>3. ASSUME NEW net \in nets, NetUp(net) PROVE NetInv'
  BY <1>3 DEF NetUp
<1>4. ASSUME NEW net \in nets, NetDown(net) PROVE NetInv'
  <2>1. 0 \in Address
    BY NetConstants DEF Address
  <2>2. address' \in [nets' -> Address]
    BY <1>4, <2>1 DEF NetDown
  <2> QED
    BY <1>4, <2>2 DEF NetDown
<1>5. ASSUME NEW net \in nets, AddressChanges(net) PROVE NetInv'
  <2>1. Addresses[net] \subseteq Address
    BY NetConstants DEF Address
  <2>2. address' \in [nets' -> Address]
    BY <1>5, <2>1 DEF AddressChanges
  <2> QED
    BY <1>5, <2>2 DEF AddressChanges
<1> QED
  BY <1>1, <1>2, <1>3, <1>4, <1>5 DEF Environment

LEMMA NetInvariance == NetSpec => []NetInv
<1>1. NetInv /\ [NetNext]_net_vars => NetInv'
  <2> SUFFICES ASSUME NetInv, [NetNext]_net_vars PROVE NetInv'
    OBVIOUS
  <2>1. CASE UNCHANGED net_vars
    BY <2>1 DEF net_vars, static_vars, outage_vars, data_vars, module_vars,
       ext_vars, NetInv, NetTypeOK, WithoutWifi, WithWifi,
       WifiIsKnown, UpIsServed, RetriesAreFailures, ResetsAreCounted, HasWifi
  <2> QED
    BY <2>1, BeforeTransact, WifiResetStep, TransactStep, EnvironmentStep
       DEF NetNext, APP_Network_Tasks, Wait
<1>2. NetInit => NetInv
  BY NetInitInv
<1> QED
  BY <1>1, <1>2, PTL DEF NetSpec

(* Every variable of the network bring-up keeps its type, whatever the     *)
(* stack, the WiFi module and the user do; a stack without WiFi never      *)
(* follows its null handle (app_network.c).                                *)
THEOREM NetTypeCorrect == NetSpec => []NetTypeOK
<1>1. NetSpec => []NetInv
  BY NetInvariance
<1> QED
  BY <1>1, PTL DEF NetInv

(* appNetworkRun is only reached with a WiFi module that has been found.   *)
THEOREM WifiKnown == NetSpec => []WifiIsKnown
<1>1. NetSpec => []NetInv
  BY NetInvariance
<1> QED
  BY <1>1, PTL DEF NetInv

(* An interface the last poll found up has DHCP and DNS.                   *)
THEOREM Served == NetSpec => []UpIsServed
<1>1. NetSpec => []NetInv
  BY NetInvariance
<1> QED
  BY <1>1, PTL DEF NetInv

(* In every outage WiFi is reset at its first RetryLimit failed polls and  *)
(* at no other, because a success sets the counter of the code to 0: the   *)
(* counter and the failed polls of the outage are the same number.         *)
THEOREM ResetsCounted == NetSpec => []ResetsAreCounted
<1>1. NetSpec => []NetInv
  BY NetInvariance
<1> QED
  BY <1>1, PTL DEF NetInv
=============================================================================
