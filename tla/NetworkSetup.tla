---------------------------- MODULE NetworkSetup ----------------------------
(***************************************************************************)
(* Network bring-up (src/firmware/src/app_network.c and                    *)
(* app_network_utils.c): wait for the TCP/IP stack and for the WiFi        *)
(* module, start DHCP and DNS on every interface, and from then on follow  *)
(* the interfaces up and down and reset a WiFi module that cannot connect. *)
(* The stack and the WiFi driver are external; the user may take an        *)
(* interface down and up with the commands of the stack.                   *)
(*                                                                         *)
(* The stack is polled by the same loop, so nothing of it moves during a   *)
(* poll.  A tick is the half second after which start_tick is renewed.     *)
(***************************************************************************)
EXTENDS Integers

CONSTANTS
  Nets,            \* interfaces a stack may have
  Wifi,            \* the one named WIFI_INTERFACE_NAME
  Stacks,          \* sets of interfaces a stack is built with
  Addresses,       \* bound: IPv4 addresses an interface may get, 0 for none
  RetryLimit,      \* WIFI_RECONNECTION_RETRY_LIMIT
  RetryWrap,       \* 2^32, where reconn_retries starts again, scaled down
  DhcpThreshold    \* WIFI_DHCP_WAIT_THRESHOLD, in ticks

NetworkConstants ==
  /\ Stacks \subseteq SUBSET Nets /\ "null" \notin Nets
  /\ Addresses \in [Nets -> SUBSET Nat]
  /\ \A net \in Nets : 0 \in Addresses[net]
  /\ RetryLimit \in Nat /\ RetryWrap \in Nat /\ RetryLimit < RetryWrap
  /\ DhcpThreshold \in Nat \ {0}

ASSUME NetworkAssumption == NetworkConstants

VARIABLES
  state,                          \* AppNetworkData::state
  ip_wait,                        \* and its other fields
  wifi_default_ip,
  wifi_net_handle,
  is_wifi_power_save_configured,  \* static variables of appNetworkRun
  was_net_up,
  reconn_retries,
  last_ip,
  nets,         \* external: the interfaces of the stack
  tcpip,        \* external: TCPIP_STACK_Status
  wifi_open,    \* external: the WiFi driver is open
  net_up,       \* external: the interfaces which are up
  address,      \* external: their addresses
  dhcp, dns,    \* interfaces on which the code has asked for DHCP and DNS
  failures,     \* history: polls that found the connection failed,
  resets        \* history: and WiFi resets, both in the present outage

static_vars == <<is_wifi_power_save_configured, was_net_up, reconn_retries,
                 last_ip>>
outage_vars == <<failures, resets>>
data_vars == <<ip_wait, wifi_default_ip, wifi_net_handle>>
module_vars == <<dhcp, dns>>
ext_vars == <<nets, tcpip, wifi_open, net_up, address>>
net_vars == <<state, static_vars, data_vars, module_vars, ext_vars, outage_vars>>

State == {"wait_init", "wifi_config", "modules_enable", "transact", "error"}
Status == {"not_connected", "successful", "failed", "reestablished"}
NoAddress == -1
NoHandle == "null"
Address == UNION {Addresses[net] : net \in Nets}
HasWifi == Wifi \in nets

\* A stack without WiFi never opens its driver, which then has no connection.
ConnStatus == IF HasWifi THEN Status ELSE {"not_connected"}

\* APP_Network_Initialize and the initialisers of the statics.
NetInit ==
  /\ state = "wait_init"
  /\ ip_wait = 0
  /\ wifi_default_ip = NoAddress
  /\ wifi_net_handle = NoHandle
  /\ is_wifi_power_save_configured = FALSE
  /\ nets \in Stacks
  /\ was_net_up = nets
  /\ reconn_retries = 0
  /\ last_ip = [net \in nets |-> NoAddress]
  /\ tcpip = "busy" /\ wifi_open = FALSE
  /\ net_up = {} /\ address = [net \in nets |-> 0]
  /\ dhcp = {} /\ dns = {}
  /\ failures = 0 /\ resets = 0

(***************************************************************************)
(* app_network_utils.c.  Power saving, IPv6 and the DHCP server are left   *)
(* out of the build by its configuration.                                  *)
(***************************************************************************)
APP_Network_TPCIP_IfModulesEnable(which) ==
  dhcp' = dhcp \cup which /\ dns' = dns \cup which

APP_Network_TCPIP_IfModulesDisable(which) ==
  dhcp' = dhcp \ which /\ dns' = dns \ which

\* Down and up again; whether the interface does come up is not looked at.
IfaceDownAndUp(net) ==
  /\ net_up' \in {net_up \ {net}, net_up \cup {net}}
  /\ wifi_open' = FALSE
  /\ address' = [address EXCEPT ![net] = 0]

(***************************************************************************)
(* The states before TRANSACT, which fall through into each other.         *)
(***************************************************************************)
appNetworkWifiConfig ==
  /\ wifi_net_handle' = Wifi
  /\ wifi_default_ip' = address[Wifi]

\* A defect: only interfaces which are up are served.
appNetworkTCPIPModuleEnable_OnlyUp ==
  /\ APP_Network_TPCIP_IfModulesEnable(net_up)
  /\ ip_wait' = 1
  /\ state' = "transact"

appNetworkTCPIPModuleEnable ==
  /\ APP_Network_TPCIP_IfModulesEnable(nets)
  /\ ip_wait' = 1
  /\ state' = "transact"

\* A defect: the WiFi module is not waited for.
AfterInit_IgnoresWifi == IF tcpip = "error" THEN "error" ELSE "modules_enable"

\* What WAIT_INIT makes of a stack that is no longer busy.
AfterInit ==
  IF tcpip = "error" THEN "error"
  ELSE IF HasWifi THEN "wifi_config" ELSE "modules_enable"

\* WIFI_CONFIG, entered or fallen into; an open driver leads on even from an
\* error of the stack.
WifiConfig ==
  /\ \/ state = "wait_init" /\ tcpip # "busy"
     \/ state = "wifi_config"
  /\ wifi_open
  /\ appNetworkWifiConfig
  /\ appNetworkTCPIPModuleEnable
  /\ UNCHANGED <<static_vars, outage_vars, ext_vars>>

InitWait ==
  /\ state = "wait_init" /\ tcpip # "busy"
  /\ ~wifi_open
  /\ state' = AfterInit
  /\ UNCHANGED <<static_vars, outage_vars, data_vars, module_vars, ext_vars>>

ModulesEnable ==
  /\ state = "modules_enable"
  /\ appNetworkTCPIPModuleEnable
  /\ UNCHANGED <<static_vars, outage_vars, wifi_default_ip, wifi_net_handle, ext_vars>>

(***************************************************************************)
(* appNetworkRun.                                                          *)
(***************************************************************************)
\* History: a poll that finds the connection successful ends an outage.  A
\* longer one than the counter of the code can count begins again.
Outage(status, reset) ==
  /\ failures' = CASE status = "successful" -> 0
                   [] status = "failed"     -> (failures + 1) % RetryWrap
                   [] OTHER                 -> failures
  /\ resets' = IF failures' = 0 THEN 0 ELSE resets + (IF reset THEN 1 ELSE 0)

\* reconn_retries++.
CountRetry == reconn_retries' = (reconn_retries + 1) % RetryWrap

WifiReset(status) ==
  /\ state = "transact" /\ status = "failed"
  /\ reconn_retries < RetryLimit
  /\ CountRetry
  /\ Outage(status, TRUE)
  /\ APP_Network_TCPIP_IfModulesDisable({wifi_net_handle})
  /\ IfaceDownAndUp(wifi_net_handle)
  /\ is_wifi_power_save_configured' = FALSE
  /\ state' = "wifi_config"
  /\ UNCHANGED <<was_net_up, last_ip, data_vars, nets, tcpip>>

\* A defect: a success does not give the retries back.
Retries_NeverForgotten(status) ==
  IF status = "failed" THEN CountRetry ELSE UNCHANGED reconn_retries

Retries(status) ==
  CASE status = "successful" -> reconn_retries' = 0
    [] status = "failed"     -> CountRetry
    [] OTHER                 -> UNCHANGED reconn_retries

WentDown == was_net_up \ net_up
CameUp == net_up \ was_net_up

\* Restarting DHCP leaves it on; then come the interfaces that changed.
Modules(status) ==
  LET restarted == IF status = "reestablished" THEN {wifi_net_handle} ELSE {}
  IN  /\ dhcp' = ((dhcp \cup restarted) \ WentDown) \cup CameUp
      /\ dns' = (dns \ WentDown) \cup CameUp

PowerSave(status) ==
  LET kept == /\ is_wifi_power_save_configured
              /\ status # "reestablished"
              /\ Wifi \notin WentDown
  IN  is_wifi_power_save_configured' =
        \/ kept
        \/ wifi_net_handle \in net_up /\ address[wifi_net_handle] # wifi_default_ip

NewAddress == \E net \in nets : address[net] \notin {last_ip[net], 0}

IpWait(status, tick) ==
  LET started == IF status = "reestablished" THEN 1 ELSE ip_wait
      waiting == IF NewAddress THEN 0 ELSE started
  IN  ip_wait' = IF ~tick \/ waiting = 0 THEN waiting
                 ELSE IF waiting >= DhcpThreshold THEN 0 ELSE waiting + 1

Transact(status, tick) ==
  /\ state = "transact"
  /\ ~(status = "failed" /\ reconn_retries < RetryLimit)
  /\ Retries(status)
  /\ Outage(status, FALSE)
  /\ Modules(status)
  /\ was_net_up' = net_up
  /\ PowerSave(status)
  /\ last_ip' = address
  /\ IpWait(status, tick)
  /\ UNCHANGED <<state, wifi_default_ip, wifi_net_handle, ext_vars>>

Wait ==
  /\ \/ state = "wait_init" /\ tcpip = "busy"
     \/ state = "wifi_config" /\ ~wifi_open
     \/ state = "error"
  /\ UNCHANGED net_vars

APP_Network_Tasks ==
  \/ Wait
  \/ InitWait \/ WifiConfig \/ ModulesEnable
  \/ \E status \in ConnStatus :
       \/ WifiReset(status)
       \/ \E tick \in BOOLEAN : Transact(status, tick)

(***************************************************************************)
(* The stack, the WiFi driver, the DHCP servers and the user.              *)
(***************************************************************************)
StackStarts(status) ==
  /\ tcpip = "busy"
  /\ tcpip' = status
  /\ net_up' \in IF status = "ready" THEN SUBSET nets ELSE {net_up}
  /\ UNCHANGED <<state, static_vars, outage_vars, data_vars, module_vars, nets,
                 wifi_open, address>>

\* The driver is opened while its interface is brought up.
WifiOpens ==
  /\ HasWifi /\ ~wifi_open
  /\ tcpip = "busy" \/ Wifi \in net_up
  /\ wifi_open' = TRUE
  /\ UNCHANGED <<state, static_vars, outage_vars, data_vars, module_vars, nets,
                 tcpip, net_up, address>>

NetUp(net) ==
  /\ tcpip = "ready" /\ net \notin net_up
  /\ net_up' = net_up \cup {net}
  /\ UNCHANGED <<state, static_vars, outage_vars, data_vars, module_vars, nets,
                 tcpip, wifi_open, address>>

NetDown(net) ==
  /\ net \in net_up
  /\ net_up' = net_up \ {net}
  /\ address' = [address EXCEPT ![net] = 0]
  /\ wifi_open' = (wifi_open /\ net # Wifi)
  /\ UNCHANGED <<state, static_vars, outage_vars, data_vars, module_vars, nets, tcpip>>

AddressChanges(net) ==
  /\ net \in net_up
  /\ address' \in {[address EXCEPT ![net] = a] : a \in Addresses[net] \ {address[net]}}
  /\ UNCHANGED <<state, static_vars, outage_vars, data_vars, module_vars, nets,
                 tcpip, wifi_open, net_up>>

Environment ==
  \/ \E status \in {"ready", "error"} : StackStarts(status)
  \/ WifiOpens
  \/ \E net \in nets : NetUp(net) \/ NetDown(net) \/ AddressChanges(net)

NetNext == APP_Network_Tasks \/ Environment

NetSpec == NetInit /\ [][NetNext]_net_vars

(***************************************************************************)
(* Properties.                                                             *)
(***************************************************************************)
NetTypeOK ==
  /\ state \in State
  /\ nets \in Stacks
  /\ ip_wait \in 0 .. DhcpThreshold
  /\ wifi_default_ip \in Address \cup {NoAddress}
  /\ wifi_net_handle \in {NoHandle, Wifi}
  /\ is_wifi_power_save_configured \in BOOLEAN
  /\ was_net_up \subseteq nets
  /\ reconn_retries \in 0 .. RetryWrap - 1
  /\ last_ip \in [nets -> Address \cup {NoAddress}]
  /\ tcpip \in {"busy", "ready", "error"}
  /\ wifi_open \in BOOLEAN
  /\ net_up \subseteq nets
  /\ address \in [nets -> Address]
  /\ dhcp \subseteq nets /\ dns \subseteq nets
  /\ failures \in 0 .. RetryWrap - 1
  /\ resets \in 0 .. RetryLimit

\* The machine gets to TRANSACT, by whatever states it falls through, only with
\* a WiFi module that has been found: appNetworkRun uses its handle and its
\* default address without another look (app_network.c, APP_Network_Tasks).
WifiIsKnown ==
  state = "transact" /\ HasWifi
    => wifi_net_handle = Wifi /\ wifi_default_ip # NoAddress

\* An interface the last poll found up has DHCP and DNS, after resets,
\* reconnections and the user's going down and up in any order.
UpIsServed == state = "transact" => was_net_up \subseteq dhcp \cap dns

\* In every outage WiFi is reset at the first RetryLimit polls that find the
\* connection failed, and at no other: a success gives back all the retries that
\* earlier outages have used (appNetworkRun).  An outage lasts until a poll finds
\* the connection successful, or for RetryWrap failed polls.
ResetsAreCounted ==
  resets = IF failures < RetryLimit THEN failures ELSE RetryLimit

=============================================================================
