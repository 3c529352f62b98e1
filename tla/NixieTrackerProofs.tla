------------------------- MODULE NixieTrackerProofs -------------------------
(***************************************************************************)
(* Proofs about NixieTracker for all URLs, values and intervals, any       *)
(* number of sockets, every set of faults and every choice of commands:    *)
(* the application uses the HTTPS client and the shift register as each    *)
(* must be used, and the two agree on who waits for what.                  *)
(***************************************************************************)
EXTENDS NixieTracker, TLAPS

(* What is proved of the client alone, for the application's two users.    *)
Client == INSTANCE HttpsClientProofs
            WITH state <- https_state, Client <- {"nixie", "fetch"}

(* A refresh is known as one for as long as it may fail.                   *)
RefreshIsMarked ==
  nixie_state \in Fetching \cup {"ERROR"} /\ requested_by = "periodic" =>
    task_from_periodic

Waiting == OwnerWaits /\ WaitersAreOwed /\ RefreshIsMarked
IInv == TypeOK /\ Client!IInv /\ Waiting
-----------------------------------------------------------------------------
(* The client here and the client of the proofs are the same.              *)
LEMMA ClientAssumption == Client!HttpsClientAssumption
BY NixieTrackerAssumption
   DEF Https!UrlKind, Client!UrlKind, Https!Family, Client!Family,
       Https!Fault, Client!Fault

LEMMA SameInit == Https!Init => Client!Init
BY DEF Https!Init, Client!Init

LEMMA SameSilent == Https!SilentTasks => Client!SilentTasks
BY DEF Https!SilentTasks, Client!SilentTasks,
       Https!beginSequence, Client!beginSequence,
       Https!waitForNetworkAvailable, Client!waitForNetworkAvailable,
       Https!pasreRequestURL, Client!pasreRequestURL,
       Https!processRequest, Client!processRequest,
       Https!checkDNSResolveStatus, Client!checkDNSResolveStatus,
       Https!startNetworkConnection, Client!startNetworkConnection,
       Https!waitNetworkConnection, Client!waitNetworkConnection,
       Https!closeNetworkConnection, Client!closeNetworkConnection,
       Https!waitForSSLConnect, Client!waitForSSLConnect,
       Https!sendRequest, Client!sendRequest,
       Https!Goto, Client!Goto, Https!net_vars, Client!net_vars,
       Https!fixed, Client!fixed, Https!DnsResolve, Client!DnsResolve,
       Https!DnsAnswered, Client!DnsAnswered, Https!DnsOk, Client!DnsOk,
       Https!SocketClose, Client!SocketClose,
       Https!Negotiating, Client!Negotiating,
       Https!Writable, Client!Writable, Https!Family, Client!Family

LEMMA SameTasks ==
  ASSUME NEW event \in Https!Event, Https!APP_HTTPS_Client_Tasks(event)
  PROVE  Client!Tasks
<1>1. event \in Client!Event
  BY DEF Https!Event, Client!Event
<1>2. Client!APP_HTTPS_Client_Tasks(event)
  BY SameSilent
     DEF Https!APP_HTTPS_Client_Tasks, Client!APP_HTTPS_Client_Tasks,
         Https!responseBuffer, Client!responseBuffer,
         Https!responseOver, Client!responseOver,
         Https!handleError, Client!handleError,
         Https!client_vars, Client!client_vars,
         Https!net_vars, Client!net_vars, Https!fixed, Client!fixed
<1> QED
  BY <1>1, <1>2 DEF Client!Tasks

LEMMA SameRequest ==
  ASSUME NEW client \in {"nixie", "fetch"}, NEW url \in Url,
         Https!APP_HTTPS_Client_Request(client, url)
  PROVE  Client!Request
<1>1. Client!APP_HTTPS_Client_Request(client, url)
  BY DEF Https!APP_HTTPS_Client_Request, Client!APP_HTTPS_Client_Request,
         Https!APP_HTTPS_Client_IsBusy, Client!APP_HTTPS_Client_IsBusy,
         Https!net_vars, Client!net_vars, Https!fixed, Client!fixed
<1> QED
  BY <1>1 DEF Client!Request

LEMMA SameNetwork == Https!Network => Client!Network
BY DEF Https!Network, Client!Network, Https!DnsAnswers, Client!DnsAnswers,
       Https!DnsFails, Client!DnsFails, Https!Connects, Client!Connects,
       Https!HandshakeEnds, Client!HandshakeEnds,
       Https!ServerSends, Client!ServerSends,
       Https!ServerFinishes, Client!ServerFinishes,
       Https!ServerGoesAway, Client!ServerGoesAway,
       Https!Negotiating, Client!Negotiating,
       Https!Answering, Client!Answering, Https!Writable, Client!Writable,
       Https!client_vars, Client!client_vars, Https!fixed, Client!fixed
-----------------------------------------------------------------------------
(* Every step of the application is a step of the client or leaves it      *)
(* alone: in particular nobody places a request while it is busy.          *)
LEMMA ClientSteps == [Next]_vars => [Client!Next]_(Client!vars)
<1> SUFFICES ASSUME [Next]_vars PROVE [Client!Next]_(Client!vars)
  OBVIOUS
<1>0. UNCHANGED https_vars => UNCHANGED Client!vars
  BY DEF https_vars, Client!vars, Client!client_vars, Client!net_vars,
         Client!fixed
<1>1. CASE NextPass
  BY <1>0, <1>1 DEF NextPass
<1>2. CASE HttpsTasks
  <2>1. UNCHANGED https_vars \/ Client!Tasks
    <3>1. CASE Https!SilentTasks
      <4>1. Client!APP_HTTPS_Client_Tasks("none")
        BY <3>1, SameSilent DEF Client!APP_HTTPS_Client_Tasks
      <4> QED
        BY <4>1 DEF Client!Tasks, Client!Event
    <3>2. CASE \E event \in Https!Event \ {"none"} :
                 Https!APP_HTTPS_Client_Tasks(event)
      BY <3>2, SameTasks
    <3> QED
      BY <1>2, <3>1, <3>2 DEF HttpsTasks
  <2> QED
    BY <1>0, <2>1 DEF Client!Next
<1>3. CASE ShiftRegisterTasks
  BY <1>0, <1>3 DEF ShiftRegisterTasks
<1>4. CASE NixieTasks
  <2>1. UNCHANGED https_vars \/ Https!APP_HTTPS_Client_Request("nixie", ServerUrl)
    BY <1>4 DEF NixieTasks, performPeriodicTasks, handleError, PassOn,
         waitHttpsClientAndSendRequest, shuffleServerValueDigits,
         encodeShiftRegister, writeShiftRegister, NixieWaits
  <2> QED
    BY <1>0, <2>1, SameRequest, NixieTrackerAssumption DEF Client!Next
<1>5. CASE CommandTasks
  <2>1. \/ UNCHANGED https_vars
        \/ \E url \in Url : Https!APP_HTTPS_Client_Request("fetch", url)
    BY <1>5 DEF CommandTasks, Invoke, Update, CommandWaits,
         performNixieDisplay, performNixieFetch, APP_Nixie_Fetch, performFetch,
         performShiftRegisterSendData, performShiftRegisterSetEnabled
  <2> QED
    BY <1>0, <2>1, SameRequest DEF Client!Next
<1>6. CASE Outside(Https!Network)
  BY <1>6, SameNetwork DEF Outside, Client!Next
<1>7. CASE Console \/ Tick \/ UNCHANGED vars
  BY <1>0, <1>7 DEF Console, Tick, vars
<1> QED
  BY <1>1, <1>2, <1>3, <1>4, <1>5, <1>6, <1>7 DEF Next, APP_Tasks

LEMMA ClientInvariance == Client!IInv /\ [Next]_vars => Client!IInv'
BY ClientSteps, ClientAssumption, Client!NextStep
-----------------------------------------------------------------------------
LEMMA SameTypes == Client!TypeOK => Https!TypeOK
BY DEF Client!TypeOK, Https!TypeOK, Client!State, Https!State,
       Client!Family, Https!Family, Client!Sock, Https!Sock

(* The types of the tracker's own variables, by component.                 *)
ShiftTypes ==
  busy \in BOOLEAN /\ job \in Value /\ shown \in Value /\ lit \in BOOLEAN
NixieTypes ==
  /\ nixie_state \in NixieState
  /\ periodic_tasks_enabled \in BOOLEAN
  /\ periodic_due \in 0..Normal
  /\ task_from_periodic \in BOOLEAN
  /\ is_value_parsed \in BOOLEAN
  /\ display_value \in Value /\ register_shift_state \in Value
  /\ display_value_out \in BOOLEAN
  /\ requested_by \in {"periodic", "console"}
CommandTypes ==
  /\ task_state \in {"NONE", "WAIT_AVAILABLE", "RUNNING"}
  /\ task_callback \in Command \cup {"NULL"}
  /\ nixie_private \in NixiePrivate
  /\ send_data \in Value
  /\ request_active \in BOOLEAN
OwnTypes == phase \in Phase /\ ShiftTypes /\ NixieTypes /\ CommandTypes

LEMMA TypesSplit == TypeOK <=> Https!TypeOK /\ OwnTypes
BY DEF TypeOK, OwnTypes, ShiftTypes, NixieTypes, CommandTypes

LEMMA Values ==
  /\ ServerValue \subseteq Value /\ UserValue \subseteq Value
  /\ Zeros \in Value /\ Garbled \in Value
BY DEF Value

LEMMA Storage ==
  ASSUME NEW kind \in {"display", "fetch"}, NEW is_fetched \in BOOLEAN,
         NEW value \in Value
  PROVE  [kind |-> kind, is_fetched |-> is_fetched, value |-> value]
           \in NixiePrivate
BY DEF NixiePrivate

LEMMA StoredValue == nixie_private \in NixiePrivate => nixie_private.value \in Value
BY DEF NixiePrivate

LEMMA Intervals ==
  /\ Fast \in Nat /\ Normal \in Nat /\ Fast < Normal
  /\ 0 \in 0..Normal /\ Fast \in 0..Normal /\ Normal \in 0..Normal
BY NixieTrackerAssumption

LEMMA OwnTypesInit == Init => OwnTypes
<1> SUFFICES ASSUME Init PROVE OwnTypes
  OBVIOUS
<1>1. phase \in Phase /\ ShiftTypes
  BY Values DEF Init, Phase, ShiftTypes
<1>2. NixieTypes
  BY Values, Intervals DEF Init, NixieTypes, NixieState
<1>3. CommandTypes
  BY Values, Storage DEF Init, CommandTypes
<1> QED
  BY <1>1, <1>2, <1>3 DEF OwnTypes

(* What a step leaves alone keeps its types.                               *)
LEMMA Unchanged ==
  /\ ShiftTypes /\ UNCHANGED shift_vars => ShiftTypes'
  /\ NixieTypes /\ UNCHANGED nixie_vars => NixieTypes'
  /\ CommandTypes /\ UNCHANGED command_vars => CommandTypes'
BY DEF ShiftTypes, NixieTypes, CommandTypes, shift_vars, nixie_vars,
       periodic_vars, fetch_vars, command_vars

LEMMA HttpsTasksTypes == OwnTypes /\ HttpsTasks => OwnTypes'
<1> SUFFICES ASSUME OwnTypes, HttpsTasks PROVE OwnTypes'
  OBVIOUS
<1>1. phase' \in Phase /\ ShiftTypes'
  BY Unchanged DEF OwnTypes, HttpsTasks, Phase
<1>2. ASSUME NEW event \in Https!Event, NixieCallback(event)
      PROVE  NixieTypes' /\ CommandTypes'
  <2> USE <1>2, Values
      DEF OwnTypes, NixieTypes, NixieState, NixieCallback, periodic_vars
  <2>1. CommandTypes'
    BY Unchanged
  <2>2. CASE nixieBufferReceived
    BY <2>1, <2>2 DEF nixieBufferReceived
  <2>3. CASE nixieRequestHandled
    BY <2>1, <2>3 DEF nixieRequestHandled
  <2>4. CASE nixieError
    BY <2>1, <2>4 DEF nixieError
  <2> QED
    BY <2>2, <2>3, <2>4
<1>3. ASSUME NEW event \in Https!Event, FetchCallback(event)
      PROVE  NixieTypes' /\ CommandTypes'
  BY <1>3, Unchanged DEF OwnTypes, CommandTypes, FetchCallback
<1>4. CASE UNCHANGED <<nixie_vars, command_vars>>
  BY <1>1, <1>4, Unchanged DEF OwnTypes
<1> QED
  BY <1>1, <1>2, <1>3, <1>4 DEF OwnTypes, HttpsTasks

LEMMA NixieTasksTypes == OwnTypes /\ NixieTasks => OwnTypes'
<1> SUFFICES ASSUME OwnTypes, NixieTasks PROVE OwnTypes'
  OBVIOUS
<1>1. phase' \in Phase
  BY DEF NixieTasks, Phase
<1>2. ShiftTypes' /\ NixieTypes'
  <2> USE DEF OwnTypes, NixieTypes, NixieState, periodic_vars, fetch_vars
  <2>1. CASE performPeriodicTasks
    BY <2>1, Intervals, Unchanged DEF performPeriodicTasks
  <2>2. CASE handleError
    BY <2>2, Intervals, Unchanged DEF handleError
  <2>3. CASE PassOn
    BY <2>3, Unchanged DEF PassOn
  <2>4. CASE waitHttpsClientAndSendRequest
    BY <2>4, Unchanged DEF waitHttpsClientAndSendRequest
  <2>5. CASE shuffleServerValueDigits
    BY <2>5, Unchanged DEF shuffleServerValueDigits
  <2>6. CASE encodeShiftRegister
    BY <2>6, Unchanged DEF encodeShiftRegister
  <2>7. CASE writeShiftRegister
    BY <2>7 DEF writeShiftRegister, SendData, ShiftTypes
  <2>8. CASE NixieWaits
    BY <2>8, Unchanged DEF NixieWaits
  <2> QED
    BY <2>1, <2>2, <2>3, <2>4, <2>5, <2>6, <2>7, <2>8 DEF NixieTasks
<1>3. CommandTypes'
  <2>1. \/ UNCHANGED nixie_private
        \/ nixie_private' = [kind |-> "fetch", is_fetched |-> TRUE,
                             value |-> display_value]
    BY DEF NixieTasks, performPeriodicTasks, handleError, PassOn,
       waitHttpsClientAndSendRequest, shuffleServerValueDigits,
       encodeShiftRegister, writeShiftRegister, NixieWaits
  <2>2. nixie_private' \in NixiePrivate
    BY <2>1, Storage DEF OwnTypes, NixieTypes, CommandTypes
  <2> QED
    BY <2>2 DEF NixieTasks, OwnTypes, CommandTypes
<1> QED
  BY <1>1, <1>2, <1>3 DEF OwnTypes

LEMMA CommandTasksTypes == OwnTypes /\ CommandTasks => OwnTypes'
<1> SUFFICES ASSUME OwnTypes, CommandTasks PROVE OwnTypes'
  OBVIOUS
<1>1. phase' \in Phase
  BY DEF CommandTasks, Phase
<1>2. CASE Invoke
  <2> USE <1>2 DEF Invoke, Running, OwnTypes
  <2>1. CASE performNixieDisplay
    <3>1. display_value' \in Value
      BY <2>1, StoredValue, Values DEF performNixieDisplay, CommandTypes
    <3> QED
      BY <1>1, <2>1, <3>1, Unchanged
         DEF performNixieDisplay, NixieTypes, CommandTypes, NixieState,
             periodic_vars
  <2>2. CASE performNixieFetch
    <3>1. nixie_private' \in NixiePrivate
      BY <2>2, StoredValue, Storage DEF performNixieFetch, APP_Nixie_Fetch,
         CommandTypes
    <3> QED
      BY <1>1, <2>2, <3>1, Unchanged
         DEF performNixieFetch, APP_Nixie_Fetch, NixieTypes, CommandTypes,
             NixieState, periodic_vars
  <2>3. CASE performFetch
    BY <1>1, <2>3, Unchanged DEF performFetch, CommandTypes
  <2>4. CASE performShiftRegisterSendData
    BY <1>1, <2>4, Unchanged
       DEF performShiftRegisterSendData, SendData, ShiftTypes, CommandTypes
  <2>5. CASE performShiftRegisterSetEnabled
    BY <1>1, <2>5, Unchanged
       DEF performShiftRegisterSetEnabled, SetEnabled, ShiftTypes, CommandTypes
  <2> QED
    BY <2>1, <2>2, <2>3, <2>4, <2>5
<1>3. CASE Update
  BY <1>1, <1>3, Unchanged DEF Update, Finished, OwnTypes, CommandTypes
<1>4. CASE CommandWaits
  BY <1>1, <1>4, Unchanged DEF CommandWaits, OwnTypes
<1> QED
  BY <1>2, <1>3, <1>4 DEF CommandTasks

LEMMA ConsoleTypes == OwnTypes /\ Console => OwnTypes'
<1> SUFFICES ASSUME OwnTypes, Console PROVE OwnTypes'
  OBVIOUS
<1>1. phase' \in Phase /\ ShiftTypes'
  BY Unchanged DEF OwnTypes, Console
<1>2. CASE appCmdNixieDisplay
  <2>1. nixie_private' \in NixiePrivate
    BY <1>2, Storage, Values DEF appCmdNixieDisplay
  <2> QED
    BY <1>1, <1>2, <2>1, Unchanged
       DEF appCmdNixieDisplay, APP_Command_Task_Schedule, OwnTypes,
           CommandTypes, Command
<1>3. CASE commandShiftRegisterSendData
  BY <1>1, <1>3, Values, Unchanged
     DEF commandShiftRegisterSendData, APP_Command_Task_Schedule, OwnTypes,
         CommandTypes, Command
<1>4. ASSUME NEW command \in Command, ScheduleOnly(command) PROVE OwnTypes'
  BY <1>1, <1>4, Unchanged
     DEF ScheduleOnly, APP_Command_Task_Schedule, OwnTypes, CommandTypes
<1>5. ASSUME NEW is_enabled \in BOOLEAN, appCmdNixiePeriodic(is_enabled)
      PROVE  OwnTypes'
  BY <1>1, <1>5, Unchanged
     DEF appCmdNixiePeriodic, OwnTypes, NixieTypes, fetch_vars
<1> QED
  BY <1>2, <1>3, <1>4, <1>5
     DEF Console, Command, APP_Command_Nixie, APP_Command_Fetch,
     APP_Command_ShiftRegister, appCmdNixieFetch, appCmdFetch,
     commandShiftRegisterSetEnabledOrDisabled

LEMMA OwnTypesStep == OwnTypes /\ [Next]_vars => OwnTypes'
<1> SUFFICES ASSUME OwnTypes, [Next]_vars PROVE OwnTypes'
  OBVIOUS
<1>1. CASE NextPass \/ Outside(Https!Network) \/ UNCHANGED vars
  BY <1>1, Unchanged DEF NextPass, Outside, vars, OwnTypes, Phase
<1>2. CASE ShiftRegisterTasks
  <2>1. ShiftTypes'
    BY <1>2, Unchanged DEF ShiftRegisterTasks, Latch!Blank, Latch!Latch,
       Latch!Complete, OwnTypes, ShiftTypes
  <2> QED
    BY <1>2, <2>1, Unchanged DEF ShiftRegisterTasks, OwnTypes, Phase
<1>3. CASE Tick
  <2>1. periodic_due' \in 0..Normal
    BY <1>3, Intervals DEF Tick, OwnTypes, NixieTypes
  <2> QED
    BY <1>3, <2>1, Unchanged DEF Tick, OwnTypes, NixieTypes, fetch_vars
<1> QED
  BY <1>1, <1>2, <1>3, HttpsTasksTypes, NixieTasksTypes, CommandTasksTypes,
     ConsoleTypes DEF Next, APP_Tasks
-----------------------------------------------------------------------------
LEMMA WaitingInit == Init => Waiting
BY NixieTrackerAssumption
   DEF Init, Https!Init, Waiting, OwnerWaits, WaitersAreOwed,
       FetchCommandWaits, RefreshIsMarked, Fetching

(* Who the client owes an outcome, seen from the tracker.                  *)
LEMMA ClientOwes ==
  ASSUME Client!IInv
  PROVE  /\ https_state \in {"WAIT_FOR_RESPONSE", "ERROR"} =>
              awaiting # Nobody /\ awaiting = callbacks
         /\ "encrypt" \notin faults /\ https_state = "IDLE" =>
              awaiting = Nobody
BY DEF Client!IInv, Client!Others, Client!Owed, Client!Pending, Client!State

LEMMA WaitingHttps == TypeOK /\ Client!IInv /\ Waiting /\ HttpsTasks => Waiting'
<1> SUFFICES ASSUME TypeOK, Client!IInv, Waiting, HttpsTasks PROVE Waiting'
  OBVIOUS
<1> USE DEF Waiting, OwnerWaits, WaitersAreOwed, FetchCommandWaits,
            RefreshIsMarked, Fetching
<1>1. CASE https_vars' = https_vars /\ UNCHANGED <<nixie_vars, command_vars>>
  BY <1>1 DEF https_vars, nixie_vars, periodic_vars, fetch_vars, command_vars
<1>2. CASE Https!SilentTasks /\ UNCHANGED <<nixie_vars, command_vars>>
  <2>1. UNCHANGED <<awaiting, faults>>
    BY <1>2 DEF Https!SilentTasks, Https!beginSequence,
       Https!waitForNetworkAvailable, Https!pasreRequestURL,
       Https!processRequest, Https!checkDNSResolveStatus,
       Https!startNetworkConnection, Https!waitNetworkConnection,
       Https!closeNetworkConnection, Https!waitForSSLConnect,
       Https!sendRequest, Https!Goto, Https!SocketClose, Https!net_vars,
       Https!fixed
  <2> QED
    BY <1>2, <2>1 DEF nixie_vars, periodic_vars, fetch_vars, command_vars
<1>3. ASSUME NEW event \in Https!Event \ {"none"},
             Https!APP_HTTPS_Client_Tasks(event),
             \/ callbacks = "nixie" /\ NixieCallback(event)
             \/ callbacks = "fetch" /\ FetchCallback(event)
      PROVE  Waiting'
  <2>1. awaiting = callbacks /\ awaiting # Nobody
    BY <1>3, ClientOwes
       DEF Https!APP_HTTPS_Client_Tasks, Https!responseBuffer,
           Https!responseOver, Https!handleError
  <2>2. /\ UNCHANGED faults
        /\ \/ event = "buffer_received" /\ UNCHANGED awaiting
           \/ event \in {"request_handled", "error"} /\ awaiting' = Nobody
    BY <1>3 DEF Https!APP_HTTPS_Client_Tasks, Https!responseBuffer,
           Https!responseOver, Https!handleError, Https!client_vars,
           Https!net_vars, Https!fixed
  <2>3. CASE callbacks = "nixie" /\ NixieCallback(event)
    <3>1. nixie_state = "WAIT_HTTPS_RESPONSE"
      BY <2>1, <2>3
    <3>2. ~(FetchCommandWaits /\ "encrypt" \notin faults)
      BY <2>1, <2>3
    <3> QED
      BY <2>1, <2>2, <2>3, <3>1, <3>2, NixieTrackerAssumption
         DEF NixieCallback, nixieBufferReceived, nixieRequestHandled,
             nixieError, periodic_vars, command_vars
  <2>4. CASE callbacks = "fetch" /\ FetchCallback(event)
    BY <2>1, <2>2, <2>4, NixieTrackerAssumption
       DEF FetchCallback, nixie_vars, periodic_vars, fetch_vars
  <2> QED
    BY <1>3, <2>3, <2>4
<1> QED
  BY <1>1, <1>2, <1>3 DEF HttpsTasks

LEMMA WaitingNixie == TypeOK /\ Client!IInv /\ Waiting /\ NixieTasks => Waiting'
<1> SUFFICES ASSUME TypeOK, Client!IInv, Waiting, NixieTasks PROVE Waiting'
  OBVIOUS
<1> USE DEF Waiting, OwnerWaits, WaitersAreOwed, FetchCommandWaits,
            RefreshIsMarked, Fetching, https_vars, fetch_vars, periodic_vars
<1>0. UNCHANGED <<task_state, task_callback, request_active>>
  BY DEF NixieTasks
<1>1. CASE performPeriodicTasks
  BY <1>0, <1>1 DEF performPeriodicTasks
<1>2. CASE handleError
  BY <1>0, <1>2 DEF handleError
<1>3. CASE PassOn
  BY <1>0, <1>3 DEF PassOn
<1>4. CASE waitHttpsClientAndSendRequest
  <2>1. "encrypt" \notin faults => awaiting = Nobody
    BY <1>4, ClientOwes
       DEF waitHttpsClientAndSendRequest, Https!APP_HTTPS_Client_Request,
           Https!APP_HTTPS_Client_IsBusy
  <2>2. awaiting' = "nixie" /\ UNCHANGED faults
    BY <1>4 DEF waitHttpsClientAndSendRequest, Https!APP_HTTPS_Client_Request,
       Https!net_vars, Https!fixed
  <2> QED
    BY <1>0, <1>4, <2>1, <2>2, NixieTrackerAssumption
       DEF waitHttpsClientAndSendRequest
<1>5. CASE shuffleServerValueDigits
  BY <1>0, <1>5 DEF shuffleServerValueDigits
<1>6. CASE encodeShiftRegister
  BY <1>0, <1>6 DEF encodeShiftRegister
<1>7. CASE writeShiftRegister
  BY <1>0, <1>7 DEF writeShiftRegister
<1>8. CASE NixieWaits
  BY <1>0, <1>8 DEF NixieWaits, nixie_vars
<1> QED
  BY <1>1, <1>2, <1>3, <1>4, <1>5, <1>6, <1>7, <1>8 DEF NixieTasks

LEMMA WaitingCommand ==
  TypeOK /\ Client!IInv /\ Waiting /\ CommandTasks => Waiting'
<1> SUFFICES ASSUME TypeOK, Client!IInv, Waiting, CommandTasks PROVE Waiting'
  OBVIOUS
<1> USE DEF Waiting, OwnerWaits, WaitersAreOwed, FetchCommandWaits,
            RefreshIsMarked, Fetching, https_vars, nixie_vars, fetch_vars,
            periodic_vars
<1>1. CASE Invoke
  <2> USE <1>1 DEF Invoke, Running
  <2>1. CASE performNixieDisplay
    BY <2>1 DEF performNixieDisplay, CheckAvailable,
       performNixieCheckAvailable, APP_Nixie_IsBusy
  <2>2. CASE performNixieFetch
    BY <2>2 DEF performNixieFetch, APP_Nixie_Fetch, CheckAvailable,
       performNixieCheckAvailable, APP_Nixie_IsBusy
  <2>3. CASE performFetch
    <3>1. https_state = "IDLE" /\ awaiting' = "fetch" /\ UNCHANGED faults
      BY <2>3 DEF performFetch, Https!APP_HTTPS_Client_Request,
         Https!APP_HTTPS_Client_IsBusy, Https!net_vars, Https!fixed
    <3>2. "encrypt" \notin faults => awaiting = Nobody
      BY <3>1, ClientOwes
    <3> QED
      BY <2>3, <3>1, <3>2, NixieTrackerAssumption DEF performFetch
  <2>4. CASE performShiftRegisterSendData \/ performShiftRegisterSetEnabled
    BY <2>4 DEF performShiftRegisterSendData, performShiftRegisterSetEnabled
  <2> QED
    BY <2>1, <2>2, <2>3, <2>4
<1>2. CASE Update
  BY <1>2 DEF Update, Finished, MustWait
<1>3. CASE CommandWaits
  BY <1>3 DEF CommandWaits, command_vars
<1> QED
  BY <1>1, <1>2, <1>3 DEF CommandTasks

LEMMA WaitingStep == TypeOK /\ Client!IInv /\ Waiting /\ [Next]_vars => Waiting'
<1> SUFFICES ASSUME TypeOK, Client!IInv, Waiting, [Next]_vars PROVE Waiting'
  OBVIOUS
<1> USE DEF Waiting, OwnerWaits, WaitersAreOwed, FetchCommandWaits,
            RefreshIsMarked, Fetching
<1>1. CASE NextPass \/ ShiftRegisterTasks \/ Tick \/ UNCHANGED vars
  BY <1>1 DEF NextPass, ShiftRegisterTasks, Tick, vars, https_vars,
     nixie_vars, fetch_vars, periodic_vars, command_vars
<1>2. CASE Outside(Https!Network)
  <2>1. UNCHANGED <<awaiting, faults>>
    BY <1>2 DEF Outside, Https!Network, Https!DnsAnswers, Https!DnsFails,
       Https!Connects, Https!HandshakeEnds, Https!ServerSends,
       Https!ServerFinishes, Https!ServerGoesAway, Https!client_vars,
       Https!fixed
  <2> QED
    BY <1>2, <2>1 DEF Outside, nixie_vars, fetch_vars, periodic_vars,
       command_vars
<1>3. CASE Console
  BY <1>3 DEF Console, APP_Command_CheckAvailable, APP_Command_Nixie,
     APP_Command_Fetch, APP_Command_ShiftRegister, appCmdNixieFetch, appCmdFetch,
     commandShiftRegisterSetEnabledOrDisabled, appCmdNixieDisplay,
     commandShiftRegisterSendData, ScheduleOnly, appCmdNixiePeriodic,
     APP_Command_Task_Schedule, https_vars, nixie_vars, fetch_vars,
     periodic_vars, command_vars
<1> QED
  BY <1>1, <1>2, <1>3, WaitingHttps, WaitingNixie, WaitingCommand
     DEF Next, APP_Tasks

LEMMA Invariance == Safety => []IInv
<1>1. Init => IInv
  <2>1. Init => Client!IInv
    BY SameInit, ClientAssumption, Client!InitIInv DEF Init
  <2>2. Client!IInv => Https!TypeOK
    BY SameTypes DEF Client!IInv
  <2> QED
    BY <2>1, <2>2, TypesSplit, OwnTypesInit, WaitingInit DEF IInv
<1>2. IInv /\ [Next]_vars => IInv'
  <2>1. (Client!TypeOK => Https!TypeOK)'
    BY SameTypes, PTL
  <2>2. (TypeOK <=> Https!TypeOK /\ OwnTypes)'
    BY TypesSplit, PTL
  <2>3. Client!IInv' => Client!TypeOK'
    BY DEF Client!IInv
  <2> QED
    BY <2>1, <2>2, <2>3, TypesSplit, ClientInvariance, OwnTypesStep,
       WaitingStep
       DEF IInv
<1> QED
  BY <1>1, <1>2, PTL DEF Safety
-----------------------------------------------------------------------------
(* Every variable of the application keeps its type; among them the        *)
(* sockets the client holds, and the countdown to the next refresh.        *)
THEOREM TypeCorrect == Safety => []TypeOK
<1>1. IInv => TypeOK
  BY DEF IInv
<1> QED
  BY <1>1, Invariance, PTL

(* The application uses the client as it was proved correct: it places no  *)
(* request while the client is busy, and changes nothing else of it.       *)
THEOREM ClientImplemented ==
  Safety => Client!Init /\ [][Client!Next]_(Client!vars)
<1>1. Init => Client!Init
  BY SameInit DEF Init
<1> QED
  BY <1>1, ClientSteps, PTL DEF Safety

(* The user the client owes an outcome is there to receive it.             *)
THEOREM OwnersWait == Safety => []OwnerWaits
<1>1. IInv => OwnerWaits
  BY DEF IInv, Waiting
<1> QED
  BY <1>1, Invariance, PTL

(* Unless TLS refuses to start, neither the nixie subsystem nor the fetch  *)
(* command waits for a callback that will never be made.                   *)
THEOREM NobodyWaitsInVain == Safety => []WaitersAreOwed
<1>1. IInv => WaitersAreOwed
  BY DEF IInv, Waiting
<1> QED
  BY <1>1, Invariance, PTL

(* A refresh that failed is tried again after the short interval, however  *)
(* the commands of the user interleave with it.                            *)
THEOREM FailedRefreshSoon == Safety => RetrySoon
<1>1. IInv /\ [Next]_vars =>
        [nixie_state = "ERROR" /\ nixie_state' = "IDLE"
           /\ requested_by = "periodic" => periodic_due' <= Fast]_vars
  <2> SUFFICES ASSUME IInv, Next, nixie_state = "ERROR", nixie_state' = "IDLE",
                      requested_by = "periodic"
               PROVE  periodic_due' <= Fast
    OBVIOUS
  <2>1. task_from_periodic
    BY DEF IInv, Waiting, RefreshIsMarked
  <2>2. ~HttpsTasks
    <3> SUFFICES ASSUME HttpsTasks PROVE FALSE
      OBVIOUS
    <3>1. PICK event \in Https!Event \ {"none"} :
            /\ Https!APP_HTTPS_Client_Tasks(event)
            /\ callbacks = "nixie" /\ NixieCallback(event)
      BY DEF HttpsTasks, nixie_vars, FetchCallback
    <3>2. awaiting = "nixie"
      BY <3>1, ClientOwes
         DEF IInv, Https!APP_HTTPS_Client_Tasks, Https!responseBuffer,
             Https!responseOver, Https!handleError
    <3> QED
      BY <3>2 DEF IInv, Waiting, OwnerWaits
  <2>3. ~CommandTasks
    BY DEF CommandTasks, Invoke, Update, CommandWaits, performNixieDisplay,
       performNixieFetch, APP_Nixie_Fetch, performFetch, performShiftRegisterSendData,
       performShiftRegisterSetEnabled, nixie_vars
  <2>4. CASE NixieTasks
    <3>1. handleError
      BY <2>4 DEF NixieTasks, performPeriodicTasks, PassOn,
         waitHttpsClientAndSendRequest, shuffleServerValueDigits,
         encodeShiftRegister, writeShiftRegister, NixieWaits
    <3> QED
      BY <2>1, <3>1, Intervals DEF handleError
  <2>5. ~(NextPass \/ ShiftRegisterTasks \/ Outside(Https!Network) \/ Console
            \/ Tick)
    BY DEF NextPass, ShiftRegisterTasks, Outside, Console, Tick,
       appCmdNixieDisplay, commandShiftRegisterSendData, ScheduleOnly,
       appCmdNixiePeriodic, APP_Command_Task_Schedule, nixie_vars,
       APP_Command_Nixie, APP_Command_Fetch,
       APP_Command_ShiftRegister, appCmdNixieFetch, appCmdFetch,
       commandShiftRegisterSetEnabledOrDisabled
  <2> QED
    BY <2>2, <2>3, <2>4, <2>5 DEF Next, APP_Tasks
<1> QED
  BY <1>1, Invariance, PTL DEF Safety, RetrySoon

(* Nobody starts a transfer, or switches the outputs, while one is under   *)
(* way: the check each caller makes is never stale.                        *)
THEOREM RegisterProtocol == Safety => ShiftRegisterProtocol
<1>1. IInv /\ [Next]_vars => [Latch!Next]_shift_vars
  <2> SUFFICES ASSUME IInv, [Next]_vars PROVE [Latch!Next]_shift_vars
    OBVIOUS
  <2>0. OwnTypes
    BY TypesSplit DEF IInv
  <2>1. ASSUME NEW data \in Value, ~busy, SendData(data) PROVE Latch!Next
    BY <2>1 DEF SendData, Latch!Next, Latch!Send
  <2>2. ASSUME NEW is_enabled \in BOOLEAN, ~busy, SetEnabled(is_enabled)
        PROVE  Latch!Next
    BY <2>2 DEF SetEnabled, Latch!Next, Latch!SetEnabled
  <2>3. CASE ShiftRegisterTasks
    BY <2>3 DEF ShiftRegisterTasks, Latch!Next
  <2>4. CASE NixieTasks
    <3>1. \/ UNCHANGED shift_vars
          \/ ~busy /\ SendData(register_shift_state)
      BY <2>4 DEF NixieTasks, performPeriodicTasks, handleError, PassOn,
         waitHttpsClientAndSendRequest, shuffleServerValueDigits,
         encodeShiftRegister, writeShiftRegister, NixieWaits
    <3> QED
      BY <2>0, <2>1, <3>1 DEF OwnTypes, NixieTypes
  <2>5. CASE CommandTasks
    <3>1. \/ UNCHANGED shift_vars
          \/ ~busy /\ SendData(send_data)
          \/ ~busy /\ SetEnabled(task_callback = "enable")
      BY <2>5 DEF CommandTasks, Invoke, Update, CommandWaits, CheckAvailable,
         performNixieCheckAvailable, performFetchCheckAvailable,
         performShiftRegisterCheckAvailable,
         performNixieDisplay, performNixieFetch, APP_Nixie_Fetch, performFetch,
         performShiftRegisterSendData, performShiftRegisterSetEnabled
    <3> QED
      BY <2>0, <2>1, <2>2, <3>1 DEF OwnTypes, CommandTypes
  <2>6. CASE NextPass \/ HttpsTasks \/ Outside(Https!Network) \/ Console
               \/ Tick \/ UNCHANGED vars
    BY <2>6 DEF NextPass, HttpsTasks, Outside, Console, Tick, vars
  <2> QED
    BY <2>3, <2>4, <2>5, <2>6 DEF Next, APP_Tasks
<1> QED
  BY <1>1, Invariance, PTL DEF Safety, ShiftRegisterProtocol
-----------------------------------------------------------------------------
(* When nothing goes wrong, the nixie subsystem never sees an error: the   *)
(* URL the client holds for it is the server's, which parses.              *)
NoFailure ==
  faults = {} =>
    /\ nixie_state # "ERROR"
    /\ callbacks = "nixie" => request_url = ServerUrl

(* Then the pointers to the buffer of the fetch command are set exactly    *)
(* while its value is being fetched, and the command is there all along.   *)
PointersAreLive ==
  faults = {} =>
    /\ display_value_out <=>
         nixie_state \in Fetching /\ requested_by = "console"
    /\ display_value_out =>
         task_state = "RUNNING" /\ task_callback = "nixie_fetch"

Untroubled == Client!GoesWell /\ NoFailure /\ PointersAreLive /\ DisplayValueKept

LEMMA UntroubledInit == Init => Untroubled
<1>1. Init => Client!GoesWell
  BY SameInit, ClientAssumption, Client!GoesWellInit DEF Init
<1>2. Init => NoFailure /\ PointersAreLive /\ DisplayValueKept
  BY NixieTrackerAssumption
     DEF Init, Https!Init, NoFailure, PointersAreLive, DisplayValueKept,
         DisplayPending, Fetching
<1> QED
  BY <1>1, <1>2 DEF Untroubled

(* The faults are chosen once and for all.                                 *)
LEMMA FaultsFixed == [Next]_vars => UNCHANGED faults
<1> SUFFICES ASSUME [Next]_vars PROVE UNCHANGED faults
  OBVIOUS
<1>1. [Client!Next]_(Client!vars)
  BY ClientSteps
<1> QED
  BY <1>1 DEF Client!Next, Client!Tasks, Client!Request, Client!Network,
     Client!APP_HTTPS_Client_Tasks, Client!APP_HTTPS_Client_Request,
     Client!SilentTasks, Client!Goto, Client!SocketClose,
     Client!beginSequence, Client!waitForNetworkAvailable,
     Client!pasreRequestURL, Client!processRequest,
     Client!checkDNSResolveStatus, Client!startNetworkConnection,
     Client!waitNetworkConnection, Client!closeNetworkConnection,
     Client!waitForSSLConnect, Client!sendRequest, Client!responseOver,
     Client!responseBuffer, Client!handleError, Client!DnsAnswers,
     Client!DnsFails, Client!Connects, Client!HandshakeEnds,
     Client!ServerSends, Client!ServerFinishes, Client!ServerGoesAway,
     Client!client_vars, Client!net_vars, Client!fixed, Client!vars

LEMMA GoesWellKept ==
  Client!IInv /\ Client!GoesWell /\ [Next]_vars => Client!GoesWell'
BY ClientSteps, ClientAssumption, Client!GoesWellStep

(* The part of it that the tracker's own steps may disturb.                *)
Smooth == NoFailure /\ PointersAreLive /\ DisplayValueKept

LEMMA SmoothHttps ==
  IInv /\ Untroubled /\ faults = {} /\ HttpsTasks => Smooth'
<1> SUFFICES ASSUME IInv, Untroubled, faults = {}, HttpsTasks PROVE Smooth'
  OBVIOUS
<1> USE DEF Untroubled, Smooth, NoFailure, PointersAreLive, DisplayValueKept,
            DisplayPending, Fetching
<1>1. CASE https_vars' = https_vars /\ UNCHANGED <<nixie_vars, command_vars>>
  BY <1>1 DEF https_vars, nixie_vars, periodic_vars, fetch_vars, command_vars
<1>2. CASE Https!SilentTasks /\ UNCHANGED <<nixie_vars, command_vars>>
  <2>1. UNCHANGED <<callbacks, request_url>>
    BY <1>2 DEF Https!SilentTasks, Https!beginSequence,
       Https!waitForNetworkAvailable, Https!pasreRequestURL,
       Https!processRequest, Https!checkDNSResolveStatus,
       Https!startNetworkConnection, Https!waitNetworkConnection,
       Https!closeNetworkConnection, Https!waitForSSLConnect,
       Https!sendRequest, Https!Goto
  <2> QED
    BY <1>2, <2>1 DEF nixie_vars, periodic_vars, fetch_vars, command_vars
<1>3. ASSUME NEW event \in Https!Event \ {"none"},
             Https!APP_HTTPS_Client_Tasks(event),
             \/ callbacks = "nixie" /\ NixieCallback(event)
             \/ callbacks = "fetch" /\ FetchCallback(event)
      PROVE  Smooth'
  <2>1. /\ awaiting = callbacks
        /\ UNCHANGED <<callbacks, request_url>>
        /\ event = "error" => https_state = "ERROR"
    BY <1>3, ClientOwes
       DEF IInv, Https!APP_HTTPS_Client_Tasks, Https!responseBuffer,
           Https!responseOver, Https!handleError, Https!client_vars
  <2>2. CASE callbacks = "nixie" /\ NixieCallback(event)
    <3>1. nixie_state = "WAIT_HTTPS_RESPONSE"
      BY <2>1, <2>2 DEF IInv, Waiting, OwnerWaits
    <3>2. event # "error"
      BY <2>1, <2>2, ServerUrlAssumption DEF Client!GoesWell
    <3> QED
      BY <2>1, <2>2, <3>1, <3>2
         DEF NixieCallback, nixieBufferReceived, nixieRequestHandled,
             periodic_vars, command_vars
  <2>3. CASE callbacks = "fetch" /\ FetchCallback(event)
    BY <2>1, <2>3 DEF FetchCallback, nixie_vars, periodic_vars, fetch_vars
  <2> QED
    BY <1>3, <2>2, <2>3
<1> QED
  BY <1>1, <1>2, <1>3 DEF HttpsTasks

LEMMA SmoothNixie ==
  IInv /\ Untroubled /\ faults = {} /\ NixieTasks => Smooth'
<1> SUFFICES ASSUME IInv, Untroubled, faults = {}, NixieTasks PROVE Smooth'
  OBVIOUS
<1> USE DEF Untroubled, Smooth, NoFailure, PointersAreLive, DisplayValueKept,
            DisplayPending, Fetching, https_vars, fetch_vars, periodic_vars
<1>0. UNCHANGED <<task_state, task_callback, request_active>>
  BY DEF NixieTasks
<1>1. CASE performPeriodicTasks
  BY <1>0, <1>1 DEF performPeriodicTasks
<1>2. CASE handleError \/ PassOn
  BY <1>0, <1>2 DEF handleError, PassOn
<1>3. CASE waitHttpsClientAndSendRequest
  <2>1. request_url' = ServerUrl
    BY <1>3 DEF waitHttpsClientAndSendRequest, Https!APP_HTTPS_Client_Request
  <2> QED
    BY <1>0, <1>3, <2>1 DEF waitHttpsClientAndSendRequest
<1>4. CASE shuffleServerValueDigits
  BY <1>0, <1>4 DEF shuffleServerValueDigits
<1>5. CASE encodeShiftRegister \/ writeShiftRegister \/ NixieWaits
  BY <1>0, <1>5 DEF encodeShiftRegister, writeShiftRegister, NixieWaits,
     nixie_vars
<1> QED
  BY <1>1, <1>2, <1>3, <1>4, <1>5 DEF NixieTasks

LEMMA SmoothCommand ==
  IInv /\ Untroubled /\ faults = {} /\ CommandTasks => Smooth'
<1> SUFFICES ASSUME IInv, Untroubled, faults = {}, CommandTasks PROVE Smooth'
  OBVIOUS
<1> USE DEF Untroubled, Smooth, NoFailure, PointersAreLive, DisplayValueKept,
            DisplayPending, Fetching, https_vars, nixie_vars, fetch_vars,
            periodic_vars
<1>1. CASE Invoke
  <2> USE <1>1 DEF Invoke, Running
  <2>1. CASE performNixieDisplay
    BY <2>1 DEF performNixieDisplay, CheckAvailable,
       performNixieCheckAvailable, APP_Nixie_IsBusy
  <2>2. CASE performNixieFetch
    BY <2>2 DEF performNixieFetch, APP_Nixie_Fetch
  <2>3. CASE performFetch
    <3>1. callbacks' = "fetch"
      BY <2>3 DEF performFetch, Https!APP_HTTPS_Client_Request
    <3> QED
      BY <2>3, <3>1 DEF performFetch
  <2>4. CASE performShiftRegisterSendData \/ performShiftRegisterSetEnabled
    BY <2>4 DEF performShiftRegisterSendData, performShiftRegisterSetEnabled
  <2> QED
    BY <2>1, <2>2, <2>3, <2>4
<1>2. CASE Update
  BY <1>2 DEF Update, Finished, MustWait, APP_Nixie_IsBusy
<1>3. CASE CommandWaits
  BY <1>3 DEF CommandWaits, command_vars
<1> QED
  BY <1>1, <1>2, <1>3 DEF CommandTasks

LEMMA SmoothConsole ==
  IInv /\ Untroubled /\ faults = {} /\ Console => Smooth'
<1> SUFFICES ASSUME IInv, Untroubled, faults = {}, Console PROVE Smooth'
  OBVIOUS
<1> USE DEF Untroubled, Smooth, NoFailure, PointersAreLive, DisplayValueKept,
            DisplayPending, Fetching, https_vars, nixie_vars, fetch_vars,
            periodic_vars
<1>0. task_state = "NONE" /\ UNCHANGED https_vars
  BY DEF Console, APP_Command_Nixie, APP_Command_Fetch,
     APP_Command_ShiftRegister, APP_Command_CheckAvailable
<1>1. CASE appCmdNixieDisplay
  BY <1>0, <1>1 DEF appCmdNixieDisplay, APP_Command_Task_Schedule
<1>2. CASE commandShiftRegisterSendData
  BY <1>0, <1>2 DEF commandShiftRegisterSendData, APP_Command_Task_Schedule
<1>3. ASSUME NEW command \in Command \ {"display"}, ScheduleOnly(command)
      PROVE  Smooth'
  BY <1>0, <1>3 DEF ScheduleOnly, APP_Command_Task_Schedule
<1>4. ASSUME NEW is_enabled \in BOOLEAN, appCmdNixiePeriodic(is_enabled)
      PROVE  Smooth'
  BY <1>0, <1>4 DEF appCmdNixiePeriodic, command_vars
<1> QED
  BY <1>1, <1>2, <1>3, <1>4
     DEF Console, Command, APP_Command_Nixie, APP_Command_Fetch,
     APP_Command_ShiftRegister, appCmdNixieFetch, appCmdFetch,
     commandShiftRegisterSetEnabledOrDisabled

LEMMA UntroubledStep == IInv /\ Untroubled /\ [Next]_vars => Untroubled'
<1> SUFFICES ASSUME IInv, Untroubled, [Next]_vars PROVE Untroubled'
  OBVIOUS
<1>1. Client!GoesWell'
  BY GoesWellKept DEF IInv, Untroubled
<1>2. CASE faults # {}
  <2>1. faults' # {}
    BY <1>2, FaultsFixed
  <2> QED
    BY <1>1, <2>1 DEF Untroubled, NoFailure, PointersAreLive, DisplayValueKept
<1>3. ASSUME faults = {} PROVE Smooth'
  <2>1. CASE NextPass \/ ShiftRegisterTasks \/ Tick \/ UNCHANGED vars
    BY <2>1 DEF NextPass, ShiftRegisterTasks, Tick, vars, https_vars,
       nixie_vars, fetch_vars, periodic_vars, command_vars, Untroubled, Smooth,
       NoFailure, PointersAreLive, DisplayValueKept, DisplayPending, Fetching
  <2>2. CASE Outside(Https!Network)
    <3>1. UNCHANGED <<callbacks, request_url, faults>>
      BY <2>2 DEF Outside, Https!Network, Https!DnsAnswers, Https!DnsFails,
         Https!Connects, Https!HandshakeEnds, Https!ServerSends,
         Https!ServerFinishes, Https!ServerGoesAway, Https!client_vars,
         Https!fixed
    <3> QED
      BY <2>2, <3>1 DEF Outside, nixie_vars, fetch_vars, command_vars,
         Untroubled, Smooth, NoFailure, PointersAreLive, DisplayValueKept,
         DisplayPending, Fetching
  <2> QED
    BY <1>3, <2>1, <2>2, SmoothHttps, SmoothNixie, SmoothCommand,
       SmoothConsole DEF Next, APP_Tasks
<1> QED
  BY <1>1, <1>2, <1>3 DEF Untroubled, Smooth

LEMMA UntroubledInvariance == Safety => []Untroubled
BY Invariance, UntroubledInit, UntroubledStep, PTL DEF Safety

(* While no request fails, a fetched value goes to who asked for it: the   *)
(* pointers of an earlier fetch never catch the value of a refresh.        *)
THEOREM FetchedForRequester == Safety => []FetchGoesToRequester
<1>1. Untroubled => FetchGoesToRequester
  BY DEF Untroubled, PointersAreLive, FetchGoesToRequester
<1> QED
  BY <1>1, UntroubledInvariance, PTL

(* While no request fails, no late result of a fetch overwrites the value  *)
(* a display command is still waiting to show: both live in one union.     *)
THEOREM DisplayedAsGiven == Safety => []DisplayValueKept
<1>1. Untroubled => DisplayValueKept
  BY DEF Untroubled
<1> QED
  BY <1>1, UntroubledInvariance, PTL
=============================================================================
