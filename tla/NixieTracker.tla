---------------------------- MODULE NixieTracker ----------------------------
(***************************************************************************)
(* The application: the nixie subsystem (app_nixie.c), the command task    *)
(* scheduler (app_command_task.c) with the commands that drive the display,*)
(* and their use of the HTTPS client (HttpsClient) and of the shift        *)
(* register (DisplayLatch, which ShiftRegister implements).                *)
(* Addresses, pages and register contents are values without structure.    *)
(*                                                                         *)
(* Everything runs in one loop (main.c, app.c) that polls each component   *)
(* once per pass; phase says whose turn it is.  Between two passes, in     *)
(* phase "sys", the stack, the server, the clock and the console act.      *)
(***************************************************************************)
EXTENDS Integers

CONSTANTS
  Nobody, Url, IpModeConfig, Regimes, MaxSockets, MaxRx, \* see HttpsClient
  ServerUrl,     \* the URL the tubes follow (AppNixieData::request_url)
  ServerValue,   \* values the page may hold
  UserValue,     \* values given to "nixie display" and "shift_register send"
  Zeros,         \* what Initialize sends: no cathode at all
  Garbled,       \* display value read from memory that holds something else
  Usable,        \* answers of APP_Network_hasUsableInterface
  Commands,      \* commands typed at the console
  Fast, Normal   \* PERIODIC_INTERVAL_FAST and _NORMAL, in ticks of the clock

Value == ServerValue \cup UserValue \cup {Zeros, Garbled}
Command == {"display", "nixie_fetch", "fetch", "send", "enable", "disable",
            "periodic_enable", "periodic_disable"}

VARIABLES
  phase,
  \* the HTTPS client, the stack and the server
  https_state, callbacks, request_url, dns_query_ip_mode, ip_mode, awaiting,
  dns, sock, sockets, was_reset, rx, served, faults, ip_mode_config,
  \* the shift register
  busy, job, shown, lit,
  \* AppNixieData
  nixie_state,
  periodic_tasks_enabled,
  periodic_due,          \* ticks left until periodic_next_time
  task_from_periodic,
  is_value_parsed,
  display_value,
  register_shift_state,
  display_value_out,     \* whether display_value_out and is_fetched_out are set
  requested_by,          \* history: who asked for the value being fetched
  \* AppCommandData
  task_state,            \* AppCommandTaskData::state
  task_callback,         \* the command it holds, with its cmd_io
  nixie_private,         \* the union AppCommandNixieData::_private
  send_data,             \* AppCommandShiftRegisterData
  request_active         \* AppCommandFetchData::request_active

Https == INSTANCE HttpsClient
           WITH state <- https_state, Client <- {"nixie", "fetch"}

ASSUME NixieTrackerAssumption ==
  /\ Nobody \notin {"nixie", "fetch"}
  /\ Url \subseteq Https!UrlKind /\ ServerUrl \in Url
  /\ IpModeConfig \subseteq Https!Family
  /\ Regimes \subseteq SUBSET Https!Fault
  /\ MaxSockets \in Nat \ {0} /\ MaxRx \in Nat \ {0}
  /\ Usable \subseteq BOOLEAN
  /\ Commands \subseteq Command
  /\ Fast \in Nat /\ Normal \in Nat /\ Fast < Normal

(* The code names the server by a literal that util_url accepts.           *)
ASSUME ServerUrlAssumption == ServerUrl.valid

Shows(data, image) == data = image
Latch == INSTANCE DisplayLatch WITH Job <- Value, Image <- Value

https_vars == <<https_state, callbacks, request_url, dns_query_ip_mode,
                ip_mode, awaiting, dns, sock, sockets, was_reset, rx, served,
                faults, ip_mode_config>>
shift_vars == <<busy, job, shown, lit>>
fetch_vars == <<is_value_parsed, display_value, display_value_out,
                requested_by>>
periodic_vars == <<periodic_tasks_enabled, periodic_due, task_from_periodic>>
nixie_vars == <<nixie_state, periodic_vars, fetch_vars, register_shift_state>>
command_vars == <<task_state, task_callback, nixie_private, send_data,
                  request_active>>
vars == <<phase, https_vars, shift_vars, nixie_vars, command_vars>>

(* In the code's order; the components before "https" in APP_Tasks_Real    *)
(* share nothing with the ones modelled here.                              *)
Phase == {"sys", "https", "shift", "nixie", "command"}

NixieState == {"IDLE", "ERROR", "BEGIN_HTTP_REQUEST", "WAIT_HTTPS_CLIENT",
  "WAIT_HTTPS_RESPONSE", "SHUFFLE_SERVER_VALUE", "BEGIN_DISPLAY_SEQUENCE",
  "DECODE_DISPLAY_VALUE", "ENCODE_SHIFT_REGISTER", "WRITE_SHIFT_REGISTER"}

(* The memory of the union: the value of a display command, or the result  *)
(* of a fetch.                                                             *)
NixiePrivate ==
  [kind : {"display", "fetch"}, is_fetched : BOOLEAN, value : Value]

TypeOK ==
  /\ phase \in Phase
  /\ Https!TypeOK
  /\ busy \in BOOLEAN /\ job \in Value /\ shown \in Value /\ lit \in BOOLEAN
  /\ nixie_state \in NixieState
  /\ periodic_tasks_enabled \in BOOLEAN
  /\ periodic_due \in 0..Normal
  /\ task_from_periodic \in BOOLEAN
  /\ is_value_parsed \in BOOLEAN
  /\ display_value \in Value /\ register_shift_state \in Value
  /\ display_value_out \in BOOLEAN
  /\ requested_by \in {"periodic", "console"}
  /\ task_state \in {"NONE", "WAIT_AVAILABLE", "RUNNING"}
  /\ task_callback \in Command \cup {"NULL"}
  /\ nixie_private \in NixiePrivate
  /\ send_data \in Value
  /\ request_active \in BOOLEAN

(* APP_Initialize_Real: it ends with the first transfer under way.         *)
Init ==
  /\ phase = "sys"
  /\ Https!Init
  /\ busy = TRUE /\ job = Zeros /\ shown \in Value /\ lit = TRUE
  /\ nixie_state = "IDLE"
  /\ periodic_tasks_enabled = TRUE /\ periodic_due = 0
  /\ task_from_periodic = FALSE
  /\ is_value_parsed = FALSE
  /\ display_value = Garbled
  /\ register_shift_state = Zeros
  /\ display_value_out = FALSE /\ requested_by = "periodic"
  /\ task_state = "NONE" /\ task_callback = "NULL"
  /\ nixie_private = [kind |-> "display", is_fetched |-> FALSE,
                      value |-> Garbled]
  /\ send_data = Zeros
  /\ request_active = FALSE
-----------------------------------------------------------------------------
(* APP_ShiftRegister_SendData and _SetEnabled as they are: unguarded.      *)
SendData(data) ==
  busy' = TRUE /\ job' = data /\ UNCHANGED <<shown, lit>>

SetEnabled(is_enabled) ==
  lit' = is_enabled /\ UNCHANGED <<busy, job, shown>>

(* APP_ShiftRegister_Tasks: a transfer takes many calls.                   *)
ShiftRegisterTasks ==
  /\ phase = "shift" /\ phase' = "nixie"
  /\ Latch!Blank \/ Latch!Latch \/ Latch!Complete \/ UNCHANGED shift_vars
  /\ UNCHANGED <<https_vars, nixie_vars, command_vars>>
-----------------------------------------------------------------------------
(* The callbacks of the two users of the HTTPS client.                     *)

(* bufferReceivedCallback: parses the value if the buffer completes it.    *)
nixieBufferReceived ==
  /\ \/ /\ ~is_value_parsed
        /\ is_value_parsed' = TRUE
        /\ display_value' \in ServerValue
     \/ UNCHANGED <<is_value_parsed, display_value>>
  /\ UNCHANGED nixie_state

(* requestHandledCallback: the value may end with the page.                *)
nixieRequestHandled ==
  \/ /\ is_value_parsed
     /\ nixie_state' = "SHUFFLE_SERVER_VALUE"
     /\ UNCHANGED <<is_value_parsed, display_value>>
  \/ /\ ~is_value_parsed
     /\ is_value_parsed' = TRUE
     /\ display_value' \in ServerValue
     /\ nixie_state' = "SHUFFLE_SERVER_VALUE"
  \/ /\ ~is_value_parsed /\ "miss" \in faults
     /\ nixie_state' = "IDLE"
     /\ UNCHANGED <<is_value_parsed, display_value>>

nixieError ==
  nixie_state' = "ERROR" /\ UNCHANGED <<is_value_parsed, display_value>>

NixieCallback(event) ==
  /\ \/ event = "buffer_received" /\ nixieBufferReceived
     \/ event = "request_handled" /\ nixieRequestHandled
     \/ event = "error" /\ nixieError
  /\ UNCHANGED <<periodic_vars, register_shift_state, display_value_out,
                 requested_by, command_vars>>

(* Mutant: only an error ends the command.                                 *)
FetchCallback_OnlyErrors(event) ==
  /\ request_active' = (request_active /\ event # "error")
  /\ UNCHANGED <<nixie_vars, task_state, task_callback, nixie_private,
                 send_data>>

(* app_command_fetch.c: buffers are printed, the rest ends the command.    *)
FetchCallback(event) ==
  /\ request_active' = (request_active /\ event = "buffer_received")
  /\ UNCHANGED <<nixie_vars, task_state, task_callback, nixie_private,
                 send_data>>

HttpsTasks ==
  /\ phase = "https" /\ phase' = "shift"
  /\ \/ /\ Https!NothingToDo
        /\ UNCHANGED <<https_vars, nixie_vars, command_vars>>
     \/ /\ Https!SilentTasks
        /\ UNCHANGED <<nixie_vars, command_vars>>
     \/ \E event \in Https!Event \ {"none"} :
          /\ Https!APP_HTTPS_Client_Tasks(event)
          /\ \/ callbacks = "nixie" /\ NixieCallback(event)
             \/ callbacks = "fetch" /\ FetchCallback(event)
  /\ UNCHANGED shift_vars
-----------------------------------------------------------------------------
(* The nixie subsystem, one operator per state of APP_Nixie_Tasks.         *)

APP_Nixie_IsBusy == nixie_state # "IDLE"

(* Mutant: the flag is cleared after the periodic tasks, not before.       *)
performPeriodicTasks_FlagCleared ==
  /\ nixie_state = "IDLE"
  /\ periodic_tasks_enabled /\ periodic_due = 0
  /\ nixie_state' = "BEGIN_HTTP_REQUEST"
  /\ task_from_periodic' = FALSE
  /\ periodic_due' = Normal
  /\ requested_by' = "periodic"
  /\ UNCHANGED <<https_vars, shift_vars, periodic_tasks_enabled,
                 is_value_parsed, display_value, display_value_out,
                 register_shift_state, nixie_private>>

performPeriodicTasks ==
  /\ nixie_state = "IDLE"
  /\ \/ /\ periodic_tasks_enabled /\ periodic_due = 0 /\ TRUE \in Usable
        /\ nixie_state' = "BEGIN_HTTP_REQUEST"
        /\ task_from_periodic' = TRUE
        /\ periodic_due' = Normal
        /\ requested_by' = "periodic"
     \/ /\ ~periodic_tasks_enabled \/ periodic_due > 0 \/ FALSE \in Usable
        /\ task_from_periodic' = FALSE
        /\ UNCHANGED <<nixie_state, periodic_due, requested_by>>
  /\ UNCHANGED <<https_vars, shift_vars, periodic_tasks_enabled,
                 is_value_parsed, display_value, display_value_out,
                 register_shift_state, nixie_private>>

(* Mutant: the error is never left.                                         *)
handleError_Terminal ==
  /\ nixie_state = "ERROR"
  /\ UNCHANGED <<https_vars, shift_vars, nixie_vars, nixie_private>>

handleError ==
  /\ nixie_state = "ERROR"
  /\ nixie_state' = "IDLE"
  /\ periodic_due' = IF task_from_periodic THEN Fast ELSE periodic_due
  /\ UNCHANGED <<https_vars, shift_vars, periodic_tasks_enabled,
                 task_from_periodic, fetch_vars, register_shift_state,
                 nixie_private>>

(* States that only pass the turn on.  The cathodes DECODE_DISPLAY_VALUE   *)
(* computes are a function of display_value, and left to the next state.   *)
PassOn ==
  /\ \/ nixie_state = "BEGIN_HTTP_REQUEST" /\ nixie_state' = "WAIT_HTTPS_CLIENT"
     \/ /\ nixie_state = "BEGIN_DISPLAY_SEQUENCE"
        /\ nixie_state' = "DECODE_DISPLAY_VALUE"
     \/ /\ nixie_state = "DECODE_DISPLAY_VALUE"
        /\ nixie_state' = "ENCODE_SHIFT_REGISTER"
  /\ UNCHANGED <<https_vars, shift_vars, periodic_vars, fetch_vars,
                 register_shift_state, nixie_private>>

waitHttpsClientAndSendRequest ==
  /\ nixie_state = "WAIT_HTTPS_CLIENT"
  /\ Https!APP_HTTPS_Client_Request("nixie", ServerUrl)
  /\ is_value_parsed' = FALSE
  /\ nixie_state' = "WAIT_HTTPS_RESPONSE"
  /\ UNCHANGED <<shift_vars, periodic_vars, display_value, display_value_out,
                 requested_by, register_shift_state, nixie_private>>

(* Mutant: the pointers are kept.                                          *)
shuffleServerValueDigits_KeepsPointers ==
  /\ nixie_state = "SHUFFLE_SERVER_VALUE"
  /\ IF display_value_out
       THEN /\ nixie_private' = [kind |-> "fetch", is_fetched |-> TRUE,
                                 value |-> display_value]
            /\ nixie_state' = "IDLE"
       ELSE /\ nixie_state' = "BEGIN_DISPLAY_SEQUENCE"
            /\ UNCHANGED nixie_private
  /\ UNCHANGED <<https_vars, shift_vars, periodic_vars, fetch_vars,
                 register_shift_state>>

(* To the buffer of the fetch command, or on to the tubes.                 *)
shuffleServerValueDigits ==
  /\ nixie_state = "SHUFFLE_SERVER_VALUE"
  /\ IF display_value_out
       THEN /\ nixie_private' = [kind |-> "fetch", is_fetched |-> TRUE,
                                 value |-> display_value]
            /\ nixie_state' = "IDLE"
       ELSE /\ nixie_state' = "BEGIN_DISPLAY_SEQUENCE"
            /\ UNCHANGED nixie_private
  /\ display_value_out' = FALSE
  /\ UNCHANGED <<https_vars, shift_vars, periodic_vars, is_value_parsed,
                 display_value, requested_by, register_shift_state>>

encodeShiftRegister ==
  /\ nixie_state = "ENCODE_SHIFT_REGISTER"
  /\ register_shift_state' = display_value
  /\ nixie_state' = "WRITE_SHIFT_REGISTER"
  /\ UNCHANGED <<https_vars, shift_vars, periodic_vars, fetch_vars,
                 nixie_private>>

(* Mutants: a busy shift register is not noticed; or ends the sequence.    *)
writeShiftRegister_NoCheck ==
  /\ nixie_state = "WRITE_SHIFT_REGISTER"
  /\ SendData(register_shift_state)
  /\ nixie_state' = "IDLE"
  /\ UNCHANGED <<https_vars, periodic_vars, fetch_vars, register_shift_state,
                 nixie_private>>

writeShiftRegister_GivesUp ==
  /\ nixie_state = "WRITE_SHIFT_REGISTER"
  /\ IF busy THEN UNCHANGED shift_vars ELSE SendData(register_shift_state)
  /\ nixie_state' = "IDLE"
  /\ UNCHANGED <<https_vars, periodic_vars, fetch_vars, register_shift_state,
                 nixie_private>>

writeShiftRegister ==
  /\ nixie_state = "WRITE_SHIFT_REGISTER" /\ ~busy
  /\ SendData(register_shift_state)
  /\ nixie_state' = "IDLE"
  /\ UNCHANGED <<https_vars, periodic_vars, fetch_vars, register_shift_state,
                 nixie_private>>

(* The states that wait for another component or for a callback.           *)
NixieWaits ==
  /\ \/ nixie_state = "WAIT_HTTPS_CLIENT" /\ Https!APP_HTTPS_Client_IsBusy
     \/ nixie_state = "WAIT_HTTPS_RESPONSE"
     \/ nixie_state = "WRITE_SHIFT_REGISTER" /\ busy
  /\ UNCHANGED <<https_vars, shift_vars, nixie_vars, nixie_private>>

NixieTasks ==
  /\ phase = "nixie" /\ phase' = "command"
  /\ \/ performPeriodicTasks
     \/ handleError
     \/ PassOn
     \/ waitHttpsClientAndSendRequest
     \/ shuffleServerValueDigits
     \/ encodeShiftRegister
     \/ writeShiftRegister
     \/ NixieWaits
  /\ UNCHANGED <<task_state, task_callback, send_data, request_active>>
-----------------------------------------------------------------------------
(* What a command needs to be free before it is invoked.                   *)
performNixieCheckAvailable == ~APP_Nixie_IsBusy
performFetchCheckAvailable == ~Https!APP_HTTPS_Client_IsBusy
performShiftRegisterCheckAvailable == ~busy

CheckAvailable ==
  CASE task_callback \in {"display", "nixie_fetch"} ->
         performNixieCheckAvailable
    [] task_callback = "fetch" -> performFetchCheckAvailable
    [] OTHER -> performShiftRegisterCheckAvailable

(* checkCallbackResult.                                                    *)
Running ==
  task_state' = "RUNNING" /\ UNCHANGED task_callback
Finished ==
  task_state' = "NONE" /\ task_callback' = "NULL"

(* APP_Nixie_Display; the storage may no longer hold the value given.      *)
performNixieDisplay ==
  /\ task_callback = "display"
  /\ display_value' = IF nixie_private.kind = "display"
                        THEN nixie_private.value ELSE Garbled
  /\ nixie_state' = "BEGIN_DISPLAY_SEQUENCE"
  /\ UNCHANGED <<https_vars, shift_vars, periodic_vars, is_value_parsed,
                 display_value_out, requested_by, register_shift_state,
                 nixie_private, request_active>>

(* The result is to go to the buffer of the command, which is marked empty *)
(* and is kept by its address.                                             *)
APP_Nixie_Fetch ==
  /\ nixie_private' = [kind |-> "fetch", is_fetched |-> FALSE,
                       value |-> nixie_private.value]
  /\ nixie_state' = "BEGIN_HTTP_REQUEST"
  /\ display_value_out' = TRUE
  /\ requested_by' = "console"

performNixieFetch ==
  /\ task_callback = "nixie_fetch"
  /\ APP_Nixie_Fetch
  /\ UNCHANGED <<https_vars, shift_vars, periodic_vars, is_value_parsed,
                 display_value, register_shift_state, request_active>>

(* Mutant: the command does not remember its request.                      *)
performFetch_NoFlag ==
  /\ task_callback = "fetch"
  /\ \E url \in Url : Https!APP_HTTPS_Client_Request("fetch", url)
  /\ UNCHANGED <<shift_vars, nixie_vars, nixie_private, request_active>>

performFetch ==
  /\ task_callback = "fetch"
  /\ \E url \in Url : Https!APP_HTTPS_Client_Request("fetch", url)
  /\ request_active' = TRUE
  /\ UNCHANGED <<shift_vars, nixie_vars, nixie_private>>

performShiftRegisterSendData ==
  /\ task_callback = "send"
  /\ SendData(send_data)
  /\ UNCHANGED <<https_vars, nixie_vars, nixie_private, request_active>>

performShiftRegisterSetEnabled ==
  /\ task_callback \in {"enable", "disable"}
  /\ SetEnabled(task_callback = "enable")
  /\ UNCHANGED <<https_vars, nixie_vars, nixie_private, request_active>>

(* APP_COMMAND_TASK_MODE_CALLBACK_INVOKE.                                  *)
Invoke ==
  /\ task_state = "WAIT_AVAILABLE" /\ CheckAvailable
  /\ Running
  /\ \/ performNixieDisplay
     \/ performNixieFetch
     \/ performFetch
     \/ performShiftRegisterSendData
     \/ performShiftRegisterSetEnabled
  /\ UNCHANGED send_data

(* APP_COMMAND_TASK_MODE_CALLBACK_UPDATE: what a command waits for.        *)
MustWait ==
  \/ task_callback = "nixie_fetch" /\ APP_Nixie_IsBusy
  \/ task_callback = "fetch" /\ request_active

Update ==
  /\ task_state = "RUNNING" /\ ~MustWait
  /\ Finished
  /\ UNCHANGED <<https_vars, shift_vars, nixie_vars, nixie_private, send_data,
                 request_active>>

CommandWaits ==
  /\ \/ task_state = "NONE"
     \/ task_state = "WAIT_AVAILABLE" /\ ~CheckAvailable
     \/ task_state = "RUNNING" /\ MustWait
  /\ UNCHANGED <<https_vars, shift_vars, nixie_vars, command_vars>>

CommandTasks ==
  /\ phase = "command" /\ phase' = "sys"
  /\ Invoke \/ Update \/ CommandWaits
-----------------------------------------------------------------------------
(* What happens between two passes.                                        *)

(* Mutant: a command in progress does not keep the next one out.           *)
APP_Command_CheckAvailable_Always == TRUE

APP_Command_CheckAvailable == task_state = "NONE"

APP_Command_Task_Schedule(command) ==
  /\ task_state' = "WAIT_AVAILABLE" /\ task_callback' = command
  /\ UNCHANGED <<nixie_vars, request_active>>

appCmdNixieDisplay ==
  /\ \E value \in UserValue :
       nixie_private' = [kind |-> "display", is_fetched |-> FALSE,
                         value |-> value]
  /\ APP_Command_Task_Schedule("display")
  /\ UNCHANGED send_data

commandShiftRegisterSendData ==
  /\ send_data' \in UserValue
  /\ APP_Command_Task_Schedule("send")
  /\ UNCHANGED nixie_private

(* The commands that store no argument the model tells apart (the URL of   *)
(* "fetch" is chosen when the command is invoked).                         *)
ScheduleOnly(command) ==
  /\ APP_Command_Task_Schedule(command)
  /\ UNCHANGED <<nixie_private, send_data>>

appCmdNixieFetch == ScheduleOnly("nixie_fetch")
appCmdFetch == ScheduleOnly("fetch")
commandShiftRegisterSetEnabledOrDisabled(command) == ScheduleOnly(command)

appCmdNixiePeriodic(is_enabled) ==
  /\ periodic_tasks_enabled' = is_enabled
  /\ UNCHANGED <<nixie_state, periodic_due, task_from_periodic, fetch_vars,
                 register_shift_state, command_vars>>

(* The dispatchers turn a command away while another one is in progress,   *)
(* also one that would start nothing.                                      *)
APP_Command_Nixie(command) ==
  /\ APP_Command_CheckAvailable
  /\ \/ command = "display" /\ appCmdNixieDisplay
     \/ command = "periodic_enable" /\ appCmdNixiePeriodic(TRUE)
     \/ command = "periodic_disable" /\ appCmdNixiePeriodic(FALSE)
     \/ command = "nixie_fetch" /\ appCmdNixieFetch

APP_Command_Fetch(command) ==
  APP_Command_CheckAvailable /\ command = "fetch" /\ appCmdFetch

APP_Command_ShiftRegister(command) ==
  /\ APP_Command_CheckAvailable
  /\ \/ /\ command \in {"enable", "disable"}
        /\ commandShiftRegisterSetEnabledOrDisabled(command)
     \/ command = "send" /\ commandShiftRegisterSendData

(* The user types a command.                                               *)
Console ==
  /\ phase = "sys"
  /\ \E command \in Commands :
       \/ APP_Command_Nixie(command)
       \/ APP_Command_Fetch(command)
       \/ APP_Command_ShiftRegister(command)
  /\ UNCHANGED <<phase, https_vars, shift_vars>>

(* A tick of the clock, some seconds: longer than a transfer, which takes  *)
(* a few hundred passes.                                                   *)
Tick ==
  /\ phase = "sys" /\ ~busy
  /\ periodic_due > 0 /\ periodic_due' = periodic_due - 1
  /\ UNCHANGED <<phase, https_vars, shift_vars, nixie_state,
                 periodic_tasks_enabled, task_from_periodic, fetch_vars,
                 register_shift_state, command_vars>>

Outside(action) ==
  /\ phase = "sys" /\ action
  /\ UNCHANGED <<phase, shift_vars, nixie_vars, command_vars>>

(* The loop begins its next pass.                                          *)
NextPass ==
  /\ phase = "sys" /\ phase' = "https"
  /\ UNCHANGED <<https_vars, shift_vars, nixie_vars, command_vars>>

APP_Tasks == HttpsTasks \/ ShiftRegisterTasks \/ NixieTasks \/ CommandTasks

Next ==
  \/ NextPass
  \/ APP_Tasks
  \/ Outside(Https!Network)
  \/ Console
  \/ Tick

(* What the stack and the server owe a client that waits; never two of     *)
(* these at a time.                                                        *)
NetworkAnswers ==
  Outside(\/ Https!DnsAnswers \/ Https!DnsFails
          \/ Https!Connects
          \/ Https!HandshakeEnds
          \/ Https!ServerFinishes)

(* The loop never stops, and a transfer advances as it polls; the stack,   *)
(* the server and the clock act however the loop interleaves with them     *)
(* (they can only do so in one phase of it, hence strong fairness).        *)
Fairness ==
  /\ WF_vars(NextPass \/ APP_Tasks)
  /\ SF_shift_vars(ShiftRegisterTasks)
  /\ SF_vars(NetworkAnswers)
  /\ SF_vars(Tick)

Safety == Init /\ [][Next]_vars
Spec == Safety /\ Fairness
-----------------------------------------------------------------------------
(* The other components use the shift register as it must be used: no      *)
(* transfer is started, and the outputs are not switched, while one is     *)
(* under way.  SendData itself does not look (app_shift_register.c:181).   *)
ShiftRegisterProtocol == [][Latch!Next]_shift_vars

(* Somebody is there when a callback comes: the user the client owes an    *)
(* outcome waits for it, and the fetch command still holds the console its *)
(* buffers are printed to.                                                 *)
FetchCommandWaits ==
  /\ task_state = "RUNNING" /\ task_callback = "fetch" /\ request_active
OwnerWaits ==
  /\ awaiting = "nixie" => nixie_state = "WAIT_HTTPS_RESPONSE"
  /\ awaiting = "fetch" => FetchCommandWaits

(* And nobody waits for an outcome the client does not owe, unless the TLS *)
(* layer refused to start.                                                 *)
WaitersAreOwed ==
  "encrypt" \notin faults =>
    /\ nixie_state = "WAIT_HTTPS_RESPONSE" => awaiting = "nixie"
    /\ FetchCommandWaits => awaiting = "fetch"

(* "If error happened from periodic, schedule next update as soon as       *)
(* possible": the flag that says so has survived everything in between.    *)
RetrySoon ==
  [][nixie_state = "ERROR" /\ nixie_state' = "IDLE"
       /\ requested_by = "periodic" => periodic_due' <= Fast]_vars

(* While no request fails: a fetched value goes to who asked for it, a     *)
(* refresh to the tubes and the value of a fetch command to its buffer.    *)
Fetching == {"BEGIN_HTTP_REQUEST", "WAIT_HTTPS_CLIENT", "WAIT_HTTPS_RESPONSE",
             "SHUFFLE_SERVER_VALUE"}
FetchGoesToRequester ==
  faults = {} /\ nixie_state \in Fetching =>
    (display_value_out <=> requested_by = "console")

(* While no request fails: the value given to a display command is still   *)
(* there when the nixie subsystem becomes free to show it.                 *)
DisplayPending == task_state = "WAIT_AVAILABLE" /\ task_callback = "display"
DisplayValueKept ==
  faults = {} /\ DisplayPending => nixie_private.kind = "display"

(* A command that was accepted gets its turn and comes to an end, as long  *)
(* as the page has the value.  (Without it the nixie subsystem is idle     *)
(* only between the turn of the client and its own; if the next refresh is *)
(* due by then, a command never sees it.)                                  *)
CommandEnds ==
  "miss" \notin faults /\ task_state # "NONE" ~> task_state = "NONE"

(* What starts on its way to the tubes arrives.                            *)
ReachesTubes ==
  \A value \in Value :
    nixie_state = "BEGIN_DISPLAY_SEQUENCE" /\ display_value = value ~>
      shown = value /\ lit

(* The tubes follow the server: whether a request succeeds, finds no       *)
(* socket or gets a page without a value, and however often the user       *)
(* fetches as well, there is always a next refresh.  (A server that hangs  *)
(* up early, or TLS that refuses to start, may end the refreshes: see the  *)
(* client.)                                                                *)
KeepsRefreshing ==
  []<>(nixie_state = "WAIT_HTTPS_RESPONSE" /\ requested_by = "periodic")
=============================================================================
