----------------------------- MODULE Platform -----------------------------
(***************************************************************************)
(* The components of the main loop that work beside the display: the flash *)
(* disk (FlashDisk), the USB device (UsbHid) and the command task with the *)
(* commands "flash", "power", "phy", "ntp" and "debug"                     *)
(* (src/firmware/src/app_command_flash.c, _power.c, _phy.c, _ntp.c,        *)
(* _debug.c; app_power.c), from every reset on (StartUp).                  *)
(*                                                                         *)
(* The loop polls USB, flash and command task in this order; here any of   *)
(* them may be polled at any time, which includes what the loop does.      *)
(***************************************************************************)
EXTENDS Naturals, Sequences

CONSTANTS
  QueueDepth, IdleRates,  \* see UsbHid
  Typed                   \* bound: the commands that may be typed

VARIABLES
  \* FlashDisk
  flash_state, format_attempted, driver_ready, volume,
  \* UsbHid
  usb_state, is_device_configured, is_hid_data_received,
  is_hid_data_transmitted, rx_transfer_handle, idle_rate, at, bus, reads,
  last_handle, interrupted,
  \* AppCommandTaskData
  task_state,
  callback,    \* the command it holds
  \* StartUp
  step, ready, interrupts, locked, pb_divisor, wait_states, hv_en, eth_nrst,
  hv_output

flash_vars == <<flash_state, format_attempted, driver_ready, volume>>
usb_vars == <<usb_state, is_device_configured, is_hid_data_received,
              is_hid_data_transmitted, rx_transfer_handle, idle_rate, at, bus,
              reads, last_handle, interrupted>>
task_vars == <<task_state, callback>>
pin_vars == <<hv_en, eth_nrst>>
boot_vars == <<step, ready, interrupts, locked, pb_divisor, wait_states,
               hv_output>>
vars == <<flash_vars, usb_vars, task_vars, pin_vars, boot_vars>>

Flash == INSTANCE FlashDisk WITH state <- flash_state
Usb == INSTANCE UsbHid WITH state <- usb_state
Boot == INSTANCE StartUp

TaskState == {"none", "wait_available", "running"}
FlashCommand == {"flash_sectors", "flash_format"}
PinCommand == {"hv_enable", "hv_disable", "phy_up", "phy_down"}
OtherCommand == {"ntp_seconds", "debug"}
Command == FlashCommand \cup PinCommand \cup OtherCommand
NoCallback == "null"

ASSUME PlatformAssumption ==
  /\ Usb!UsbHidAssumption
  /\ Typed \subseteq Command

(***************************************************************************)
(* What APP_Initialize_Real sets is not looked at before the loop runs.    *)
(***************************************************************************)
Init ==
  /\ Flash!Init /\ Usb!Init /\ Boot!Init
  /\ task_state = "none" /\ callback = NoCallback

(***************************************************************************)
(* The command task (app_command_task.c).                                  *)
(***************************************************************************)
APP_Command_CheckAvailable == task_state = "none"

APP_Command_Task_Schedule(command) ==
  /\ task_state = "none"
  /\ task_state' = "wait_available"
  /\ callback' = command

Finish == task_state' = "none" /\ callback' = NoCallback
Continue == task_state' = "running" /\ UNCHANGED callback

performFlashCheckAvailable == ~Flash!APP_Flash_IsBusy

performFlashSectors(mode) ==
  IF mode = "invoke"
  THEN Continue /\ Flash!APP_Flash_DriveSectorGet
  ELSE Finish /\ UNCHANGED flash_vars

\* A defect: the task is not told that the command is over.
performFlashFormat_NeverEnds(mode) ==
  /\ Continue
  /\ IF mode = "invoke"
     THEN \E result \in Flash!Result : Flash!APP_Flash_DriveFormat(result)
     ELSE UNCHANGED flash_vars

performFlashFormat(mode) ==
  IF mode = "invoke"
  THEN Continue /\ \E result \in Flash!Result : Flash!APP_Flash_DriveFormat(result)
  ELSE Finish /\ UNCHANGED flash_vars

Invoke(mode) ==
  \/ callback = "flash_sectors" /\ performFlashSectors(mode)
  \/ callback = "flash_format" /\ performFlashFormat(mode)

APP_Command_Task_Tasks ==
  /\ \/ /\ task_state = "wait_available"
        /\ performFlashCheckAvailable
        /\ Invoke("invoke")
     \/ task_state = "running" /\ Invoke("update")
  /\ UNCHANGED <<usb_vars, pin_vars>>

(***************************************************************************)
(* The console.                                                            *)
(***************************************************************************)
APP_Command_Flash(command) ==
  /\ command \in FlashCommand
  /\ APP_Command_CheckAvailable
  /\ APP_Command_Task_Schedule(command)
  /\ UNCHANGED pin_vars

APP_Power_Enable(enabled) ==
  /\ hv_en' = IF enabled THEN 0 ELSE 1
  /\ UNCHANGED eth_nrst

APP_Command_Power(command) ==
  /\ APP_Command_CheckAvailable
  /\ \/ command = "hv_enable" /\ APP_Power_Enable(TRUE)
     \/ command = "hv_disable" /\ APP_Power_Enable(FALSE)
  /\ UNCHANGED task_vars

ETH_NRSTOff == eth_nrst' = 0

\* Both drive the pin low.
APP_Network_PHY_Up == ETH_NRSTOff
APP_Network_PHY_Down == ETH_NRSTOff

APP_Command_Phy(command) ==
  /\ APP_Command_CheckAvailable
  /\ \/ command = "phy_up" /\ APP_Network_PHY_Up
     \/ command = "phy_down" /\ APP_Network_PHY_Down
  /\ UNCHANGED <<task_vars, hv_en>>

\* Prints the time of the SNTP client, whether or not a command is running.
APP_Command_NTP(command) ==
  command = "ntp_seconds" /\ UNCHANGED <<task_vars, pin_vars>>

\* WolfSSL is built without debug support: a message is all there is.
APP_Command_Debug(command) ==
  command = "debug" /\ UNCHANGED <<task_vars, pin_vars>>

Type(command) ==
  /\ \/ APP_Command_Flash(command)
     \/ APP_Command_Power(command)
     \/ APP_Command_Phy(command)
     \/ APP_Command_NTP(command)
     \/ APP_Command_Debug(command)
  /\ UNCHANGED <<flash_vars, usb_vars>>

(***************************************************************************)
(* The start, the loop, the interrupts and the power.                      *)
(***************************************************************************)
StartUpStep == Boot!Next /\ UNCHANGED <<flash_vars, usb_vars, task_vars>>

FlashTasks == Flash!APP_Flash_Tasks /\ UNCHANGED <<usb_vars, task_vars, pin_vars>>
FlashDriverReady == Flash!DriverReady /\ UNCHANGED <<usb_vars, task_vars, pin_vars>>
UsbTasks == Usb!APP_USB_HID_Tasks /\ UNCHANGED <<flash_vars, task_vars, pin_vars>>
UsbInterrupt == Usb!Interrupt /\ UNCHANGED <<flash_vars, task_vars, pin_vars>>

\* The drivers are polled by the loop; no event reaches the USB device before it.
Loop(A) == Boot!Running /\ A /\ UNCHANGED boot_vars

PowerCycle ==
  /\ Flash!PowerCycle /\ Usb!PowerCycle /\ Boot!Reset
  /\ Finish

Next ==
  \/ StartUpStep
  \/ Loop(FlashTasks) \/ Loop(FlashDriverReady)
  \/ Loop(UsbTasks) \/ Loop(UsbInterrupt)
  \/ Loop(APP_Command_Task_Tasks)
  \/ \E command \in Typed : Loop(Type(command))
  \/ PowerCycle

Spec == Init /\ [][Next]_vars

(***************************************************************************)
(* main gets to its loop, which polls for ever, the flash driver gets      *)
(* ready, and the file system mounts the disk once it has found the medium *)
(* (MountDisk is part of FlashTasks; an attempt that fails changes         *)
(* nothing).  Nobody is forced to type, to plug anything in or to cut the  *)
(* power.                                                                  *)
(***************************************************************************)
LiveSpec ==
  /\ Spec
  /\ WF_vars(StartUpStep)
  /\ WF_vars(Loop(FlashTasks)) /\ WF_vars(Loop(FlashDriverReady))
  /\ WF_vars(Loop(UsbTasks)) /\ WF_vars(Loop(APP_Command_Task_Tasks))

(***************************************************************************)
(* Properties.                                                             *)
(***************************************************************************)
TypeOK ==
  /\ Flash!TypeOK /\ Usb!TypeOK /\ Boot!TypeOK
  /\ task_state \in TaskState
  /\ callback \in FlashCommand \cup {NoCallback}

\* Interrupts come when all handlers have a driver to work on, and the drivers
\* are told the frequency the hardware runs at.
HandlersFindDrivers == Boot!HandlersFindDrivers

\* The high voltage comes on when the user asks for it, and never by itself:
\* not with a reset at any moment, and not while the pins are set up, whatever
\* the latch held before (SYS_PORTS_Initialize, APP_Power_Enable).
HighVoltageIsAskedFor ==
  [][Boot!HighVoltage' /\ ~Boot!HighVoltage => Loop(Type("hv_enable"))]_vars

\* No report is lost and no configured device is left without a read, wherever
\* between the statements of a poll an interrupt comes; apart from a reset that
\* hits the very poll that enters the main task.
UsbListens == Usb!MainTaskListens

\* What is on the disk is destroyed by a user who asked for it, and by nothing
\* else: not by the boot, whatever the queries and the formatting it does come
\* to, and whenever the power fails (APP_Flash_Tasks, performFlashFormat).
FilesAreSafe ==
  [][volume = "files" /\ volume' # "files"
       => task_state = "wait_available" /\ callback = "flash_format"]_vars

\* The boot comes to an end, even with a medium that takes no format: the
\* flash gets idle or gives up (format_attempted).
FlashSettles == driver_ready ~> flash_state \in {"idle", "error"} \/ ~driver_ready

\* A command accepted by the task ends, and leaves the console to the others,
\* unless the flash has given up, for which the task waits for ever
\* (APP_Flash_IsBusy counts an error as busy).
CommandEnds == task_state # "none" ~> task_state = "none" \/ flash_state = "error"

=============================================================================
