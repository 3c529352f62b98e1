------------------------------ MODULE UsbHid ------------------------------
(***************************************************************************)
(* The USB HID device: the polled state machine                            *)
(* (src/firmware/src/app_usb_hid.c) and the handlers of the events of the  *)
(* device layer (src/firmware/src/app_usb_hid_utils.c).                    *)
(*                                                                         *)
(* The driver runs in the USB interrupt, so a handler may come between any *)
(* two statements of a poll.  A poll that does something is therefore more *)
(* than one step; at is the statement it has reached.  The device layer,   *)
(* the queue of its reads and the host are external.                       *)
(***************************************************************************)
EXTENDS Naturals, Sequences

CONSTANTS
  QueueDepth,   \* USB_DEVICE_HID_QUEUE_DEPTH_COMBINED
  IdleRates     \* idle rates the host may set

\* Handles are given out in turn; one more than the queue holds tells a read
\* that is pending from one that has ended.
Handle == 0 .. QueueDepth
Invalid == QueueDepth + 1
NextHandle(h) == IF h >= QueueDepth THEN 0 ELSE h + 1

\* What is assumed of the constants, by the module that composes this one.  A
\* read placed by a poll which a reset hit may still be pending when the device
\* is configured: with a queue of one, the next would be refused.
UsbHidAssumption == QueueDepth \in Nat /\ QueueDepth >= 2

VARIABLES
  state,                    \* AppUSBHIDData::state
  is_device_configured,     \* and its other fields
  is_hid_data_received,
  is_hid_data_transmitted,
  rx_transfer_handle,
  idle_rate,
  at,             \* the statement the poll has reached
  bus,            \* external: what the host has done with the device
  reads,          \* external: handles of the reads pending, oldest first
  last_handle,    \* external: the handle given out last
  interrupted     \* history: a reset came while a poll was going to the main task

data_vars == <<is_hid_data_received, is_hid_data_transmitted,
               rx_transfer_handle, idle_rate>>
ext_vars == <<bus, reads, last_handle>>
vars == <<state, is_device_configured, data_vars, at, ext_vars, interrupted>>

State == {"init", "wait_for_configuration", "main_task", "error"}
At == {"poll", "configured", "report", "receive"}
Bus == {"detached", "powered", "attached", "configured"}

\* APP_USB_HID_Initialize; idle_rate is left as it is.
Init ==
  /\ state = "init"
  /\ is_device_configured = FALSE
  /\ is_hid_data_received = FALSE
  /\ is_hid_data_transmitted = TRUE
  /\ rx_transfer_handle = Invalid
  /\ idle_rate \in IdleRates
  /\ at = "poll"
  /\ bus = "detached"
  /\ reads = << >>
  /\ last_handle = Invalid
  /\ interrupted = FALSE

(***************************************************************************)
(* A read needs a configured device and a place in the queue.              *)
(***************************************************************************)
USB_DEVICE_HID_ReportReceive ==
  IF bus = "configured" /\ Len(reads) < QueueDepth
  THEN /\ last_handle' = NextHandle(last_handle)
       /\ rx_transfer_handle' = last_handle'
       /\ reads' = Append(reads, last_handle')
  ELSE /\ rx_transfer_handle' = Invalid
       /\ UNCHANGED <<last_handle, reads>>

(***************************************************************************)
(* APP_USB_HID_Tasks.                                                      *)
(***************************************************************************)
Open ==
  /\ at = "poll" /\ state = "init"
  /\ state' = "wait_for_configuration"
  /\ UNCHANGED <<is_device_configured, data_vars, at, ext_vars, interrupted>>

SeeConfigured ==
  /\ at = "poll" /\ state = "wait_for_configuration"
  /\ is_device_configured
  /\ at' = "configured"
  /\ interrupted' = FALSE
  /\ UNCHANGED <<state, is_device_configured, data_vars, ext_vars>>

EnterMainTask ==
  /\ at = "configured"
  /\ is_hid_data_received' = FALSE
  /\ is_hid_data_transmitted' = TRUE
  /\ state' = "main_task"
  /\ at' = "receive"
  /\ UNCHANGED <<is_device_configured, rx_transfer_handle, idle_rate, ext_vars,
                 interrupted>>

LeaveMainTask ==
  /\ at = "poll" /\ state = "main_task"
  /\ ~is_device_configured
  /\ state' = "wait_for_configuration"
  /\ UNCHANGED <<is_device_configured, data_vars, at, ext_vars, interrupted>>

SeeReport ==
  /\ at = "poll" /\ state = "main_task"
  /\ is_device_configured /\ is_hid_data_received
  /\ at' = "report"
  /\ UNCHANGED <<state, is_device_configured, data_vars, ext_vars, interrupted>>

TakeReport ==
  /\ at = "report"
  /\ is_hid_data_received' = FALSE
  /\ at' = "receive"
  /\ UNCHANGED <<state, is_device_configured, is_hid_data_transmitted,
                 rx_transfer_handle, idle_rate, ext_vars, interrupted>>

Receive ==
  /\ at = "receive"
  /\ USB_DEVICE_HID_ReportReceive
  /\ at' = "poll"
  /\ UNCHANGED <<state, is_device_configured, is_hid_data_received,
                 is_hid_data_transmitted, idle_rate, bus, interrupted>>

APP_USB_HID_Tasks ==
  \/ Open \/ SeeConfigured \/ EnterMainTask \/ LeaveMainTask
  \/ SeeReport \/ TakeReport \/ Receive

(***************************************************************************)
(* APP_USB_DeviceEventHandler, registered by Open.  The device layer ends  *)
(* the pending reads of a device that is reset or not configured any more, *)
(* and may report them to the handler of the HID events.                   *)
(***************************************************************************)
Pending(h) == \E i \in 1 .. Len(reads) : reads[i] = h

ReadsEnd ==
  /\ reads' = << >>
  /\ \/ UNCHANGED is_hid_data_received
     \/ Pending(rx_transfer_handle) /\ is_hid_data_received' = TRUE

\* A defect: only the flag is reset, the poll shall find out about it.
DeviceReset_KeepsState ==
  /\ state # "init" /\ bus # "detached"
  /\ bus' = "attached"
  /\ is_device_configured' = FALSE
  /\ ReadsEnd
  /\ interrupted' = (interrupted \/ at = "configured")
  /\ UNCHANGED <<state, is_hid_data_transmitted, rx_transfer_handle, idle_rate,
                 at, last_handle>>

\* USB_DEVICE_EVENT_RESET and USB_DEVICE_EVENT_DECONFIGURED.
DeviceReset ==
  /\ state # "init" /\ bus # "detached"
  /\ bus' = "attached"
  /\ is_device_configured' = FALSE
  /\ state' = "wait_for_configuration"
  /\ ReadsEnd
  /\ interrupted' = (interrupted \/ at = "configured")
  /\ UNCHANGED <<is_hid_data_transmitted, rx_transfer_handle, idle_rate, at,
                 last_handle>>

DeviceConfigured ==
  /\ bus = "attached"
  /\ bus' = "configured"
  /\ is_device_configured' = TRUE
  /\ UNCHANGED <<state, data_vars, at, reads, last_handle, interrupted>>

\* USB_DEVICE_EVENT_POWER_DETECTED, upon which the device is attached; the
\* first thing a host does with a device that appears is to reset it.
PowerDetected ==
  /\ state # "init" /\ bus = "detached"
  /\ bus' = "powered"
  /\ UNCHANGED <<state, is_device_configured, data_vars, at, reads, last_handle,
                 interrupted>>

\* USB_DEVICE_EVENT_POWER_REMOVED: the device is detached, nothing is told to
\* the state machine.
PowerRemoved ==
  /\ bus # "detached"
  /\ bus' = "detached"
  /\ ReadsEnd
  /\ UNCHANGED <<state, is_device_configured, is_hid_data_transmitted,
                 rx_transfer_handle, idle_rate, at, last_handle, interrupted>>

(***************************************************************************)
(* APP_USB_DeviceHIDEventHandler, registered by DeviceConfigured.  Nothing *)
(* is ever sent, so no handle is that of tx_transfer_handle.               *)
(***************************************************************************)
ReportReceived ==
  /\ bus = "configured" /\ reads # << >>
  /\ reads' = Tail(reads)
  /\ is_hid_data_received' =
       (is_hid_data_received \/ Head(reads) = rx_transfer_handle)
  /\ UNCHANGED <<state, is_device_configured, is_hid_data_transmitted,
                 rx_transfer_handle, idle_rate, at, bus, last_handle, interrupted>>

SetIdle(rate) ==
  /\ bus = "configured"
  /\ idle_rate' = rate
  /\ UNCHANGED <<state, is_device_configured, is_hid_data_received,
                 is_hid_data_transmitted, rx_transfer_handle, at, ext_vars,
                 interrupted>>

PowerCycle ==
  /\ state' = "init"
  /\ is_device_configured' = FALSE
  /\ is_hid_data_received' = FALSE
  /\ is_hid_data_transmitted' = TRUE
  /\ rx_transfer_handle' = Invalid
  /\ idle_rate' \in IdleRates
  /\ at' = "poll"
  /\ bus' = "detached"
  /\ reads' = << >>
  /\ last_handle' = Invalid
  /\ interrupted' = FALSE

Interrupt ==
  \/ DeviceReset \/ DeviceConfigured \/ PowerDetected \/ PowerRemoved
  \/ ReportReceived
  \/ \E rate \in IdleRates : SetIdle(rate)

TypeOK ==
  /\ state \in State /\ at \in At /\ bus \in Bus
  /\ is_device_configured \in BOOLEAN
  /\ is_hid_data_received \in BOOLEAN
  /\ is_hid_data_transmitted \in BOOLEAN
  /\ rx_transfer_handle \in Handle \cup {Invalid}
  /\ idle_rate \in IdleRates
  /\ reads \in Seq(Handle) /\ Len(reads) <= QueueDepth
  /\ last_handle \in Handle \cup {Invalid}
  /\ interrupted \in BOOLEAN

(***************************************************************************)
(* In the main task a configured device either has a report to take or a   *)
(* read in progress that will bring one, so the host is never left talking *)
(* to a deaf device (app_usb_hid.c, APP_USB_HID_Tasks, which clears the    *)
(* flag before it asks for the next report).  This fails only if a reset   *)
(* hit the very poll that went to the main task, between its look at the   *)
(* flag and its write of the state (app_usb_hid_utils.c, RESET).           *)
(***************************************************************************)
MainTaskListens ==
  at = "poll" /\ state = "main_task" /\ bus = "configured" /\ ~interrupted
    => is_hid_data_received \/ Pending(rx_transfer_handle)
=============================================================================
