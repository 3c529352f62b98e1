--------------------------- MODULE PlatformProofs ---------------------------
(***************************************************************************)
(* Proofs about Platform, for a queue of any depth from 2, any idle rates  *)
(* and any choice of commands: from whatever reset on, interrupts find     *)
(* their drivers, the high voltage is off unless asked for, the USB device *)
(* listens, and files are safe.                                            *)
(***************************************************************************)
EXTENDS Platform, SequenceTheorems, TLAPS

(***************************************************************************)
(* The start.  What has been done follows from the statement that is next. *)
(***************************************************************************)
StartType ==
  /\ step \in 1 .. 23
  /\ hv_en \in {0, 1} /\ eth_nrst \in {0, 1}
  /\ pb_divisor = 2 /\ wait_states \in {2, 7}
StartFlags ==
  /\ interrupts \in BOOLEAN /\ locked \in BOOLEAN /\ hv_output \in BOOLEAN
  /\ locked <=> step \notin {2, 3}
  /\ interrupts <=> step > 21
  /\ hv_output <=> step > 6
Before(s) == {Boot!SysObj[i] : i \in {j \in 1 .. 14 : j + 6 < s}}
Started == ready = Before(step)
HighVoltageOff == step \in 6 .. 22 => hv_en = 1

StartInv == StartType /\ StartFlags /\ Started /\ HighVoltageOff

(***************************************************************************)
(* The flash is only formatted when it is blank.                           *)
(***************************************************************************)
FlashInv ==
  /\ Flash!TypeOK
  /\ flash_state = "format" => volume = "blank"
  /\ task_state \in TaskState /\ callback \in FlashCommand \cup {NoCallback}

(***************************************************************************)
(* The USB device: no reads are pending unless it is configured, the last  *)
(* one is the one the poll knows, and there are two only in the main task  *)
(* with no report to take.  A poll about to place a read finds one pending *)
(* only on its way from the wait to the main task, a reset having hit an   *)
(* earlier one.                                                            *)
(***************************************************************************)
UsbReads ==
  /\ bus # "configured" => reads = << >>
  /\ Len(reads) <= 2
  /\ reads # << >> => rx_transfer_handle = reads[Len(reads)]
  /\ Len(reads) = 2
       => at = "poll" /\ usb_state = "main_task" /\ ~is_hid_data_received
  /\ reads # << >> /\ at \in {"report", "receive"} => usb_state = "main_task"
  /\ reads # << >> /\ at = "receive" => ~is_hid_data_received
UsbBus ==
  /\ bus = "configured" => is_device_configured
  /\ bus = "attached" => ~is_device_configured
  /\ bus = "attached" /\ (usb_state = "main_task" \/ at = "configured")
       => interrupted

UsbInv == Usb!TypeOK /\ UsbReads /\ UsbBus /\ Usb!MainTaskListens

IInv == StartInv /\ FlashInv /\ UsbInv
-----------------------------------------------------------------------------
(* Where the statements are.                                               *)
Name ==
  { "drvI2C0", "spiObjectIdx0", "spiObjectIdx1", "drvMiim", "drvNvm",
    "drvSst25Obj0", "drvTmr0", "drvUsart0", "drvUSBObject", "sysConsole0",
    "sysTmr", "netPres", "tcpip", "usbDevObject0" }
Other ==
  { "SYS_DEVCON_SystemUnlock", "SYS_CLK_Initialize", "SYS_DEVCON_SystemLock",
    "SYS_DEVCON_PerformanceConfig", "PLIB_PORTS_Write",
    "PLIB_PORTS_DirectionOutputSet", "SYS_INT_Enable", "APP_Initialize_Real" }

LEMMA Modules ==
  /\ Boot!SysObj \in Seq(Name) /\ Len(Boot!SysObj) = 14
  /\ \A i, j \in 1 .. 14 : Boot!SysObj[i] = Boot!SysObj[j] => i = j
<1>1. Boot!SysObj \in Seq(Name)
  BY DEF Boot!SysObj, Name
<1>3. Len(Boot!SysObj) = 14
  BY DEF Boot!SysObj
<1>2. ASSUME NEW i \in 1 .. 14, NEW j \in 1 .. 14, Boot!SysObj[i] = Boot!SysObj[j]
      PROVE  i = j
  BY <1>2, SMTT(60) DEF Boot!SysObj
<1> QED
  BY <1>1, <1>2, <1>3

LEMMA StatementAt ==
  /\ Len(Boot!Statements) = 22
  /\ Boot!Statements[1] = "SYS_DEVCON_SystemUnlock"
  /\ Boot!Statements[2] = "SYS_CLK_Initialize"
  /\ Boot!Statements[3] = "SYS_DEVCON_SystemLock"
  /\ Boot!Statements[4] = "SYS_DEVCON_PerformanceConfig"
  /\ Boot!Statements[5] = "PLIB_PORTS_Write"
  /\ Boot!Statements[6] = "PLIB_PORTS_DirectionOutputSet"
  /\ \A i \in 7 .. 20 : Boot!Statements[i] = Boot!SysObj[i - 6]
  /\ Boot!Statements[21] = "SYS_INT_Enable"
  /\ Boot!Statements[22] = "APP_Initialize_Real"
<1> DEFINE first == << "SYS_DEVCON_SystemUnlock", "SYS_CLK_Initialize",
                       "SYS_DEVCON_SystemLock", "SYS_DEVCON_PerformanceConfig",
                       "PLIB_PORTS_Write", "PLIB_PORTS_DirectionOutputSet" >>
           last == << "SYS_INT_Enable", "APP_Initialize_Real" >>
           all == Name \cup Other
<1>1. /\ first \in Seq(all) /\ Len(first) = 6
      /\ last \in Seq(all) /\ Len(last) = 2
  BY DEF Other
<1>2. /\ first[1] = "SYS_DEVCON_SystemUnlock"
      /\ first[2] = "SYS_CLK_Initialize"
      /\ first[3] = "SYS_DEVCON_SystemLock"
      /\ first[4] = "SYS_DEVCON_PerformanceConfig"
      /\ first[5] = "PLIB_PORTS_Write"
      /\ first[6] = "PLIB_PORTS_DirectionOutputSet"
      /\ last[1] = "SYS_INT_Enable" /\ last[2] = "APP_Initialize_Real"
  OBVIOUS
<1>3. Boot!Statements = first \o Boot!SysObj \o last
  BY DEF Boot!Statements
<1>4. Boot!SysObj \in Seq(all) /\ Len(Boot!SysObj) = 14
  BY Modules
<1> HIDE DEF first, last, all
<1> DEFINE begin == first \o Boot!SysObj
<1>5. /\ begin \in Seq(all) /\ Len(begin) = 20
      /\ \A i \in 1 .. 6 : begin[i] = first[i]
      /\ \A i \in 7 .. 20 : begin[i] = Boot!SysObj[i - 6]
  <2>1. /\ begin \in Seq(all)
        /\ Len(begin) = Len(first) + Len(Boot!SysObj)
        /\ \A i \in 1 .. Len(first) + Len(Boot!SysObj) :
             begin[i] = IF i <= Len(first) THEN first[i]
                        ELSE Boot!SysObj[i - Len(first)]
    BY <1>1, <1>4, ConcatProperties, Zenon
  <2> HIDE DEF begin
  <2> QED
    BY <2>1, <1>1, <1>4
<1>6. Boot!Statements = begin \o last
  BY <1>3
<1> HIDE DEF begin
<1>7. /\ Len(Boot!Statements) = 22
      /\ \A i \in 1 .. 20 : Boot!Statements[i] = begin[i]
      /\ Boot!Statements[21] = last[1] /\ Boot!Statements[22] = last[2]
  <2>1. /\ Len(Boot!Statements) = Len(begin) + Len(last)
        /\ \A i \in 1 .. Len(begin) + Len(last) :
             Boot!Statements[i] = IF i <= Len(begin) THEN begin[i]
                                  ELSE last[i - Len(begin)]
    BY <1>1, <1>5, <1>6, ConcatProperties, Zenon
  <2> QED
    BY <2>1, <1>1, <1>5
<1> QED
  BY <1>2, <1>5, <1>7
-----------------------------------------------------------------------------
(* A statement is only reached at its place.                               *)
LEMMA Reached ==
  ASSUME StartInv
  PROVE  /\ Boot!Reach("SYS_DEVCON_SystemUnlock") => step = 1 /\ step' = 2
         /\ Boot!Reach("SYS_CLK_Initialize") => step = 2 /\ step' = 3
         /\ Boot!Reach("SYS_DEVCON_SystemLock") => step = 3 /\ step' = 4
         /\ Boot!Reach("SYS_DEVCON_PerformanceConfig") => step = 4 /\ step' = 5
         /\ Boot!Reach("PLIB_PORTS_Write") => step = 5 /\ step' = 6
         /\ Boot!Reach("PLIB_PORTS_DirectionOutputSet")
              => step = 6 /\ step' = 7
         /\ \A i \in 1 .. 14 : Boot!Reach(Boot!SysObj[i])
              => step = i + 6 /\ step' = i + 7
         /\ Boot!Reach("SYS_INT_Enable") => step = 21 /\ step' = 22
         /\ Boot!Reach("APP_Initialize_Real") => step = 22 /\ step' = 23
<1>1. \A i \in 1 .. 14 : Boot!SysObj[i] \in Name
  BY Modules, ElementOfSeq
<1>2. \A i \in 7 .. 20 : Boot!Statements[i] \in Name
  BY <1>1, StatementAt
<1>3. Name \cap Other = {}
  BY DEF Name, Other
<1>4. \A i \in (1 .. 22) \ (7 .. 20) : Boot!Statements[i] \in Other
  BY StatementAt DEF Other
<1>5. /\ step \in 1 .. 23
      /\ \A name : Boot!Reach(name)
           => /\ step \in 1 .. 22 /\ Boot!Statements[step] = name
              /\ step' = step + 1
  BY StatementAt DEF StartInv, StartType, Boot!Reach
<1>6. ASSUME NEW i \in 1 .. 14, Boot!Reach(Boot!SysObj[i])
      PROVE  step = i + 6 /\ step' = i + 7
  <2>1. step \in 7 .. 20
    BY <1>1, <1>3, <1>4, <1>5, <1>6
  <2>2. Boot!SysObj[step - 6] = Boot!SysObj[i]
    BY <1>5, <1>6, <2>1, StatementAt
  <2>3. step \in Nat /\ step - 6 \in 1 .. 14 /\ step' = step + 1
    BY <1>5, <1>6, <2>1
  <2>4. step - 6 = i
    BY <1>6, <2>2, <2>3, Modules
  <2> QED
    BY <1>6, <2>3, <2>4
<1>7. ASSUME NEW name \in Other, Boot!Reach(name)
      PROVE  step \in {1, 2, 3, 4, 5, 6, 21, 22}
  BY <1>2, <1>3, <1>5, <1>7
<1>8. ASSUME NEW name \in Other, Boot!Reach(name)
      PROVE  /\ name = "SYS_DEVCON_SystemUnlock" => step = 1
             /\ name = "SYS_CLK_Initialize" => step = 2
             /\ name = "SYS_DEVCON_SystemLock" => step = 3
             /\ name = "SYS_DEVCON_PerformanceConfig" => step = 4
             /\ name = "PLIB_PORTS_Write" => step = 5
             /\ name = "PLIB_PORTS_DirectionOutputSet" => step = 6
             /\ name = "SYS_INT_Enable" => step = 21
             /\ name = "APP_Initialize_Real" => step = 22
  BY <1>5, <1>7, <1>8, StatementAt
<1> QED
  BY <1>5, <1>6, <1>8 DEF Other

LEMMA NothingBefore == \A s \in 1 .. 7 : Before(s) = {}
<1>1. \A s \in 1 .. 7 : \A j \in 1 .. 14 : ~(j + 6 < s)
  OBVIOUS
<1> QED
  BY <1>1, Zenon DEF Before

LEMMA OneMore ==
  \A i \in 1 .. 14 : Before(i + 7) = Before(i + 6) \cup {Boot!SysObj[i]}
<1>1. \A i, j \in 1 .. 14 : j + 6 < i + 7 <=> j + 6 < i + 6 \/ j = i
  OBVIOUS
<1> QED
  BY <1>1, Zenon DEF Before

LEMMA AllBefore == \A s \in 21 .. 23 : Before(s) = Before(21)
<1>1. \A s \in 21 .. 23 : \A j \in 1 .. 14 : j + 6 < s <=> j + 6 < 21
  OBVIOUS
<1> QED
  BY <1>1, Zenon DEF Before

(* The start itself, one statement after the other.                        *)
LEMMA StartUpSteps == StartInv /\ Boot!Next => StartInv'
<1> SUFFICES ASSUME StartInv, Boot!Next PROVE StartInv'
  OBVIOUS
<1> USE Reached, NothingBefore, OneMore, AllBefore
    DEF StartInv, StartType, StartFlags, Started, HighVoltageOff,
        Boot!hardware_vars, Boot!pin_vars, Boot!PLIB_INT_Restore
<1>1. CASE Boot!SYS_DEVCON_SystemUnlock
  <2>1. step = 1 /\ step' = 2 /\ locked' = FALSE
    BY <1>1 DEF Boot!SYS_DEVCON_SystemUnlock
  <2>2. /\ interrupts' = interrupts /\ hv_output' = hv_output
        /\ UNCHANGED <<ready, pb_divisor, wait_states, hv_en, eth_nrst>>
    BY <1>1 DEF Boot!SYS_DEVCON_SystemUnlock
  <2>3. locked' \in BOOLEAN
    BY <2>1, Zenon
  <2>4. StartType' /\ Started' /\ HighVoltageOff'
    BY <2>1, <2>2
  <2>5. interrupts' \in BOOLEAN /\ hv_output' \in BOOLEAN
    BY <2>2
  <2> QED
    BY <2>1, <2>2, <2>3, <2>4, <2>5
<1>2. CASE Boot!SYS_CLK_Initialize
  BY <1>2 DEF Boot!SYS_CLK_Initialize
<1>3. CASE Boot!SYS_DEVCON_SystemLock
  BY <1>3 DEF Boot!SYS_DEVCON_SystemLock
<1>4. CASE Boot!SYS_DEVCON_PerformanceConfig
  BY <1>4 DEF Boot!SYS_DEVCON_PerformanceConfig, Boot!WaitStates,
              Boot!SYS_CLK_SystemFrequencyGet, Boot!SYS_CLK_FREQ
<1>5. CASE Boot!PLIB_PORTS_Write
  BY <1>5 DEF Boot!PLIB_PORTS_Write
<1>6. CASE Boot!PLIB_PORTS_DirectionOutputSet
  BY <1>6 DEF Boot!PLIB_PORTS_DirectionOutputSet
<1>7. ASSUME NEW i \in 1 .. 14, Boot!InitializeModule(Boot!SysObj[i])
      PROVE  StartInv'
  BY <1>7 DEF Boot!InitializeModule, Boot!APP_Network_PHY_Reset
<1>8. CASE Boot!SYS_INT_Enable
  BY <1>8 DEF Boot!SYS_INT_Enable
<1>9. CASE Boot!APP_Initialize_Real
  BY <1>9 DEF Boot!APP_Initialize_Real
<1> HIDE Reached, NothingBefore, OneMore, AllBefore
    DEF StartInv, StartType, StartFlags, Started, HighVoltageOff,
        Boot!hardware_vars, Boot!pin_vars, Boot!PLIB_INT_Restore
<1> QED
  BY <1>1, <1>2, <1>3, <1>4, <1>5, <1>6, <1>7, <1>8, <1>9, Modules
     DEF Boot!Next

LEMMA StartsOver == Boot!Init => StartInv
<1> SUFFICES ASSUME Boot!Init PROVE StartInv
  OBVIOUS
<1>1. /\ step = 1 /\ ready = {} /\ locked = TRUE
      /\ interrupts = FALSE /\ hv_output = FALSE
  BY DEF Boot!Init
<1>2. /\ interrupts \in BOOLEAN /\ locked \in BOOLEAN
      /\ hv_output \in BOOLEAN
  BY <1>1, Zenon
<1>3. StartType /\ Started /\ HighVoltageOff
  BY <1>1, NothingBefore
     DEF Boot!Init, Boot!Level, Boot!FPBDIV, StartType, Started, HighVoltageOff
<1> QED
  BY <1>1, <1>2, <1>3 DEF StartInv, StartFlags

LEMMA StartsOverAgain == Boot!Reset => StartInv'
<1> SUFFICES ASSUME Boot!Reset PROVE StartInv'
  OBVIOUS
<1>1. /\ step' = 1 /\ ready' = {} /\ locked' = TRUE
      /\ interrupts' = FALSE /\ hv_output' = FALSE
  BY DEF Boot!Reset
<1>2. /\ interrupts' \in BOOLEAN /\ locked' \in BOOLEAN
      /\ hv_output' \in BOOLEAN
  BY <1>1, Zenon
<1>3. StartType' /\ Started' /\ HighVoltageOff'
  BY <1>1, NothingBefore
     DEF Boot!Reset, Boot!Level, Boot!FPBDIV, StartType, Started, HighVoltageOff
<1> QED
  BY <1>1, <1>2, <1>3 DEF StartInv, StartFlags

(* Once main is in its loop, only commands touch a pin.                    *)
LEMMA LoopKeepsStart ==
  ASSUME StartInv, Boot!Running, UNCHANGED boot_vars,
         hv_en' \in {0, 1}, eth_nrst' \in {0, 1}
  PROVE  StartInv'
BY StatementAt DEF StartInv, StartType, StartFlags, Started, HighVoltageOff,
       Boot!Running, boot_vars

(* The pins of a step of the loop.                                         *)
LEMMA TypedPins ==
  ASSUME NEW command, Type(command), hv_en \in {0, 1}, eth_nrst \in {0, 1}
  PROVE  /\ hv_en' \in {0, 1} /\ eth_nrst' \in {0, 1}
         /\ hv_en' = 0 /\ hv_en # 0 => command = "hv_enable"
BY DEF Type, pin_vars, APP_Command_Flash, APP_Command_Power, APP_Power_Enable,
       APP_Command_Phy, APP_Network_PHY_Up, APP_Network_PHY_Down, ETH_NRSTOff,
       APP_Command_NTP, APP_Command_Debug

LEMMA OtherPins ==
  FlashTasks \/ FlashDriverReady \/ UsbTasks \/ UsbInterrupt
    \/ APP_Command_Task_Tasks
  => UNCHANGED pin_vars
BY DEF FlashTasks, FlashDriverReady, UsbTasks, UsbInterrupt,
       APP_Command_Task_Tasks, pin_vars

LEMMA StartStep == StartInv /\ [Next]_vars => StartInv'
<1> SUFFICES ASSUME StartInv, [Next]_vars PROVE StartInv'
  OBVIOUS
<1>1. CASE StartUpStep
  BY <1>1, StartUpSteps DEF StartUpStep
<1>2. CASE PowerCycle
  BY <1>2, StartsOverAgain DEF PowerCycle
<1>3. CASE UNCHANGED vars
  BY <1>3 DEF vars, pin_vars, boot_vars, StartInv, StartType, StartFlags,
              Started, HighVoltageOff
<1>4. ASSUME Boot!Running, UNCHANGED boot_vars, UNCHANGED pin_vars
      PROVE  StartInv'
  BY <1>4, LoopKeepsStart DEF pin_vars, StartInv, StartType
<1>5. ASSUME NEW command \in Typed, Loop(Type(command))
      PROVE  StartInv'
  BY <1>5, TypedPins, LoopKeepsStart DEF Loop, StartInv, StartType
<1> QED
  BY <1>1, <1>2, <1>3, <1>4, <1>5, OtherPins DEF Next, Loop
-----------------------------------------------------------------------------
(* The flash.                                                              *)
LEMMA FlashStep == FlashInv /\ [Next]_vars => FlashInv'
<1> SUFFICES ASSUME FlashInv, [Next]_vars PROVE FlashInv'
  OBVIOUS
<1> USE DEF FlashInv, Flash!TypeOK, Flash!State, Flash!Volume, TaskState
<1>1. ASSUME UNCHANGED <<flash_vars, task_vars>> PROVE FlashInv'
  BY <1>1 DEF flash_vars, task_vars
<1>2. CASE Loop(FlashTasks)
  <2>1. Flash!APP_Flash_Tasks /\ UNCHANGED task_vars
    BY <1>2 DEF Loop, FlashTasks
  <2>2. task_state' \in TaskState /\ callback' \in FlashCommand \cup {NoCallback}
    BY <2>1 DEF task_vars
  <2>3. CASE Flash!Wait \/ Flash!MountDisk
    BY <2>2, <2>3 DEF Flash!Wait, Flash!MountDisk, Flash!Goto, Flash!vars
  <2>4. ASSUME NEW result \in Flash!Result, Flash!RegisterMedia(result)
        PROVE  FlashInv'
    BY <2>2, <2>4 DEF Flash!RegisterMedia, Flash!Goto
  <2>5. ASSUME NEW result \in Flash!Result, Flash!EnsureFormatted(result)
        PROVE  FlashInv'
    BY <2>2, <2>5 DEF Flash!EnsureFormatted, Flash!TotalSectors, Flash!Goto
  <2>6. ASSUME NEW result \in Flash!Result, Flash!Format(result)
        PROVE  FlashInv'
    <3>1. format_attempted' = TRUE /\ UNCHANGED driver_ready
      BY <2>6 DEF Flash!Format
    <3>2. volume' \in {"empty", "blank"} \cup {volume}
      BY <2>6 DEF Flash!Format, Flash!SYS_FS_DriveFormat
    <3>3. flash_state' \in {"ensure_formatted", "error"}
      BY <2>6 DEF Flash!Format, Flash!Goto
    <3>4. format_attempted' \in BOOLEAN
      BY <3>1, Zenon
    <3> QED
      BY <2>2, <3>1, <3>2, <3>3, <3>4
  <2> QED
    BY <2>1, <2>3, <2>4, <2>5, <2>6 DEF Flash!APP_Flash_Tasks
<1>3. CASE Loop(FlashDriverReady)
  BY <1>3 DEF Loop, FlashDriverReady, Flash!DriverReady, task_vars
<1>4. CASE Loop(APP_Command_Task_Tasks)
  BY <1>4 DEF Loop, APP_Command_Task_Tasks, performFlashCheckAvailable,
       Flash!APP_Flash_IsBusy, Invoke, performFlashSectors, performFlashFormat,
       Continue, Finish, Flash!APP_Flash_DriveSectorGet, Flash!Result,
       Flash!APP_Flash_DriveFormat, Flash!SYS_FS_DriveFormat, Flash!vars,
       flash_vars
<1>5. ASSUME NEW command \in Typed, Loop(Type(command))
      PROVE  FlashInv'
  BY <1>5 DEF Loop, Type, APP_Command_Flash, APP_Command_Power,
       APP_Command_Phy, APP_Command_NTP, APP_Command_Debug,
       APP_Command_Task_Schedule, flash_vars, task_vars
<1>6. CASE PowerCycle
  BY <1>6 DEF PowerCycle, Flash!PowerCycle, Finish
<1> QED
  BY <1>1, <1>2, <1>3, <1>4, <1>5, <1>6
     DEF Next, vars, StartUpStep, Loop, UsbTasks, UsbInterrupt
-----------------------------------------------------------------------------
(* Small numbers.                                                          *)
LEMMA Few ==
  /\ \A n \in Nat : n <= 2 /\ n # 2 => n \in 0 .. 1
  /\ \A n \in Nat : n <= 2 /\ n # 0 => n \in 1 .. 2
  /\ 0 \in 0 .. 1 /\ 1 \in 0 .. 1
  /\ \A n \in 0 .. 2 : n <= 2
  /\ \A n \in Nat : n + 1 = 2 => n = 1
  /\ \A n \in 0 .. 1 : n \in 0 .. 2 /\ n <= 2 /\ n # 2
OBVIOUS

(* The USB device.  Reads that end, and the one that is placed.            *)
LEMMA Placed ==
  ASSUME UsbInv, at = "receive", Usb!USB_DEVICE_HID_ReportReceive
  PROVE  /\ rx_transfer_handle' \in Usb!Handle \cup {Usb!Invalid}
         /\ last_handle' \in Usb!Handle \cup {Usb!Invalid}
         /\ bus = "configured"
              => /\ reads' \in Seq(Usb!Handle) /\ Len(reads') \in {1, 2}
                 /\ Len(reads') = Len(reads) + 1
                 /\ reads'[Len(reads')] = rx_transfer_handle'
         /\ bus # "configured" => reads' = << >>
<1>1. QueueDepth \in Nat /\ QueueDepth >= 2
  BY PlatformAssumption DEF Usb!UsbHidAssumption
<1>2. reads \in Seq(Usb!Handle) /\ Len(reads) \in 0 .. 1
  <2>1. reads \in Seq(Usb!Handle)
    BY Zenon DEF UsbInv, Usb!TypeOK
  <2>2. Len(reads) <= 2 /\ Len(reads) # 2
    BY DEF UsbInv, UsbReads
  <2>3. Len(reads) \in Nat
    BY <2>1, LenProperties
  <2>4. Len(reads) \in 0 .. 1
    BY <2>2, <2>3, Few, Zenon
  <2> QED
    BY <2>1, <2>4, Zenon
<1>3. \A h \in Usb!Handle \cup {Usb!Invalid} : Usb!NextHandle(h) \in Usb!Handle
  BY <1>1 DEF Usb!Handle, Usb!Invalid, Usb!NextHandle
<1>4. last_handle \in Usb!Handle \cup {Usb!Invalid}
  BY DEF UsbInv, Usb!TypeOK
<1>5. CASE bus = "configured"
  <2>1. /\ last_handle' = Usb!NextHandle(last_handle)
        /\ rx_transfer_handle' = last_handle'
        /\ reads' = Append(reads, last_handle')
    <3>1. Len(reads) < QueueDepth
      BY <1>1, <1>2
    <3> QED
      BY <1>5, <3>1 DEF Usb!USB_DEVICE_HID_ReportReceive
  <2>2. last_handle' \in Usb!Handle
    BY <1>3, <1>4, <2>1
  <2>3. /\ reads' \in Seq(Usb!Handle) /\ Len(reads') = Len(reads) + 1
        /\ reads'[Len(reads) + 1] = last_handle'
    BY <1>2, <2>1, <2>2, AppendProperties
  <2> QED
    BY <1>2, <1>5, <2>1, <2>2, <2>3
<1>6. CASE bus # "configured"
  BY <1>4, <1>6 DEF Usb!USB_DEVICE_HID_ReportReceive, UsbInv, UsbReads
<1> QED
  BY <1>5, <1>6

LEMMA Ended ==
  ASSUME UsbInv, Usb!ReadsEnd
  PROVE  /\ reads' = << >> /\ reads' \in Seq(Usb!Handle) /\ Len(reads') = 0
         /\ is_hid_data_received' \in BOOLEAN
<1>1. reads' = << >>
  BY DEF Usb!ReadsEnd
<1>2. is_hid_data_received' = is_hid_data_received
        \/ is_hid_data_received' = TRUE
  BY DEF Usb!ReadsEnd
<1>3. is_hid_data_received' \in BOOLEAN
  BY <1>2, Zenon DEF UsbInv, Usb!TypeOK
<1> QED
  BY <1>1, <1>3

(* A report that comes is the one waited for, or leaves it pending.        *)
LEMMA Reported ==
  ASSUME UsbInv, Usb!ReportReceived
  PROVE  /\ reads' \in Seq(Usb!Handle) /\ Len(reads') = Len(reads) - 1
         /\ Len(reads') \in 0 .. 1
         /\ is_hid_data_received' \in BOOLEAN
         /\ reads' # << >> => rx_transfer_handle = reads'[Len(reads')]
         /\ reads' = << >> => is_hid_data_received'
         /\ reads' # << >> /\ at = "receive" => ~is_hid_data_received'
<1>1. /\ reads \in Seq(Usb!Handle) /\ reads # << >> /\ Len(reads) \in 1 .. 2
      /\ rx_transfer_handle = reads[Len(reads)]
  <2>1. reads \in Seq(Usb!Handle)
    BY Zenon DEF UsbInv, Usb!TypeOK
  <2>2. reads # << >> /\ Len(reads) <= 2
    BY DEF UsbInv, UsbReads, Usb!ReportReceived
  <2>3. rx_transfer_handle = reads[Len(reads)]
    BY <2>2 DEF UsbInv, UsbReads
  <2>4. Len(reads) \in Nat /\ Len(reads) # 0
    BY <2>1, <2>2, LenProperties, EmptySeq
  <2>5. Len(reads) \in 1 .. 2
    BY <2>2, <2>4, Few, Zenon
  <2> QED
    BY <2>1, <2>2, <2>3, <2>5, Zenon
<1>2. /\ reads' = Tail(reads)
      /\ is_hid_data_received'
           = (is_hid_data_received \/ Head(reads) = rx_transfer_handle)
  BY DEF Usb!ReportReceived
<1>3. is_hid_data_received' \in BOOLEAN
  BY <1>2, Zenon
<1>4. /\ reads' \in Seq(Usb!Handle) /\ Len(reads') = Len(reads) - 1
      /\ \A i \in 1 .. Len(reads') : reads'[i] = reads[i + 1]
      /\ Head(reads) = reads[1]
  BY <1>1, <1>2, HeadTailProperties
<1>5. CASE Len(reads) = 1
  <2>1. Head(reads) = rx_transfer_handle
    BY <1>1, <1>4, <1>5
  <2>2. Len(reads') = 0 /\ reads' = << >>
    BY <1>4, <1>5, EmptySeq
  <2>3. is_hid_data_received' /\ Len(reads') \in 0 .. 1
    BY <1>2, <2>1, <2>2, Few, Zenon
  <2> QED
    BY <1>3, <1>4, <2>2, <2>3, Zenon
<1>6. CASE Len(reads) = 2
  <2>1. at # "receive"
    BY <1>6 DEF UsbInv, UsbReads
  <2>2. /\ Len(reads') = 1 /\ reads' # << >>
        /\ rx_transfer_handle = reads'[Len(reads')]
    <3>1. Len(reads') = 1
      BY <1>4, <1>6
    <3>2. reads' # << >>
      BY <3>1
    <3>3. 1 \in 1 .. Len(reads') /\ 1 + 1 = Len(reads)
      BY <1>6, <3>1
    <3>4. reads'[1] = reads[2]
      BY <1>4, <3>3
    <3> QED
      BY <1>1, <1>6, <3>1, <3>2, <3>4
  <2>3. Len(reads') \in 0 .. 1
    BY <2>2, Few, Zenon
  <2> QED
    BY <1>3, <1>4, <2>1, <2>2, <2>3, Zenon
<1> QED
  BY <1>1, <1>5, <1>6

(* The last of the pending reads is pending.                               *)
LEMMA LastIsPending ==
  ASSUME NEW s \in Seq(Usb!Handle), s # << >>
  PROVE  \E i \in 1 .. Len(s) : s[i] = s[Len(s)]
<1>1. Len(s) \in Nat \ {0}
  BY EmptySeq
<1> QED
  BY <1>1

(* Two reads always fit into the queue.                                    *)
LEMMA TwoFit == \A n \in 0 .. 2 : n <= QueueDepth
BY PlatformAssumption DEF Usb!UsbHidAssumption

(* The types, put together.                                                *)
LEMMA TypedAgain ==
  ASSUME UsbInv,
         usb_state' \in Usb!State, at' \in Usb!At, bus' \in Usb!Bus,
         is_device_configured' \in BOOLEAN, is_hid_data_received' \in BOOLEAN,
         interrupted' \in BOOLEAN,
         UNCHANGED <<is_hid_data_transmitted, idle_rate>>,
         rx_transfer_handle' \in Usb!Handle \cup {Usb!Invalid},
         last_handle' \in Usb!Handle \cup {Usb!Invalid},
         reads' \in Seq(Usb!Handle), Len(reads') \in 0 .. 2
  PROVE  Usb!TypeOK'
<1>1. is_hid_data_transmitted' \in BOOLEAN /\ idle_rate' \in IdleRates
  <2>1. is_hid_data_transmitted \in BOOLEAN /\ idle_rate \in IdleRates
    BY Zenon DEF UsbInv, Usb!TypeOK
  <2>2. is_hid_data_transmitted' = is_hid_data_transmitted
        /\ idle_rate' = idle_rate
    OBVIOUS
  <2> QED
    BY <2>1, <2>2, Zenon
<1>2. Len(reads') <= QueueDepth
  BY TwoFit, Zenon
<1> QED
  BY <1>1, <1>2, Zenon DEF Usb!TypeOK

(* What the poll and the events leave alone keeps its type.                *)
LEMMA UsbTypes ==
  UsbInv => /\ usb_state \in Usb!State /\ at \in Usb!At /\ bus \in Usb!Bus
            /\ is_device_configured \in BOOLEAN
            /\ is_hid_data_received \in BOOLEAN
            /\ interrupted \in BOOLEAN
            /\ rx_transfer_handle \in Usb!Handle \cup {Usb!Invalid}
            /\ last_handle \in Usb!Handle \cup {Usb!Invalid}
BY Zenon DEF UsbInv, Usb!TypeOK

LEMMA OneIsSome == Len(reads) = 1 => reads # << >>
<1>1. Len(<< >>) = 0
  OBVIOUS
<1> QED
  BY <1>1

LEMMA ReceiveStep == UsbInv /\ Usb!Receive => UsbInv'
<1> SUFFICES ASSUME UsbInv, Usb!Receive PROVE UsbInv'
  OBVIOUS
<1>1. /\ at = "receive" /\ at' = "poll"
      /\ Usb!USB_DEVICE_HID_ReportReceive
      /\ usb_state' = usb_state /\ bus' = bus
      /\ is_device_configured' = is_device_configured
      /\ is_hid_data_received' = is_hid_data_received
      /\ is_hid_data_transmitted' = is_hid_data_transmitted
      /\ idle_rate' = idle_rate /\ interrupted' = interrupted
  BY DEF Usb!Receive
<1>2. /\ rx_transfer_handle' \in Usb!Handle \cup {Usb!Invalid}
      /\ last_handle' \in Usb!Handle \cup {Usb!Invalid}
      /\ bus = "configured"
           => /\ reads' \in Seq(Usb!Handle) /\ Len(reads') \in {1, 2}
              /\ Len(reads') = Len(reads) + 1
              /\ reads'[Len(reads')] = rx_transfer_handle'
      /\ bus # "configured" => reads' = << >>
  BY <1>1, Placed
<1>3. /\ bus # "configured" => reads' = << >>
      /\ reads' \in Seq(Usb!Handle) /\ Len(reads') \in 0 .. 2
      /\ reads' # << >> => rx_transfer_handle' = reads'[Len(reads')]
  <2>1. CASE bus = "configured"
    <3>1. Len(reads') \in 0 .. 2
      BY <1>2, <2>1
    <3> QED
      BY <1>2, <2>1, <3>1, Zenon
  <2>2. CASE bus # "configured"
    <3>1. reads' = << >>
      BY <1>2, <2>2
    <3>2. reads' \in Seq(Usb!Handle) /\ Len(reads') = 0
      BY <3>1, EmptySeq
    <3>3. Len(reads') \in 0 .. 2
      BY <3>2
    <3> QED
      BY <2>2, <3>1, <3>2, <3>3, Zenon
  <2> QED
    BY <2>1, <2>2
<1>4. Usb!TypeOK'
  <2>1. at' \in Usb!At
    BY <1>1 DEF Usb!At
  <2> QED
    BY <1>1, <1>2, <1>3, <2>1, UsbTypes, TypedAgain, Zenon
<1>5. UsbReads'
  <2>1. bus' # "configured" => reads' = << >>
    BY <1>1, <1>3
  <2>2. Len(reads') <= 2
    BY <1>3, Few, Zenon
  <2>3. Len(reads') = 2 => Len(reads) = 1 /\ bus = "configured"
    <3> SUFFICES ASSUME Len(reads') = 2
                 PROVE  Len(reads) = 1 /\ bus = "configured"
      OBVIOUS
    <3>1. reads' # << >>
      OBVIOUS
    <3>2. bus = "configured"
      BY <1>3, <3>1
    <3>3. Len(reads) \in Nat
      BY LenProperties, Zenon DEF UsbInv, Usb!TypeOK
    <3>4. Len(reads) + 1 = 2
      BY <1>2, <3>2
    <3>5. Len(reads) = 1
      BY <3>3, <3>4, Few, Zenon
    <3> QED
      BY <3>2, <3>5
  <2>4. Len(reads') = 2 => usb_state = "main_task" /\ ~is_hid_data_received
    BY <1>1, <2>3, OneIsSome DEF UsbInv, UsbReads
  <2> QED
    BY <1>1, <1>3, <2>1, <2>2, <2>4, Zenon DEF UsbReads
<1>6. UsbBus'
  BY <1>1 DEF UsbInv, UsbBus
<1>7. Usb!MainTaskListens'
  BY <1>1, <1>2, <1>3, LastIsPending DEF Usb!MainTaskListens, Usb!Pending
<1> QED
  BY <1>4, <1>5, <1>6, <1>7 DEF UsbInv

LEMMA ResetStep == UsbInv /\ Usb!DeviceReset => UsbInv'
<1> SUFFICES ASSUME UsbInv, Usb!DeviceReset PROVE UsbInv'
  OBVIOUS
<1>1. /\ bus' = "attached" /\ is_device_configured' = FALSE
      /\ usb_state' = "wait_for_configuration" /\ at' = at
      /\ Usb!ReadsEnd
      /\ interrupted' = (interrupted \/ at = "configured")
      /\ UNCHANGED <<is_hid_data_transmitted, idle_rate>>
      /\ rx_transfer_handle' = rx_transfer_handle
      /\ last_handle' = last_handle
  BY DEF Usb!DeviceReset
<1>2. /\ reads' = << >> /\ reads' \in Seq(Usb!Handle) /\ Len(reads') = 0
      /\ is_hid_data_received' \in BOOLEAN
  BY <1>1, Ended
<1>3. Len(reads') \in 0 .. 2
  BY <1>2
<1>4. Usb!TypeOK'
  <2>1. usb_state' \in Usb!State /\ bus' \in Usb!Bus
    BY <1>1 DEF Usb!State, Usb!Bus
  <2>2. is_device_configured' \in BOOLEAN /\ interrupted' \in BOOLEAN
    BY <1>1, Zenon
  <2> QED
    BY <1>1, <1>2, <1>3, <2>1, <2>2, UsbTypes, TypedAgain, Zenon
<1>5. UsbReads'
  <2>1. Len(reads') <= 2 /\ Len(reads') # 2
    BY <1>2
  <2> QED
    BY <1>2, <2>1, Zenon DEF UsbReads
<1>6. UsbBus'
  BY <1>1 DEF UsbBus
<1>7. Usb!MainTaskListens'
  BY <1>1 DEF Usb!MainTaskListens
<1> QED
  BY <1>4, <1>5, <1>6, <1>7 DEF UsbInv

LEMMA RemovedStep == UsbInv /\ Usb!PowerRemoved => UsbInv'
<1> SUFFICES ASSUME UsbInv, Usb!PowerRemoved PROVE UsbInv'
  OBVIOUS
<1>1. /\ bus' = "detached" /\ Usb!ReadsEnd
      /\ usb_state' = usb_state /\ at' = at
      /\ is_device_configured' = is_device_configured
      /\ UNCHANGED <<is_hid_data_transmitted, idle_rate>>
      /\ rx_transfer_handle' = rx_transfer_handle
      /\ last_handle' = last_handle /\ interrupted' = interrupted
  BY DEF Usb!PowerRemoved
<1>2. /\ reads' = << >> /\ reads' \in Seq(Usb!Handle) /\ Len(reads') = 0
      /\ is_hid_data_received' \in BOOLEAN
  BY <1>1, Ended
<1>3. Len(reads') \in 0 .. 2
  BY <1>2
<1>4. Usb!TypeOK'
  <2>1. bus' \in Usb!Bus
    BY <1>1 DEF Usb!Bus
  <2> QED
    BY <1>1, <1>2, <1>3, <2>1, UsbTypes, TypedAgain, Zenon
<1>5. UsbReads'
  <2>1. Len(reads') <= 2 /\ Len(reads') # 2
    BY <1>2
  <2> QED
    BY <1>2, <2>1, Zenon DEF UsbReads
<1>6. UsbBus'
  BY <1>1 DEF UsbBus
<1>7. Usb!MainTaskListens'
  BY <1>1 DEF Usb!MainTaskListens
<1> QED
  BY <1>4, <1>5, <1>6, <1>7 DEF UsbInv

LEMMA ReportStep == UsbInv /\ Usb!ReportReceived => UsbInv'
<1> SUFFICES ASSUME UsbInv, Usb!ReportReceived PROVE UsbInv'
  OBVIOUS
<1>1. /\ reads # << >>
      /\ usb_state' = usb_state /\ at' = at /\ bus' = bus
      /\ is_device_configured' = is_device_configured
      /\ UNCHANGED <<is_hid_data_transmitted, idle_rate>>
      /\ rx_transfer_handle' = rx_transfer_handle
      /\ last_handle' = last_handle /\ interrupted' = interrupted
  BY DEF Usb!ReportReceived
<1>2. /\ reads' \in Seq(Usb!Handle) /\ Len(reads') = Len(reads) - 1
      /\ Len(reads') \in 0 .. 1
      /\ is_hid_data_received' \in BOOLEAN
      /\ reads' # << >> => rx_transfer_handle = reads'[Len(reads')]
      /\ reads' = << >> => is_hid_data_received'
      /\ reads' # << >> /\ at = "receive" => ~is_hid_data_received'
  BY Reported
<1>3. Len(reads') \in 0 .. 2 /\ Len(reads') <= 2 /\ Len(reads') # 2
  BY <1>2, Few, Zenon
<1>4. Usb!TypeOK'
  BY <1>1, <1>2, <1>3, UsbTypes, TypedAgain, Zenon
<1>5. UsbReads'
  <2>1. bus # "configured" => reads' = << >>
    BY <1>1, Zenon DEF UsbInv, UsbReads
  <2>2. at \in {"report", "receive"} => usb_state = "main_task"
    BY <1>1, Zenon DEF UsbInv, UsbReads
  <2> QED
    BY <1>1, <1>2, <1>3, <2>1, <2>2, Zenon DEF UsbReads
<1>6. UsbBus'
  BY <1>1, Zenon DEF UsbInv, UsbBus
<1>7. Usb!MainTaskListens'
  BY <1>1, <1>2, LastIsPending DEF Usb!MainTaskListens, Usb!Pending
<1> QED
  BY <1>4, <1>5, <1>6, <1>7 DEF UsbInv

(* The device starts without a host.                                       *)
LEMMA UsbStarts ==
  /\ Usb!Init => UsbInv
  /\ Usb!PowerCycle => UsbInv'
<1>1. /\ << >> \in Seq(Usb!Handle)
      /\ Len(<< >>) = 0 /\ Len(<< >>) <= 2 /\ Len(<< >>) # 2
      /\ Len(<< >>) \in 0 .. 2
  BY EmptySeq
<1>2. Len(<< >>) <= QueueDepth
  BY <1>1, TwoFit
<1>3. Usb!Invalid \in Usb!Handle \cup {Usb!Invalid}
  OBVIOUS
<1>4. "init" \in Usb!State /\ "poll" \in Usb!At /\ "detached" \in Usb!Bus
      /\ TRUE \in BOOLEAN /\ FALSE \in BOOLEAN
  BY DEF Usb!State, Usb!At, Usb!Bus
<1>5. ASSUME Usb!Init PROVE UsbInv
  <2>1. Usb!TypeOK
    BY <1>1, <1>2, <1>3, <1>4, <1>5, Zenon DEF Usb!Init, Usb!TypeOK
  <2>2. UsbReads
    BY <1>1, <1>5, Zenon DEF Usb!Init, UsbReads
  <2>3. UsbBus /\ Usb!MainTaskListens
    BY <1>5 DEF Usb!Init, UsbBus, Usb!MainTaskListens
  <2> QED
    BY <2>1, <2>2, <2>3 DEF UsbInv
<1>6. ASSUME Usb!PowerCycle PROVE UsbInv'
  <2>1. Usb!TypeOK'
    BY <1>1, <1>2, <1>3, <1>4, <1>6, Zenon DEF Usb!PowerCycle, Usb!TypeOK
  <2>2. UsbReads'
    BY <1>1, <1>6, Zenon DEF Usb!PowerCycle, UsbReads
  <2>3. UsbBus' /\ Usb!MainTaskListens'
    BY <1>6 DEF Usb!PowerCycle, UsbBus, Usb!MainTaskListens
  <2> QED
    BY <2>1, <2>2, <2>3 DEF UsbInv
<1> QED
  BY <1>5, <1>6

LEMMA UsbPolls == UsbInv /\ Usb!APP_USB_HID_Tasks => UsbInv'
<1> SUFFICES ASSUME UsbInv, Usb!APP_USB_HID_Tasks PROVE UsbInv'
  OBVIOUS
<1> USE DEF UsbInv, Usb!TypeOK, UsbReads, UsbBus, Usb!MainTaskListens,
            Usb!State, Usb!At, Usb!Bus, Usb!data_vars, Usb!ext_vars,
            Usb!Pending
<1>1. CASE Usb!Open
  BY <1>1 DEF Usb!Open
<1>2. CASE Usb!SeeConfigured
  BY <1>2 DEF Usb!SeeConfigured
<1>3. CASE Usb!EnterMainTask
  BY <1>3 DEF Usb!EnterMainTask
<1>4. CASE Usb!LeaveMainTask
  BY <1>4 DEF Usb!LeaveMainTask
<1>5. CASE Usb!SeeReport
  BY <1>5 DEF Usb!SeeReport
<1>6. CASE Usb!TakeReport
  BY <1>6 DEF Usb!TakeReport
<1>7. CASE Usb!Receive
  BY <1>7, ReceiveStep, Zenon
<1> QED
  BY <1>1, <1>2, <1>3, <1>4, <1>5, <1>6, <1>7 DEF Usb!APP_USB_HID_Tasks

LEMMA UsbInterrupted == UsbInv /\ Usb!Interrupt => UsbInv'
<1> SUFFICES ASSUME UsbInv, Usb!Interrupt PROVE UsbInv'
  OBVIOUS
<1> USE DEF UsbInv, Usb!TypeOK, UsbReads, UsbBus, Usb!MainTaskListens,
            Usb!State, Usb!At, Usb!Bus, Usb!data_vars, Usb!ext_vars,
            Usb!Pending
<1>1. CASE Usb!DeviceReset
  BY <1>1, ResetStep
<1>2. CASE Usb!DeviceConfigured
  BY <1>2 DEF Usb!DeviceConfigured
<1>3. CASE Usb!PowerDetected
  BY <1>3 DEF Usb!PowerDetected
<1>4. CASE Usb!PowerRemoved
  BY <1>4, RemovedStep
<1>5. CASE Usb!ReportReceived
  BY <1>5, ReportStep
<1>6. ASSUME NEW rate \in IdleRates, Usb!SetIdle(rate) PROVE UsbInv'
  BY <1>6 DEF Usb!SetIdle
<1> QED
  BY <1>1, <1>2, <1>3, <1>4, <1>5, <1>6 DEF Usb!Interrupt

LEMMA UsbStep == UsbInv /\ [Next]_vars => UsbInv'
<1> SUFFICES ASSUME UsbInv, [Next]_vars PROVE UsbInv'
  OBVIOUS
<1>1. CASE UNCHANGED usb_vars
  BY <1>1 DEF usb_vars, UsbInv, Usb!TypeOK, UsbReads, UsbBus,
       Usb!MainTaskListens, Usb!Pending
<1>2. CASE UsbTasks
  BY <1>2, UsbPolls DEF UsbTasks
<1>3. CASE UsbInterrupt
  BY <1>3, UsbInterrupted DEF UsbInterrupt
<1>4. CASE PowerCycle
  BY <1>4, UsbStarts DEF PowerCycle
<1> QED
  BY <1>1, <1>2, <1>3, <1>4
     DEF Next, vars, StartUpStep, Loop, FlashTasks, FlashDriverReady,
         APP_Command_Task_Tasks, Type
-----------------------------------------------------------------------------
(* Everything together.                                                    *)
LEMMA InitIInv == Init => IInv
<1> SUFFICES ASSUME Init PROVE IInv
  OBVIOUS
<1>1. StartInv
  BY StartsOver DEF Init
<1>2. FlashInv
  BY DEF Init, Flash!Init, FlashInv, Flash!TypeOK, Flash!State, Flash!Volume,
         TaskState
<1>3. UsbInv
  BY UsbStarts DEF Init
<1> QED
  BY <1>1, <1>2, <1>3 DEF IInv

LEMMA Invariance == Spec => []IInv
<1>1. IInv /\ [Next]_vars => IInv'
  BY StartStep, FlashStep, UsbStep DEF IInv
<1> QED
  BY <1>1, InitIInv, PTL DEF Spec

(* Every variable of the platform keeps its type, whatever fails, whoever  *)
(* plugs in or types, and whenever the power is cut.                       *)
THEOREM TypeCorrect == Spec => []TypeOK
<1>1. IInv => TypeOK
  <2> SUFFICES ASSUME IInv PROVE TypeOK
    OBVIOUS
  <2>1. Flash!TypeOK /\ Usb!TypeOK
        /\ task_state \in TaskState /\ callback \in FlashCommand \cup {NoCallback}
    BY DEF IInv, FlashInv, UsbInv
  <2>2. ready \subseteq {Boot!SysObj[i] : i \in DOMAIN Boot!SysObj}
    <3>1. DOMAIN Boot!SysObj = 1 .. 14
      BY Modules
    <3> QED
      BY <3>1 DEF IInv, StartInv, Started, Before
  <2>3. Boot!TypeOK
    BY <2>2, StatementAt
       DEF IInv, StartInv, StartType, StartFlags, Boot!TypeOK, Boot!Level
  <2> QED
    BY <2>1, <2>3 DEF TypeOK
<1> QED
  BY <1>1, Invariance, PTL

(* Interrupts only come once every handler has a driver to work on, and    *)
(* the drivers are told the true frequency (SYS_Initialize).               *)
THEOREM HandlersReady == Spec => []HandlersFindDrivers
<1>1. IInv => HandlersFindDrivers
  <2> SUFFICES ASSUME IInv PROVE HandlersFindDrivers
    OBVIOUS
  <2> USE DEF IInv, StartInv, StartType, StartFlags, Started
  <2>1. interrupts => Boot!Handled \subseteq ready /\ locked
    <3>1. \A i \in 1 .. 14 : Boot!SysObj[i] \in Before(21)
      BY DEF Before
    <3>2. Boot!Handled \subseteq Before(21)
      BY <3>1 DEF Boot!Handled, Boot!SysObj
    <3> QED
      BY <3>2, AllBefore
  <2>2. Boot!SystemClock = 80
    BY DEF Boot!SystemClock
  <2> QED
    BY <2>1, <2>2
       DEF HandlersFindDrivers, Boot!HandlersFindDrivers, Boot!WaitStates,
           Boot!SYS_CLK_PeripheralFrequencyGet, Boot!SYS_CLK_BUS_PERIPHERAL_1
<1> QED
  BY <1>1, Invariance, PTL

(* The high voltage comes on for the command of the user, and for nothing  *)
(* else (SYS_PORTS_Initialize, APP_Power_Enable).                          *)
THEOREM NoVoltageUnasked == Spec => HighVoltageIsAskedFor
<1>1. ASSUME IInv, Next, Boot!HighVoltage', ~Boot!HighVoltage
      PROVE  Loop(Type("hv_enable"))
  <2>0. hv_output' /\ hv_en' = 0 /\ (hv_output => hv_en # 0)
    BY <1>1 DEF Boot!HighVoltage
  <2> USE DEF IInv, StartInv, StartType, StartFlags, HighVoltageOff
  <2>1. ~PowerCycle
    BY <2>0 DEF PowerCycle, Boot!Reset
  <2>2. ~StartUpStep
    <3> SUFFICES ASSUME StartUpStep PROVE FALSE
      OBVIOUS
    <3>1. StartInv'
      BY <1>1, StartUpSteps DEF StartUpStep
    <3>2. step' = step + 1 /\ step \in 1 .. 22
      BY StatementAt DEF StartUpStep, Boot!Next, Boot!Reach,
         Boot!SYS_DEVCON_SystemUnlock, Boot!SYS_CLK_Initialize,
         Boot!SYS_DEVCON_SystemLock, Boot!SYS_DEVCON_PerformanceConfig,
         Boot!PLIB_PORTS_Write, Boot!PLIB_PORTS_DirectionOutputSet,
         Boot!InitializeModule, Boot!SYS_INT_Enable, Boot!APP_Initialize_Real
    <3>3. step' > 6
      BY <2>0, <3>1
    <3>4. step \in 6 .. 22
      BY <3>2, <3>3
    <3>5. hv_en = 1 /\ step # 5
      BY <3>4, <1>1
    <3>6. ~Boot!PLIB_PORTS_Write
      BY <3>5, <1>1, Reached DEF Boot!PLIB_PORTS_Write
    <3>7. hv_en' = hv_en
      BY <3>6
         DEF StartUpStep, Boot!Next, Boot!SYS_DEVCON_SystemUnlock,
         Boot!SYS_CLK_Initialize, Boot!SYS_DEVCON_SystemLock,
         Boot!SYS_DEVCON_PerformanceConfig,
         Boot!PLIB_PORTS_DirectionOutputSet, Boot!InitializeModule,
         Boot!SYS_INT_Enable, Boot!APP_Initialize_Real, Boot!pin_vars
    <3> QED
      BY <2>0, <3>5, <3>7
  <2>3. ASSUME UNCHANGED <<boot_vars, pin_vars>> PROVE FALSE
    BY <2>0, <2>3 DEF boot_vars, pin_vars
  <2>4. PICK command \in Typed : Loop(Type(command))
    BY <1>1, <2>1, <2>2, <2>3, OtherPins DEF Next, Loop
  <2>5. hv_en # 0 /\ hv_output
    BY <2>0, <2>4 DEF Loop, boot_vars
  <2>6. command = "hv_enable"
    <3>1. hv_en \in {0, 1} /\ eth_nrst \in {0, 1} /\ Type(command)
      BY <1>1, <2>4 DEF Loop
    <3> QED
      BY <2>0, <2>5, <3>1, TypedPins
  <2> QED
    BY <2>4, <2>6
<1>2. IInv /\ [Next]_vars
        => [Boot!HighVoltage' /\ ~Boot!HighVoltage
              => Loop(Type("hv_enable"))]_vars
  BY <1>1
<1> QED
  BY <1>2, Invariance, PTL DEF Spec, HighVoltageIsAskedFor

(* No report is lost, and a configured device always has a read pending,   *)
(* wherever in a poll an event comes, apart from a reset that hits the     *)
(* very poll that enters the main task (app_usb_hid.c).                    *)
THEOREM UsbHears == Spec => []UsbListens
<1>1. IInv => UsbListens
  BY DEF IInv, UsbInv, UsbListens
<1> QED
  BY <1>1, Invariance, PTL

(* Only the user's format command destroys files (APP_Flash_Tasks).        *)
THEOREM FilesSafe == Spec => FilesAreSafe
<1>1. IInv /\ [Next]_vars
        => [volume = "files" /\ volume' # "files"
              => task_state = "wait_available"
                 /\ callback = "flash_format"]_vars
  <2> SUFFICES ASSUME IInv, Next, volume = "files", volume' # "files"
               PROVE  task_state = "wait_available" /\ callback = "flash_format"
    OBVIOUS
  <2>1. ~StartUpStep /\ ~PowerCycle /\ ~Loop(UsbTasks) /\ ~Loop(UsbInterrupt)
        /\ ~Loop(FlashDriverReady) /\ \A command : ~Loop(Type(command))
    BY DEF StartUpStep, PowerCycle, Flash!PowerCycle, Loop, UsbTasks,
           UsbInterrupt, FlashDriverReady, Flash!DriverReady, Type, flash_vars
  <2>2. ~Loop(FlashTasks)
    BY DEF Loop, FlashTasks, Flash!APP_Flash_Tasks, Flash!Wait,
           Flash!MountDisk, Flash!RegisterMedia, Flash!EnsureFormatted,
           Flash!Format, Flash!vars, IInv, FlashInv
  <2>3. APP_Command_Task_Tasks
    BY <2>1, <2>2 DEF Next, Loop
  <2> QED
    BY <2>3 DEF APP_Command_Task_Tasks, Invoke, performFlashSectors,
       performFlashFormat, Flash!APP_Flash_DriveSectorGet, Flash!vars, flash_vars
<1> QED
  BY <1>1, Invariance, PTL DEF Spec, FilesAreSafe
=============================================================================
