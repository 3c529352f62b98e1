--------------------------- MODULE RealTimeClock ---------------------------
(***************************************************************************)
(* The real time clock: the driver of the MCP7940N chip                    *)
(* (src/firmware/src/rtc_mcp7940n.c) and the "rtc" console command         *)
(* (src/firmware/src/app_command_rtc.c), which is its only user.           *)
(*                                                                         *)
(* A byte is the set of its bits which are one, so that & and | are the    *)
(* intersection and the union.  Two unions of the code matter, and are     *)
(* arrays of bytes here: in both, what one request leaves behind is read   *)
(* by another one.  The I2C bus and the chip are external: a transfer ends *)
(* at any time, completely or with an error after any number of bytes, and *)
(* the clock advances while the oscillator runs: seconds carry into the    *)
(* minutes, these into the hours, and midnight into the calendar.  The     *)
(* chip's mode of twelve hours is left out.                                *)
(*                                                                         *)
(* The main loop polls the driver before the command task; here either may *)
(* be polled at any time, which includes what the loop does.               *)
(***************************************************************************)
EXTENDS Integers, Sequences

CONSTANTS
  NumRegisters,      \* RTC_MCP7940N_NUM_REGISTERS, scaled down
  InitialRegisters,  \* what the chip may hold at power on
  Dates,             \* dates dateDecode accepts
  Addresses, Values, \* arguments of "register read" and "register write"
  Pointer,           \* the bytes of the address of the storage of the command
  Partial,           \* bound: bytes of a transfer that are moved before an error
  TickingSeconds,    \* bound: the seconds at which the clock advances
  MaxCommands        \* bound: commands between two losses of power

Bit == 0 .. 7
Byte == SUBSET Bit
Register == 0 .. NumRegisters - 1

Low(n) == 0 .. n - 1
Bits(n) == {i \in Bit : (n \div 2^i) % 2 = 1}
Number(byte) ==
  LET bit(i) == IF i \in byte THEN 2^i ELSE 0
  IN  bit(0) + bit(1) + bit(2) + bit(3) + bit(4) + bit(5) + bit(6) + bit(7)

\* A date is <<second, minute, hour, day of week, day, month, year>>, with
\* days of the week and months counted from 0 as in the tables of the command.
Field == 1 .. 7

ASSUME RtcAssumption ==
  /\ NumRegisters \in 8 .. 31
  /\ InitialRegisters \subseteq [Register -> Byte]
  /\ \A date \in Dates :
       /\ date \in Seq(Nat) /\ Len(date) = 7
       /\ date[1] <= 59 /\ date[2] <= 59 /\ date[3] <= 24 /\ date[4] <= 6
       /\ date[5] <= 31 /\ date[6] <= 11 /\ date[7] \in 2001 .. 2399
  /\ Addresses \subseteq Register
  /\ Values \subseteq Byte
  /\ Pointer \in [0 .. 3 -> Byte]
  /\ Partial \subseteq Nat
  /\ MaxCommands \in Nat
  /\ TickingSeconds \subseteq 0 .. 59

VARIABLES
  state,         \* RTC_MCP7940N_State
  next_task,     \* RTC_MCP7940N_NextTask
  private,       \* the first eight bytes of the union RTC_MCP7940N::_private
  date_time,     \* date_time_write.date_time in the same union
  transfer,      \* external: the last transfer requested from the bus
  registers,     \* external: the registers of the chip
  task_state,    \* AppCommandTaskData::state
  command,       \* the command it holds
  storage,       \* bytes of the union AppCommandRTCData::_private
  clean,         \* history: no error and no task of an earlier command so far
  last_set,      \* history: the date set by the last command that set one
  kept,          \* history: its fields the clock has not advanced since
  advanced,      \* history: fields it has advanced since the command was typed
  entered        \* history: number of commands since power on

driver_vars == <<state, next_task, private, date_time>>
task_vars == <<task_state, command, storage>>
history_vars == <<clean, last_set, kept, advanced, entered>>
vars == <<driver_vars, transfer, registers, task_vars, history_vars>>

Task == {"none", "osc_enable", "osc_disable", "osc_status", "bat_enable",
         "bat_disable", "bat_status", "convert_bcd", "update_and_transmit"}

NoCommand == [op |-> "none"]
appCmdRTCOscillator == [op : {"osc_enable", "osc_disable", "osc_status"}]
appCmdRTCBattery == [op : {"bat_enable", "bat_disable", "bat_status"}]
appCmdRTCDate == [op : {"date_show"}] \union [op : {"date_set"}, date : Dates]
appCmdRTCDump == [op : {"dump"}]
appCmdRTCRegister ==
  [op : {"register_read"}, address : Addresses]
    \union [op : {"register_write"}, address : Addresses, value : Values]

\* What is typed: the subcommands with arguments that parse.
Command == appCmdRTCOscillator \union appCmdRTCBattery \union appCmdRTCDate
             \union appCmdRTCDump \union appCmdRTCRegister

NoDate == << >>
NoTransfer == [status |-> "none", kind |-> "none", address |-> 0, size |-> 0,
               offset |-> 0, bytes |-> << >>]

Init ==
  /\ state = "none" /\ next_task = "none"
  /\ private = [i \in 0 .. 7 |-> {}]
  /\ date_time = [i \in Field |-> 0]
  /\ transfer = NoTransfer
  /\ registers \in InitialRegisters
  /\ task_state = "none" /\ command = NoCommand
  /\ storage = [r \in Register |-> {}]
  /\ clean = TRUE /\ last_set = NoDate /\ entered = 0
  /\ kept = {} /\ advanced = {}

-----------------------------------------------------------------------------
(* Binary coded decimals.                                                  *)

convertToBCD(decimal) == Bits(16 * (decimal \div 10)) \union Bits(decimal % 10)

\* Mutant: taken as a binary number.
convertFromBCD_Binary(bcd) == Number(bcd)

convertFromBCD(bcd) == 10 * (Number(bcd) \div 16) + (Number(bcd) % 16)

\* Bits of the registers 0 .. 6 the code takes for the fields of a date.
Mask == <<Low(7), Low(7), Low(6), Low(3), Low(6), Low(4), Low(8)>>

\* Bits the chip takes for them: a month has two digits.
FieldBits(i) == IF i = 6 THEN Low(5) ELSE Mask[i]

-----------------------------------------------------------------------------
(* The bus.                                                                *)

\* The transfer a driver request starts, unless the bus refuses it or one is
\* still under way: then the driver is in error.
Transfer(request) ==
  \/ /\ transfer.status # "pending"
     /\ transfer' = request
     /\ state' = "status_check"
  \/ /\ transfer' = IF transfer.status = "pending" THEN transfer ELSE NoTransfer
     /\ state' = "error"

i2c_transmit(address, bytes) ==
  Transfer([status |-> "pending", kind |-> "write", address |-> address,
            size |-> Len(bytes), offset |-> 0, bytes |-> bytes])

\* The bytes go to the union of the driver or to the storage of the command.
i2c_transmitThenReceive(address, size, where, offset) ==
  Transfer([status |-> "pending", kind |-> where, address |-> address,
            size |-> size, offset |-> offset, bytes |-> << >>])

\* The effect of the first n bytes of a transfer.
Move(n) ==
  LET received(memory) ==
        [i \in DOMAIN memory |->
           IF i - transfer.offset \in 0 .. n - 1
           THEN registers[transfer.address + i - transfer.offset] ELSE memory[i]]
  IN  /\ registers' =
           IF transfer.kind = "write"
           THEN [r \in Register |-> IF r - transfer.address \in 0 .. n - 1
                                    THEN transfer.bytes[r - transfer.address + 1]
                                    ELSE registers[r]]
           ELSE registers
      /\ private' = IF transfer.kind = "private" THEN received(private) ELSE private
      /\ storage' = IF transfer.kind = "storage" THEN received(storage) ELSE storage

TransferCompletes ==
  /\ transfer.status = "pending"
  /\ Move(transfer.size)
  /\ transfer' = [transfer EXCEPT !.status = "complete"]
  /\ UNCHANGED <<state, next_task, date_time, task_state, command, history_vars>>

TransferFails ==
  /\ transfer.status = "pending"
  /\ \E n \in Partial : n <= transfer.size /\ Move(n)
  /\ transfer' = [transfer EXCEPT !.status = "error"]
  /\ UNCHANGED <<state, next_task, date_time, task_state, command, history_vars>>

\* The clock of the chip.  Its months and days of the week begin with 1.
Now(i) ==
  LET bcd == Number(registers[i - 1] \intersect FieldBits(i))
  IN  10 * (bcd \div 16) + (bcd % 16)

\* How far a second that passes carries.  What the last day of a month is is
\* left to the chip, and what it makes of a month the code has counted from 0.
Carries ==
  CASE Now(1) < 59 -> {1}
    [] Now(1) >= 59 /\ Now(2) < 59 -> {2}
    [] Now(1) >= 59 /\ Now(2) >= 59 /\ Now(3) < 23 -> {3}
    [] OTHER ->
         (IF Now(5) < 31 THEN {5} ELSE {})
           \union (IF Now(5) < 28 THEN {} ELSE IF Now(6) = 12 THEN {7} ELSE {6})

\* A field after a carry up to the last of them: those before it begin again.
Advanced(i, last) ==
  CASE i = 4 -> (Now(4) % 7) + 1
    [] i # 4 /\ i < last -> <<0, 0, 0, 1, 1, 1>>[i]
    [] i # 4 /\ i >= last -> (Now(i) + 1) % 100

ClockTicks ==
  /\ 7 \in registers[0] /\ Now(1) \in TickingSeconds
  /\ \E last \in Carries :
       /\ registers' =
            [r \in Register |->
               IF r < last
               THEN (registers[r] \ FieldBits(r + 1))
                      \union (convertToBCD(Advanced(r + 1, last)) \intersect FieldBits(r + 1))
               ELSE registers[r]]
       /\ kept' = kept \ (1 .. last)
       /\ advanced' = advanced \union (1 .. last)
  /\ UNCHANGED <<driver_vars, transfer, task_vars, clean, last_set, entered>>

-----------------------------------------------------------------------------
(* The driver.                                                             *)

ReadRegister(address) ==
  /\ private' = [private EXCEPT ![0] = Bits(address)]
  /\ i2c_transmitThenReceive(address, 1, "storage", 1)
  /\ UNCHANGED <<next_task, date_time>>

WriteRegister(address, value) ==
  /\ private' = [private EXCEPT ![0] = Bits(address), ![1] = value]
  /\ i2c_transmit(address, <<value>>)
  /\ UNCHANGED <<next_task, date_time>>

ReadNumRegisters ==
  /\ private' = [private EXCEPT ![0] = {}]
  /\ i2c_transmitThenReceive(0, NumRegisters, "storage", 0)
  /\ UNCHANGED <<next_task, date_time>>

\* Both pointers the driver keeps in its union lead to the storage.
Pointing(memory, offset) ==
  [i \in 0 .. 7 |-> IF i - offset \in 0 .. 3 THEN Pointer[i - offset] ELSE memory[i]]

PointsToStorage(offset) == \A i \in 0 .. 3 : private[i + offset] = Pointer[i]

\* The register of the flag is read first.
EnableFlag(task, address) ==
  /\ next_task' = task
  /\ private' = [private EXCEPT ![1] = Bits(address)]
  /\ i2c_transmitThenReceive(address, 1, "private", 0)
  /\ UNCHANGED date_time

EnableOscillator(enable) ==
  EnableFlag(IF enable THEN "osc_enable" ELSE "osc_disable", 0)
EnableBatteryBackup(enable) ==
  EnableFlag(IF enable THEN "bat_enable" ELSE "bat_disable", 3)

FlagStatus(task, address) ==
  /\ next_task' = task
  /\ private' = Pointing(private, 4)
  /\ i2c_transmitThenReceive(address, 1, "private", 0)
  /\ UNCHANGED date_time

OscillatorStatus == FlagStatus("osc_status", 0)
BatteryBackupStatus == FlagStatus("bat_status", 3)

ReadDateAndTime ==
  /\ next_task' = "convert_bcd"
  /\ private' = Pointing([private EXCEPT ![4] = {}], 0)
  /\ i2c_transmitThenReceive(0, 7, "storage", 0)
  /\ UNCHANGED date_time

WriteDateAndTime(date) ==
  /\ next_task' = "update_and_transmit"
  /\ date_time' = date
  /\ private' = [private EXCEPT ![0] = {}]
  /\ i2c_transmitThenReceive(0, 7, "private", 1)

TransmitFlag(address, flag, enable) ==
  LET register_value == IF enable THEN private[0] \union {flag} ELSE private[0] \ {flag}
  IN  /\ private' = [private EXCEPT ![1] = Bits(address), ![2] = register_value]
      /\ i2c_transmit(address, <<register_value>>)
      /\ UNCHANGED <<date_time, storage>>

task_oscillator_enableOrDisable(enable) == TransmitFlag(0, 7, enable)
task_battery_enableOrDisable(enable) == TransmitFlag(3, 3, enable)

\* The state is left to the next poll.
ReturnFlag(flag) ==
  /\ storage' = IF PointsToStorage(4)
                THEN [storage EXCEPT ![0] = IF flag \in private[0] THEN {0} ELSE {}]
                ELSE storage
  /\ UNCHANGED <<state, private, date_time, transfer>>

task_oscillator_postStatusReceive == ReturnFlag(7)
task_battery_postStatusReceive == ReturnFlag(3)

\* Mutant: the other bits of the register are lost.
Updated_AllBits(i) == convertToBCD(date_time[i])

\* Register i - 1 with the bits of a field of a date replaced.
Updated(i) == (private[i] \ Mask[i]) \union convertToBCD(date_time[i])

task_datetime_convertToBCDAndTransmit ==
  LET bytes == [i \in Field |-> Updated(i)]
  IN  /\ private' = [i \in 0 .. 7 |-> IF i = 0 THEN {} ELSE bytes[i]]
      /\ i2c_transmit(0, bytes)
      /\ UNCHANGED <<date_time, storage>>

\* The pointer to the date shares its bytes with what the requests of single
\* registers send: after one of those the conversion happens in other memory.
task_datetime_convertFromBCD ==
  /\ state' = "none"
  /\ storage' = [r \in Register |->
                   IF r < 7 /\ PointsToStorage(0)
                   THEN Bits(convertFromBCD(storage[r] \intersect Mask[r + 1]))
                   ELSE storage[r]]
  /\ UNCHANGED <<private, date_time, transfer>>

NextTask ==
  \/ /\ next_task = "none" /\ state' = "none"
     /\ UNCHANGED <<private, date_time, transfer, storage>>
  \/ next_task = "osc_enable"  /\ task_oscillator_enableOrDisable(TRUE)
  \/ next_task = "osc_disable" /\ task_oscillator_enableOrDisable(FALSE)
  \/ next_task = "osc_status"  /\ task_oscillator_postStatusReceive
  \/ next_task = "bat_enable"  /\ task_battery_enableOrDisable(TRUE)
  \/ next_task = "bat_disable" /\ task_battery_enableOrDisable(FALSE)
  \/ next_task = "bat_status"  /\ task_battery_postStatusReceive
  \/ next_task = "convert_bcd" /\ task_datetime_convertFromBCD
  \/ next_task = "update_and_transmit" /\ task_datetime_convertToBCDAndTransmit

\* Mutant: a failed transfer is waited for.
RTC_MCP7940N_Tasks_IgnoresErrors ==
  /\ state = "status_check" /\ transfer.status = "complete"
  /\ NextTask
  /\ next_task' = "none"
  /\ clean' = (clean /\ state' # "error")
  /\ UNCHANGED <<registers, task_state, command, last_set, kept, advanced, entered>>

\* The task is not cleared when the transfer before it has failed.
RTC_MCP7940N_Tasks ==
  /\ state = "status_check"
  /\ \/ /\ transfer.status = "complete"
        /\ NextTask
        /\ next_task' = "none"
     \/ /\ transfer.status = "error"
        /\ state' = "error"
        /\ UNCHANGED <<next_task, private, date_time, transfer, storage>>
  /\ clean' = (clean /\ state' # "error")
  /\ UNCHANGED <<registers, task_state, command, last_set, kept, advanced, entered>>

RTC_MCP7940N_IsBusy == state = "status_check"

-----------------------------------------------------------------------------
(* The command.                                                            *)

DecodedDate(date) == [i \in Field |-> IF i = 7 THEN (date[7] - 2000) % 256 ELSE date[i]]

APP_Command_RTC(c) ==
  /\ task_state = "none" /\ entered < MaxCommands
  /\ entered' = entered + 1
  /\ task_state' = "wait_available"
  /\ command' = c
  /\ storage' =
       CASE c.op = "date_set" ->
              [r \in Register |-> IF r < 7 THEN Bits(DecodedDate(c.date)[r + 1]) ELSE storage[r]]
         [] c.op = "register_read" -> [storage EXCEPT ![0] = Bits(c.address)]
         [] c.op = "register_write" ->
              [storage EXCEPT ![0] = Bits(c.address), ![1] = c.value]
         [] OTHER -> storage
  /\ advanced' = {}
  /\ UNCHANGED <<driver_vars, transfer, registers, clean, last_set, kept>>

performRTCOscillator ==
  \/ command.op = "osc_enable"  /\ EnableOscillator(TRUE)
  \/ command.op = "osc_disable" /\ EnableOscillator(FALSE)
  \/ command.op = "osc_status"  /\ OscillatorStatus

performRTCBattery ==
  \/ command.op = "bat_enable"  /\ EnableBatteryBackup(TRUE)
  \/ command.op = "bat_disable" /\ EnableBatteryBackup(FALSE)
  \/ command.op = "bat_status"  /\ BatteryBackupStatus

performRTCDate ==
  \/ command.op = "date_show" /\ ReadDateAndTime
  \/ command.op = "date_set" /\ WriteDateAndTime([i \in Field |-> Number(storage[i - 1])])

performRTCRegister ==
  \/ command.op = "dump" /\ ReadNumRegisters
  \/ command.op = "register_read"  /\ ReadRegister(command.address)
  \/ command.op = "register_write" /\ WriteRegister(command.address, command.value)

Invoke ==
  performRTCOscillator \/ performRTCBattery \/ performRTCDate \/ performRTCRegister

\* The commands which leave next_task as it is.
RegisterOps == {"dump", "register_read", "register_write"}

Stale == next_task # "none" /\ command.op \in RegisterOps

\* The command is invoked as soon as the clock is not busy, also when it is in
\* error, and ends when the clock is not busy any more, also with an error.
InvokeCommand ==
  /\ task_state = "wait_available" /\ ~RTC_MCP7940N_IsBusy
  /\ task_state' = "running"
  /\ Invoke
  /\ clean' = (state' # "error" /\ ~Stale)
  /\ UNCHANGED <<registers, command, storage, last_set, kept, advanced, entered>>

\* Mutant: the command does not wait for the end of the transfer.
EndCommand_AtOnce ==
  /\ task_state = "running"
  /\ task_state' = "none"
  /\ UNCHANGED <<driver_vars, transfer, registers, command, storage, history_vars>>

EndCommand ==
  /\ task_state = "running" /\ ~RTC_MCP7940N_IsBusy
  /\ task_state' = "none"
  /\ CASE clean /\ command.op = "date_set" ->
            last_set' = command.date /\ kept' = Field \ advanced
       [] clean /\ command.op \notin {"date_set", "register_write"} ->
            UNCHANGED <<last_set, kept>>
       [] OTHER -> last_set' = NoDate /\ kept' = {}
  /\ UNCHANGED <<driver_vars, transfer, registers, command, storage, clean, advanced,
                 entered>>

\* Power is lost, and the chip has no battery.
PowerCycle ==
  /\ task_state = "none" /\ entered = MaxCommands
  /\ registers' \in InitialRegisters
  /\ state' = "none" /\ next_task' = "none"
  /\ private' = [i \in 0 .. 7 |-> {}]
  /\ date_time' = [i \in Field |-> 0]
  /\ transfer' = NoTransfer
  /\ command' = NoCommand
  /\ storage' = [r \in Register |-> {}]
  /\ clean' = TRUE /\ last_set' = NoDate /\ entered' = 0
  /\ kept' = {} /\ advanced' = {}
  /\ UNCHANGED task_state

Next ==
  \/ TransferCompletes
  \/ TransferFails
  \/ ClockTicks
  \/ RTC_MCP7940N_Tasks
  \/ \E c \in Command : APP_Command_RTC(c)
  \/ InvokeCommand
  \/ EndCommand
  \/ PowerCycle

\* The loop polls driver and task forever, and a transfer ends some day.
Fairness ==
  /\ WF_vars(TransferCompletes \/ TransferFails)
  /\ WF_vars(RTC_MCP7940N_Tasks)
  /\ WF_vars(InvokeCommand) /\ WF_vars(EndCommand)

Spec == Init /\ [][Next]_vars /\ Fairness

-----------------------------------------------------------------------------
(* Properties.                                                             *)

\* The types of the variables; the clock is busy only for a running command,
\* and watches a transfer it has requested.
TypeOK ==
  /\ state = "status_check" => task_state = "running" /\ transfer.status # "none"
  /\ state \in {"none", "error", "status_check"}
  /\ next_task \in Task
  /\ private \in [0 .. 7 -> Byte]
  /\ date_time \in [Field -> 0 .. 255]
  /\ transfer.status \in {"none", "pending", "complete", "error"}
  /\ transfer.kind \in {"none", "write", "private", "storage"}
  /\ registers \in [Register -> Byte]
  /\ task_state \in {"none", "wait_available", "running"}
  /\ command \in Command \union {NoCommand}
  /\ storage \in [Register -> Byte]
  /\ clean \in BOOLEAN
  /\ last_set \in Dates \union {NoDate}
  /\ kept \subseteq Field /\ advanced \subseteq Field

\* While a transfer is under way, the driver watches it and the command that
\* asked for it waits; nobody asks for another one, so that "Unable to perform
\* I2C transmittance" of i2c_transmit and i2c_transmitThenReceive never comes.
TransfersDoNotOverlap ==
  [][transfer.status = "pending" =>
       /\ state = "status_check" /\ task_state = "running"
       /\ transfer' \in {[transfer EXCEPT !.status = end] :
                           end \in {"pending", "complete", "error"}}]_vars

\* Registers and bits a command may change.  task_oscillator_enableOrDisable
\* and task_battery_enableOrDisable write back a whole register they have read
\* before: what the chip has changed in between is lost.
Own(c) ==
  CASE c.op \in {"osc_enable", "osc_disable"} -> {0} \X Bit
    [] c.op \in {"bat_enable", "bat_disable"} -> {3} \X Bit
    [] c.op = "date_set" -> UNION {{i - 1} \X FieldBits(i) : i \in Field}
    [] c.op = "register_write" -> {c.address} \X Bit
    [] OTHER -> {}

\* A command writes nothing but its own registers, errors or not, and
\* task_datetime_convertToBCDAndTransmit preserves the bits that are no part of
\* a date; unless the task of an earlier command is run after its transfer.
WritesAreOwn ==
  [][transfer.status = "pending" /\ transfer' # transfer /\ (clean \/ command.op \notin RegisterOps) =>
       \A r \in Register, bit \in Bit :
         (bit \in registers[r]) # (bit \in registers'[r]) => <<r, bit>> \in Own(command)]_vars

\* Dates which survive: the code gives the month a decimal digit (Jan to Oct,
\* counted from 0) and the decade half a byte.
Representable(date) == date[6] <= 9 /\ date[7] < 2160

\* When a command has ended without an error, and no task of an earlier one was
\* run in its place, the flag is as asked, the register is as written, and what
\* it shows is what the chip holds; a date is shown as it was set, apart from
\* the fields the clock has advanced since and from day_of_week, which
\* rtc_mcp7940n.h says is ignored.
CommandsTakeEffect ==
  task_state = "none" /\ clean =>
    /\ command.op = "osc_enable"  => 7 \in registers[0]
    /\ command.op = "osc_disable" => 7 \notin registers[0]
    /\ command.op = "bat_enable"  => 3 \in registers[3]
    /\ command.op = "bat_disable" => 3 \notin registers[3]
    /\ command.op = "osc_status"  => (storage[0] # {}) = (7 \in registers[0])
    /\ command.op = "bat_status"  => (storage[0] # {}) = (3 \in registers[3])
    /\ command.op = "dump" =>
         \A r \in Register : r + 1 \notin advanced => storage[r] = registers[r]
    /\ command.op = "register_read" /\ command.address + 1 \notin advanced =>
         storage[1] = registers[command.address]
    /\ command.op = "register_write" /\ command.address + 1 \notin advanced =>
         registers[command.address] = command.value
    /\ command.op = "date_show" /\ last_set # NoDate /\ Representable(last_set) =>
         \A i \in kept \ {4} : storage[i - 1] = Bits(DecodedDate(last_set)[i])

\* Every command ends, whatever becomes of the transfers.
CommandsEnd == task_state # "none" ~> task_state = "none"

\* rtc_mcp7940n.h:288, "Schedule task for reading given register value.": a
\* command that reads does not write to the chip.
ReadsDoNotWrite ==
  [][task_state = "running" /\ command.op \in {"register_read", "dump"} =>
       transfer'.kind # "write"]_vars
=============================================================================
