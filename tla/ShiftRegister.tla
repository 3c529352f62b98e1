--------------------------- MODULE ShiftRegister ---------------------------
(***************************************************************************)
(* The shift register driver (app_shift_register.c) at the level of pin    *)
(* edges, together with the daisy-chained shift registers it drives.       *)
(*                                                                         *)
(* The pins are recorded as the levels the registers see: the macros of    *)
(* lines 45-65 undo the inverter between the controller and the chain, so  *)
(* PULL_UP is "high" at the register.  The chain is external hardware: a   *)
(* rising edge on SRCK shifts DATA into stage 0, a rising edge on RCK      *)
(* copies the chain to the output latches, and the outputs are driven      *)
(* while ~G is low.                                                        *)
(***************************************************************************)
EXTENDS Integers

CONSTANTS
  MaxData,      \* SHIFT_REGISTER_MAX_DATA: bytes of a transfer, registers
  Payloads,     \* the byte arrays callers hand to SendData
  PowerOn       \* what the chain and the latches may hold at power on

Byte  == [0..7 -> {0, 1}]        \* bit 0 is the least significant one
Data  == [0..MaxData-1 -> Byte]
Stage == 0..(8 * MaxData - 1)    \* stage 0 is next to the controller
Wire  == [Stage -> {0, 1}]

ASSUME ShiftRegisterAssumption ==
  /\ MaxData \in Nat \ {0}
  /\ Payloads \subseteq Data
  /\ PowerOn \subseteq Wire
  /\ Payloads # {} /\ PowerOn # {}

VARIABLES
  state,        \* AppShiftRegisterData::state
  data,         \* _private.send.data
  num_bytes,    \* _private.send.num_bytes
  current_byte, \* _private.send.current_byte
  current_bit,  \* _private.send.current_bit
  counter,      \* _private.send.counter
  DATA, SRCK, RCK, G,   \* pin levels, 1 is high; the outputs glow while G = 0
  chain,        \* external: the shift stages
  storage       \* external: the output latches

job_vars == <<data, num_bytes>>
pos_vars == <<current_byte, current_bit>>
vars == <<state, data, num_bytes, current_byte, current_bit, counter,
          DATA, SRCK, RCK, G, chain, storage>>

State == {"IDLE", "TRANSMIT_BEGIN", "TRANSMIT_STEP", "TRANSMIT_FINISH",
          "TRANSMIT_PAUSE"}

TypeOK ==
  /\ state \in State
  /\ data \in Data
  /\ num_bytes \in 1..MaxData
  /\ current_byte \in 0..MaxData
  /\ current_bit \in 0..8
  /\ counter \in {0, 1}
  /\ DATA \in {0, 1} /\ SRCK \in {0, 1} /\ RCK \in {0, 1} /\ G \in {0, 1}
  /\ chain \in Wire
  /\ storage \in Wire
-----------------------------------------------------------------------------
(* External hardware.                                                      *)

(* SRCK takes a level while DATA carries a bit: a rising edge shifts.      *)
DriveSRCK(level, bit) ==
  /\ SRCK' = level
  /\ chain' = IF SRCK = 0 /\ level = 1
              THEN [i \in Stage |-> IF i = 0 THEN bit ELSE chain[i - 1]]
              ELSE chain

(* RCK takes a level: a rising edge latches the chain.                     *)
DriveRCK(level) ==
  /\ RCK' = level
  /\ storage' = IF RCK = 0 /\ level = 1 THEN chain ELSE storage
-----------------------------------------------------------------------------
(* The driver.                                                             *)

(* APP_ShiftRegister_Initialize.                                           *)
Init ==
  /\ state = "IDLE"
  /\ data \in Payloads
  /\ num_bytes = MaxData
  /\ current_byte = 0 /\ current_bit = 0 /\ counter = 0
  /\ DATA = 0 /\ SRCK = 0 /\ RCK = 0 /\ G = 0
  /\ chain \in PowerOn
  /\ storage \in PowerOn

transmitBegin ==
  /\ state = "TRANSMIT_BEGIN"
  /\ current_byte' = 0 /\ current_bit' = 0 /\ counter' = 0
  /\ DATA' = 0
  /\ DriveRCK(0)
  /\ DriveSRCK(0, 0)
  /\ G' = 1
  /\ state' = "TRANSMIT_STEP"
  /\ UNCHANGED job_vars

(* Mutant: the falling edge is missing.                                    *)
transmitFall_NoEdge ==
  /\ state = "TRANSMIT_STEP" /\ counter = 1
  /\ current_bit' = current_bit + 1
  /\ counter' = 0
  /\ UNCHANGED <<state, job_vars, current_byte, DATA, SRCK, RCK, G, chain,
                 storage>>

(* transmitStep, second half of a bit: falling edge, go to the next bit.   *)
transmitFall ==
  /\ state = "TRANSMIT_STEP" /\ counter = 1
  /\ DriveSRCK(0, DATA)
  /\ current_bit' = current_bit + 1
  /\ counter' = 0
  /\ UNCHANGED <<state, job_vars, current_byte, DATA, RCK, G, storage>>

(* transmitStep at the end of a byte: pause, or finish after the last one. *)
transmitNextByte ==
  /\ state = "TRANSMIT_STEP" /\ counter = 0 /\ current_bit = 8
  /\ current_bit' = 0
  /\ current_byte' = current_byte + 1
  /\ state' = IF current_byte' = num_bytes THEN "TRANSMIT_FINISH"
                                           ELSE "TRANSMIT_PAUSE"
  /\ UNCHANGED <<job_vars, counter, DATA, SRCK, RCK, G, chain, storage>>

(* transmitStep, first half of a bit: set DATA, rising edge of SRCK.       *)
transmitRise ==
  /\ state = "TRANSMIT_STEP" /\ counter = 0 /\ current_bit < 8
  /\ DATA' = data[current_byte][7 - current_bit]
  /\ DriveSRCK(1, DATA')
  /\ counter' = counter + 1
  /\ UNCHANGED <<state, job_vars, pos_vars, RCK, G, storage>>

(* transmitFinish, first call: copy the chain to the latches.              *)
transmitLatch ==
  /\ state = "TRANSMIT_FINISH" /\ counter = 0
  /\ DriveRCK(1)
  /\ counter' = counter + 1
  /\ UNCHANGED <<state, job_vars, pos_vars, DATA, SRCK, G, chain>>

(* Mutant: the outputs stay off after the transfer.                        *)
transmitDone_StaysDark ==
  /\ state = "TRANSMIT_FINISH" /\ counter = 1
  /\ DriveRCK(0)
  /\ state' = "IDLE"
  /\ UNCHANGED <<job_vars, pos_vars, counter, DATA, SRCK, G, chain>>

(* transmitFinish, second call: outputs on, transfer over.                 *)
transmitDone ==
  /\ state = "TRANSMIT_FINISH" /\ counter = 1
  /\ DriveRCK(0)
  /\ G' = 0
  /\ state' = "IDLE"
  /\ UNCHANGED <<job_vars, pos_vars, counter, DATA, SRCK, chain>>

(* Mutant: the pause never hands back to transmitStep.                     *)
transmitPause_Forever ==
  /\ state = "TRANSMIT_PAUSE"
  /\ counter' = 1 - counter
  /\ UNCHANGED <<state, job_vars, pos_vars, DATA, SRCK, RCK, G, chain, storage>>

transmitPause ==
  /\ state = "TRANSMIT_PAUSE"
  /\ IF counter = 1 THEN counter' = 0 /\ state' = "TRANSMIT_STEP"
                    ELSE counter' = counter + 1 /\ UNCHANGED state
  /\ UNCHANGED <<job_vars, pos_vars, DATA, SRCK, RCK, G, chain, storage>>

APP_ShiftRegister_Tasks ==
  \/ transmitBegin
  \/ transmitFall
  \/ transmitNextByte
  \/ transmitRise
  \/ transmitLatch
  \/ transmitDone
  \/ transmitPause

APP_ShiftRegister_IsBusy == state # "IDLE"

(* Both entry points below do not look at the state; every caller does     *)
(* (writeShiftRegister in app_nixie.c, the check_available callback of the *)
(* shift_register command), so the guard is the callers'.                  *)
APP_ShiftRegister_SendData(payload, n) ==
  /\ ~APP_ShiftRegister_IsBusy
  /\ data' = payload
  /\ num_bytes' = n
  /\ state' = "TRANSMIT_BEGIN"
  /\ UNCHANGED <<pos_vars, counter, DATA, SRCK, RCK, G, chain, storage>>

APP_ShiftRegister_SetEnabled(is_enabled) ==
  /\ ~APP_ShiftRegister_IsBusy
  /\ G' = IF is_enabled THEN 0 ELSE 1
  /\ UNCHANGED <<state, job_vars, pos_vars, counter, DATA, SRCK, RCK,
                 chain, storage>>

Next ==
  \/ APP_ShiftRegister_Tasks
  \/ \E payload \in Payloads, n \in 1..MaxData :
        APP_ShiftRegister_SendData(payload, n)
  \/ \E is_enabled \in BOOLEAN : APP_ShiftRegister_SetEnabled(is_enabled)

(* The main loop calls APP_ShiftRegister_Tasks in every iteration.         *)
Spec == Init /\ [][Next]_vars /\ WF_vars(APP_ShiftRegister_Tasks)
-----------------------------------------------------------------------------
(* Bit k of the stream a transfer clocks out: whole bytes in order, each   *)
(* starting with its most significant bit.                                 *)
StreamBit(d, k) == d[k \div 8][7 - (k % 8)]

(* The image w shows the first n bytes of d: the last bit clocked is next  *)
(* to the controller.  Stages further away keep what they held.            *)
ShowsBytes(d, n, w) ==
  \A i \in Stage : i < 8 * n => w[i] = StreamBit(d, 8 * n - 1 - i)

(* Bits of the current transfer that have been shifted into the chain.     *)
Clocked ==
  8 * current_byte + current_bit
    + (IF state = "TRANSMIT_STEP" THEN counter ELSE 0)

Transmitting == state \in {"TRANSMIT_STEP", "TRANSMIT_PAUSE",
                           "TRANSMIT_FINISH"}

(* In every state of a transfer the near end of the chain holds exactly    *)
(* the bits clocked so far: none lost at a byte boundary or a pause, none  *)
(* shifted twice because an edge was repeated.                             *)
ChainHoldsPrefix ==
  Transmitting =>
    \A i \in Stage : i < Clocked => chain[i] = StreamBit(data, Clocked - 1 - i)

(* When the transfer ends its outputs show the complete payload, and never *)
(* a partial or torn one: glowing outputs of a running transfer show the   *)
(* payload of the one before, or are dark.                                 *)
LatchedWhole ==
  state = "TRANSMIT_FINISH" /\ counter = 1 =>
    ShowsBytes(data, num_bytes, storage)

(* No ghost digits: the outputs are dark whenever the chain or the latches *)
(* change, before and after the change.                                    *)
DarkWhileChanging ==
  [][chain' # chain \/ storage' # storage => G = 1 /\ G' = 1]_vars

(* Setup and hold of the serial input: DATA moves only while SRCK is low,  *)
(* and the latch clock only moves while the shift clock is at rest.        *)
PinDiscipline ==
  [][ /\ DATA' # DATA => SRCK = 0
      /\ RCK' # RCK => SRCK = 0 /\ SRCK' = 0 ]_vars

(* Refinement: the driver and its chain implement DisplayLatch.            *)
Jobs == [data : Payloads, num_bytes : 1..MaxData]
ShowsJob(j, w) == ShowsBytes(j.data, j.num_bytes, w)

Abstract == INSTANCE DisplayLatch WITH
  Job <- Jobs, Image <- Wire, Shows <- ShowsJob,
  busy <- APP_ShiftRegister_IsBusy,
  job <- [data |-> data, num_bytes |-> num_bytes],
  shown <- storage, lit <- (G = 0)

(* Every step of the driver is a step of DisplayLatch or a stutter.        *)
ImplementsLatch == Abstract!Safety

(* A job always comes to an end, so nobody waits for the register forever. *)
JobEnds == Abstract!Liveness
=============================================================================
