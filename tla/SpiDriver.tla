----------------------------- MODULE SpiDriver -----------------------------
(***************************************************************************)
(* The SPI driver (framework/driver/spi/dynamic): jobs are queued by its   *)
(* clients, the serial flash and the WiFi driver, and moved through the    *)
(* FIFOs of the peripheral by a handler, which is the interrupt service    *)
(* routine of one instance and polled for the other.  The hardware goes on *)
(* shifting while the handler runs, so a call is split into the steps      *)
(* between which it looks at the hardware.                                 *)
(*                                                                         *)
(* A byte is only counted: bytes of data and the dummy bytes that fill up  *)
(* the shorter direction of a job are sent, and received, one after the    *)
(* other, and every job sends as many bytes as it receives.                *)
(***************************************************************************)
EXTENDS Integers, Sequences

CONSTANTS
  FifoSize,   \* PLIB_SPI_TX_8BIT_FIFO_SIZE, and RX: 16
  HwMark,     \* PLIB_SPI_RX_8BIT_HW_MARK: 8
  QueueSize,  \* elements of the queue: 8
  NoJob,      \* no job
  Jobs        \* what may be queued: bytes, and the baud rate of the client

ASSUME SpiAssumption ==
  /\ FifoSize \in Nat /\ HwMark \in Nat \ {0} /\ HwMark <= FifoSize
  /\ QueueSize \in Nat \ {0}
  /\ Jobs \subseteq [size : Nat \ {0}, rate : Nat \ {0}]
  /\ NoJob \notin Jobs

VARIABLES
  config,            \* the DRV_SPI_INIT of the instance
  vfMainTask,        \* DRV_SPI_DRIVER_OBJECT: the handler
  queue,             \* the jobs waiting
  currentJob,
  leftToTx,          \* its dataLeftToTx and dummyLeftToTx
  leftToRx,          \* its dataLeftToRx and dummyLeftToRx
  symbolsInProgress,
  currentBaudRate,
  at,                \* where the handler is
  clock,             \* external: polarity, phase and rate of the clock
  txMode, rxMode,    \* external: what fills the interrupt flags
  enabled,           \* external: the interrupt sources enabled
  tx, shift, rx,     \* external: bytes in the FIFOs and the shift register
  overflow,          \* external: a byte was received with no room for it
  selected           \* history: between operationStarting and operationEnded

job_vars == <<queue, currentJob, leftToTx, leftToRx, symbolsInProgress,
              currentBaudRate>>
hw_vars == <<tx, shift, rx, overflow>>
set_vars == <<config, vfMainTask>>
vars == <<set_vars, job_vars, at, clock, txMode, rxMode, enabled, hw_vars,
          selected>>

TypeOK ==
  /\ queue \in Seq(Jobs) /\ Len(queue) <= QueueSize
  /\ currentJob \in Jobs \cup {NoJob}
  /\ leftToTx \in Nat /\ leftToRx \in Nat
  /\ symbolsInProgress \in 0..FifoSize
  /\ at \in {"out", "top", "send", "receive", "check"}
  /\ txMode \in {"empty", "half_empty"} /\ rxMode \in {"not_empty", "half_full"}
  /\ enabled \subseteq {"tx", "rx"}
  /\ tx \in 0..FifoSize /\ shift \in 0..1 /\ rx \in 0..FifoSize
  /\ overflow \in BOOLEAN /\ selected \in BOOLEAN
-----------------------------------------------------------------------------
(* Initialisation.                                                         *)
drvSpi0InitData ==
  [taskMode |-> "POLLED", spiMode |-> "MASTER", bufferType |-> "ENHANCED",
   commWidth |-> 8, protocol |-> "STANDARD",
   clockMode |-> [idle |-> "HIGH", edge |-> "FALL"], baudRate |-> 8]
drvSpi1InitData ==
  [taskMode |-> "ISR", spiMode |-> "MASTER", bufferType |-> "ENHANCED",
   commWidth |-> 8, protocol |-> "STANDARD",
   clockMode |-> [idle |-> "LOW", edge |-> "FALL"], baudRate |-> 10]

\* The bits of a handler's index, some of them written with the constants of
\* another enumeration, which has the same values.
DRV_SPI_SetVTable(init) ==
  CASE /\ init.spiMode = "MASTER" /\ init.bufferType = "ENHANCED"
       /\ init.commWidth = 8
       /\ init.taskMode \in {"POLLED", "ISR"} -> init.taskMode
    [] OTHER -> "invalid"

\* The data changes on the edge from idle to active or on the one back.
ClockOf(mode) ==
  [polarity |-> mode.idle,
   phase |-> IF (mode.idle = "LOW") = (mode.edge = "RISE")
             THEN "IDLE_TO_ACTIVE" ELSE "ACTIVE_TO_IDLE"]

SetBaudRate(rate) == [clock EXCEPT !.rate = rate]

DRV_SPI_SetupHardware(init) ==
  /\ clock = [polarity |-> ClockOf(init.clockMode).polarity,
              phase |-> ClockOf(init.clockMode).phase,
              rate |-> init.baudRate]
  /\ currentBaudRate = init.baudRate
  /\ txMode = "empty" /\ rxMode = "not_empty"
  /\ rx = 0 /\ overflow = FALSE

Init ==
  /\ config \in {drvSpi0InitData, drvSpi1InitData}
  /\ vfMainTask = DRV_SPI_SetVTable(config)
  /\ DRV_SPI_SetupHardware(config)
  /\ queue = <<>> /\ currentJob = NoJob
  /\ leftToTx = 0 /\ leftToRx = 0 /\ symbolsInProgress = 0
  /\ at = "out"
  /\ enabled = {}
  /\ tx = 0 /\ shift = 0
  /\ selected = FALSE

ISR == vfMainTask = "ISR"
-----------------------------------------------------------------------------
(* The handler.  The interrupt flags follow the FIFOs: what holds when     *)
(* they are cleared sets them again.                                       *)
Smaller(a, b) == IF a < b THEN a ELSE b
Larger(a, b) == IF a > b THEN a ELSE b

Asserted(source) ==
  CASE source = "tx" -> IF txMode = "empty" THEN tx = 0
                        ELSE 2 * tx <= FifoSize
    [] source = "rx" -> IF rxMode = "not_empty" THEN rx > 0 ELSE rx >= HwMark

\* _IntHandlerSPIInstance1, or a poll; the routine runs with its own sources
\* disabled.
DRV_SPI_Tasks ==
  /\ at = "out"
  /\ ISR => \E source \in enabled : Asserted(source)
  /\ enabled' = {}
  /\ at' = "top"
  /\ UNCHANGED <<set_vars, job_vars, clock, txMode, rxMode, hw_vars, selected>>

\* Mutant: the rate of the client before is kept.
NextJob_OldRate ==
  /\ at = "top" /\ currentJob = NoJob /\ queue # <<>>
  /\ currentJob' = Head(queue)
  /\ leftToTx' = Head(queue).size /\ leftToRx' = Head(queue).size
  /\ queue' = Tail(queue)
  /\ symbolsInProgress' = 0
  /\ selected' = TRUE
  /\ IF ISR /\ Head(queue).size > FifoSize
     THEN txMode' = "half_empty" /\ rxMode' = "half_full"
     ELSE UNCHANGED <<txMode, rxMode>>
  /\ rx' = 0
  /\ at' = "send"
  /\ UNCHANGED <<set_vars, enabled, currentBaudRate, clock, tx, shift,
                 overflow>>

NextJob ==
  /\ at = "top" /\ currentJob = NoJob /\ queue # <<>>
  /\ currentJob' = Head(queue)
  /\ leftToTx' = Head(queue).size /\ leftToRx' = Head(queue).size
  /\ queue' = Tail(queue)
  /\ symbolsInProgress' = 0
  /\ selected' = TRUE
  /\ currentBaudRate' = Head(queue).rate
  /\ clock' = IF Head(queue).rate = currentBaudRate THEN clock
              ELSE SetBaudRate(Head(queue).rate)
  /\ IF ISR /\ Head(queue).size > FifoSize
     THEN txMode' = "half_empty" /\ rxMode' = "half_full"
     ELSE UNCHANGED <<txMode, rxMode>>
  /\ rx' = 0
  /\ at' = "send"
  /\ UNCHANGED <<set_vars, enabled, tx, shift, overflow>>

\* Without a job the interrupts stay disabled.
NoNextJob ==
  /\ at = "top" /\ currentJob = NoJob /\ queue = <<>>
  /\ at' = "out"
  /\ UNCHANGED <<set_vars, job_vars, clock, txMode, rxMode, enabled, hw_vars,
                 selected>>

SameJob ==
  /\ at = "top" /\ currentJob # NoJob
  /\ at' = "send"
  /\ UNCHANGED <<set_vars, job_vars, clock, txMode, rxMode, enabled, hw_vars,
                 selected>>

\* Mutant: bytes received and not yet read are forgotten.
Room_TransmitOnly == FifoSize - tx

\* What has been sent and not been read would not fit the receive FIFO.
Room == FifoSize - Larger(symbolsInProgress, tx)

DRV_SPI_MasterEBMSend8BitPolled ==
  LET units == Smaller(leftToTx, Room)
  IN  /\ leftToTx' = leftToTx - units
      /\ symbolsInProgress' = symbolsInProgress + units
      /\ tx' = tx + units

\* The same for either instance, if anything is left to send; the interrupt is
\* asked for later once nothing is.
DRV_SPI_MasterEBMSend8Bit ==
  /\ at = "send"
  /\ DRV_SPI_MasterEBMSend8BitPolled
  /\ txMode' = IF ISR /\ leftToTx # 0 /\ leftToTx' = 0
               THEN "empty" ELSE txMode
  /\ at' = "receive"
  /\ UNCHANGED <<set_vars, queue, currentJob, leftToRx, currentBaudRate,
                 clock, rxMode, enabled, shift, rx, overflow, selected>>

\* The last bytes would not fill half of the FIFO.
RxModeFor(left) == IF ISR /\ left < HwMark THEN "not_empty" ELSE rxMode

DRV_SPI_MasterEBMReceive8BitPolled ==
  LET units == Smaller(leftToRx, rx)
  IN  /\ leftToRx' = leftToRx - units
      /\ symbolsInProgress' = symbolsInProgress - units
      /\ rx' = rx - units

\* The same for either instance.
DRV_SPI_MasterEBMReceive8Bit ==
  /\ at = "receive"
  /\ DRV_SPI_MasterEBMReceive8BitPolled
  /\ rxMode' = RxModeFor(leftToRx')
  /\ at' = "check"
  /\ UNCHANGED <<set_vars, queue, currentJob, leftToTx, currentBaudRate,
                 clock, txMode, enabled, tx, shift, overflow, selected>>

JobIsOver == leftToRx = 0

\* Mutant: the next job is left to the next interrupt.
CompleteJob_Leaves ==
  /\ at = "check" /\ JobIsOver
  /\ currentJob' = NoJob
  /\ selected' = FALSE
  /\ at' = "out"
  /\ UNCHANGED <<set_vars, queue, leftToTx, leftToRx, symbolsInProgress,
                 currentBaudRate, clock, txMode, rxMode, enabled, hw_vars>>

\* The job's callbacks, and on to the next job; a poll takes that up later.
\* After the last job the interrupts stay disabled until one is added.
CompleteJob ==
  /\ at = "check" /\ JobIsOver
  /\ currentJob' = NoJob
  /\ selected' = FALSE
  /\ at' = IF ISR /\ queue # <<>> THEN "top" ELSE "out"
  /\ UNCHANGED <<set_vars, queue, leftToTx, leftToRx, symbolsInProgress,
                 currentBaudRate, clock, txMode, rxMode, enabled, hw_vars>>

\* An interrupt that would fire again is not left for.
GoOn ==
  /\ at = "check" /\ ~JobIsOver
  /\ IF ISR /\ \E source \in {"tx", "rx"} : Asserted(source)
     THEN at' = "top" /\ UNCHANGED enabled
     ELSE at' = "out" /\ enabled' = IF ISR THEN {"tx", "rx"} ELSE enabled
  /\ UNCHANGED <<set_vars, job_vars, clock, txMode, rxMode, hw_vars, selected>>

Handler ==
  \/ DRV_SPI_Tasks
  \/ NextJob
  \/ NoNextJob
  \/ SameJob
  \/ DRV_SPI_MasterEBMSend8Bit
  \/ DRV_SPI_MasterEBMReceive8Bit
  \/ CompleteJob
  \/ GoOn
-----------------------------------------------------------------------------
(* The clients and the hardware.                                           *)

\* DRV_SPI_BufferAdd*: called from the main loop, which the routine interrupts
\* and which does the polling.
BufferAdd(job) ==
  /\ at = "out"
  /\ Len(queue) < QueueSize
  /\ queue' = Append(queue, job)
  /\ enabled' = IF ISR THEN enabled \cup {"tx"} ELSE enabled
  /\ UNCHANGED <<set_vars, currentJob, leftToTx, leftToRx, symbolsInProgress,
                 currentBaudRate, at, clock, txMode, rxMode, hw_vars, selected>>

LoadByte ==
  /\ shift = 0 /\ tx > 0
  /\ tx' = tx - 1 /\ shift' = 1
  /\ UNCHANGED <<set_vars, job_vars, at, clock, txMode, rxMode, enabled, rx,
                 overflow, selected>>

ExchangeByte ==
  /\ shift = 1
  /\ shift' = 0
  /\ IF rx < FifoSize THEN rx' = rx + 1 /\ UNCHANGED overflow
     ELSE overflow' = TRUE /\ UNCHANGED rx
  /\ UNCHANGED <<set_vars, job_vars, at, clock, txMode, rxMode, enabled, tx,
                 selected>>

Hardware == LoadByte \/ ExchangeByte

Next == Handler \/ Hardware \/ \E job \in Jobs : BufferAdd(job)

(* The WiFi driver polls its instance in every pass (DRV_WIFI_SPI_INSTANCE),*)
(* interrupts of the other are taken, and the clock runs.                  *)
Fairness == WF_vars(Handler) /\ WF_vars(Hardware)

Spec == Init /\ [][Next]_vars /\ Fairness
-----------------------------------------------------------------------------
(* "Update the symbols in progress so we can send more units later": the   *)
(* count is exact while a job runs, no byte is ever received without room  *)
(* for it, and what is still to be received is either in progress or still *)
(* to be sent, so that a job that has received everything leaves nothing   *)
(* behind for the next one.                                                *)
NothingIsLost ==
  /\ ~overflow
  /\ IF currentJob = NoJob THEN tx + shift + rx = 0
     ELSE /\ symbolsInProgress = tx + shift + rx
          /\ leftToRx = leftToTx + symbolsInProgress

(* A byte is only on the wire while its device is selected, at the rate of *)
(* its client, and with the clock the instance is configured for: the one  *)
(* whose data changes on the edge its name says.                           *)
EdgeOf(c) ==
  IF (c.polarity = "LOW") = (c.phase = "IDLE_TO_ACTIVE") THEN "RISE" ELSE "FALL"
BusIsAsAsked ==
  tx + shift > 0 =>
    /\ selected
    /\ clock.rate = currentJob.rate
    /\ [idle |-> clock.polarity, edge |-> EdgeOf(clock)] = config.clockMode

(* Every job comes to its end, through whatever interrupt modes and polls: *)
(* the last bytes are not waited for with an interrupt that never comes.   *)
EveryJobEnds ==
  /\ queue # <<>> ~> currentJob # NoJob
  /\ currentJob # NoJob ~> currentJob = NoJob
=============================================================================
