-------------------------- MODULE SpiDriverProofs --------------------------
(***************************************************************************)
(* Proofs about SpiDriver for FIFOs, queues and jobs of any size.          *)
(***************************************************************************)
EXTENDS SpiDriver, TLAPS

(* The type invariant by owner.                                            *)
JobType ==
  /\ queue \in Seq(Jobs) /\ Len(queue) <= QueueSize
  /\ currentJob \in Jobs \cup {NoJob}
  /\ leftToTx \in Nat /\ leftToRx \in Nat
  /\ symbolsInProgress \in 0..FifoSize

FifoType ==
  /\ tx \in 0..FifoSize /\ shift \in 0..1 /\ rx \in 0..FifoSize
  /\ overflow \in BOOLEAN

ControlType ==
  /\ at \in {"out", "top", "send", "receive", "check"}
  /\ txMode \in {"empty", "half_empty"} /\ rxMode \in {"not_empty", "half_full"}
  /\ enabled \subseteq {"tx", "rx"}
  /\ selected \in BOOLEAN

(* Inside the handler's loop there is a job.                               *)
HasJob == at \in {"send", "receive", "check"} => currentJob # NoJob

(* The clock is the configured one, at the rate the driver believes it has *)
(* and a job selects its device and runs at its client's rate.             *)
ClockType ==
  /\ clock \in [polarity : {"LOW", "HIGH"},
                phase : {"IDLE_TO_ACTIVE", "ACTIVE_TO_IDLE"}, rate : Nat]
  /\ [idle |-> clock.polarity, edge |-> EdgeOf(clock)] = config.clockMode
  /\ clock.rate = currentBaudRate

JobRuns == currentJob # NoJob => selected /\ currentBaudRate = currentJob.rate

IInv ==
  /\ JobType /\ FifoType /\ ControlType
  /\ HasJob /\ ClockType /\ JobRuns
  /\ NothingIsLost

LEMMA TypeOfParts == JobType /\ FifoType /\ ControlType <=> TypeOK
BY DEF TypeOK, JobType, FifoType, ControlType

(* The mode of the clock names the edge on which the data changes.         *)
LEMMA ClockEdge ==
  ASSUME NEW init \in {drvSpi0InitData, drvSpi1InitData}
  PROVE  /\ ClockOf(init.clockMode).polarity \in {"LOW", "HIGH"}
         /\ ClockOf(init.clockMode).phase
              \in {"IDLE_TO_ACTIVE", "ACTIVE_TO_IDLE"}
         /\ init.baudRate \in Nat
         /\ \A rate \in Nat :
              LET c == [polarity |-> ClockOf(init.clockMode).polarity,
                        phase |-> ClockOf(init.clockMode).phase,
                        rate |-> rate]
              IN  [idle |-> c.polarity, edge |-> EdgeOf(c)] = init.clockMode
<1>1. CASE init = drvSpi0InitData
  <2>1. /\ init.clockMode = [idle |-> "HIGH", edge |-> "FALL"]
        /\ init.baudRate = 8
    BY <1>1 DEF drvSpi0InitData
  <2>2. ClockOf(init.clockMode) = [polarity |-> "HIGH", phase |-> "IDLE_TO_ACTIVE"]
    BY <2>1 DEF ClockOf
  <2> QED
    BY <2>1, <2>2 DEF EdgeOf
<1>2. CASE init = drvSpi1InitData
  <2>1. /\ init.clockMode = [idle |-> "LOW", edge |-> "FALL"]
        /\ init.baudRate = 10
    BY <1>2 DEF drvSpi1InitData
  <2>2. ClockOf(init.clockMode) = [polarity |-> "LOW", phase |-> "ACTIVE_TO_IDLE"]
    BY <2>1 DEF ClockOf
  <2> QED
    BY <2>1, <2>2 DEF EdgeOf
<1> QED
  BY <1>1, <1>2

LEMMA InitIInv == Init => IInv
<1> SUFFICES ASSUME Init PROVE IInv
  OBVIOUS
<1>1. JobType
  BY SpiAssumption DEF Init, JobType
<1>2. FifoType
  <2>1. tx = 0 /\ shift = 0 /\ rx = 0 /\ overflow = FALSE
    BY DEF Init, DRV_SPI_SetupHardware
  <2>2. 0 \in 0..FifoSize /\ 0 \in 0..1
    BY SpiAssumption
  <2>3. overflow \in BOOLEAN
    BY <2>1, Zenon
  <2> QED
    BY <2>1, <2>2, <2>3 DEF FifoType
<1>3. ControlType /\ HasJob /\ JobRuns
  <2>1. /\ at = "out" /\ txMode = "empty" /\ rxMode = "not_empty"
        /\ enabled = {} /\ selected = FALSE /\ currentJob = NoJob
    BY DEF Init, DRV_SPI_SetupHardware
  <2>2. selected \in BOOLEAN
    BY <2>1
  <2>3. ControlType
    BY <2>1, <2>2, Zenon DEF ControlType
  <2> QED
    BY <2>1, <2>3, Zenon DEF HasJob, JobRuns
<1>4. ClockType
  BY ClockEdge DEF Init, ClockType, DRV_SPI_SetupHardware
<1>5. NothingIsLost
  BY DEF Init, NothingIsLost, DRV_SPI_SetupHardware
<1> QED
  BY <1>1, <1>2, <1>3, <1>4, <1>5 DEF IInv

(* What a job is, and what its first in the queue is.                      *)
LEMMA QueueHead ==
  ASSUME JobType, queue # <<>>
  PROVE  /\ Head(queue) \in Jobs /\ Head(queue) # NoJob
         /\ Head(queue).size \in Nat /\ Head(queue).rate \in Nat
         /\ Tail(queue) \in Seq(Jobs) /\ Len(Tail(queue)) <= QueueSize
<1>1. Head(queue) \in Jobs /\ Tail(queue) \in Seq(Jobs)
      /\ Len(Tail(queue)) <= QueueSize
  BY SpiAssumption DEF JobType
<1>2. Head(queue) \in [size : Nat \ {0}, rate : Nat \ {0}]
  BY <1>1, SpiAssumption
<1>3. Head(queue).size \in Nat /\ Head(queue).rate \in Nat
  BY <1>2
<1> QED
  BY <1>1, <1>3, SpiAssumption

(* Taking up a job.                                                        *)
LEMMA NextJobStep == IInv /\ NextJob => IInv'
<1> SUFFICES ASSUME IInv, NextJob PROVE IInv'
  OBVIOUS
<1>0. /\ JobType /\ FifoType /\ ControlType /\ ClockType /\ NothingIsLost
      /\ queue # <<>> /\ currentJob = NoJob
  BY DEF IInv, NextJob
<1>1. JobType'
  BY <1>0, QueueHead, SpiAssumption DEF NextJob, JobType
<1>2. FifoType'
  BY <1>0, SpiAssumption DEF NextJob, FifoType
<1>3. ControlType'
  BY <1>0 DEF NextJob, ControlType
<1>4. HasJob' /\ JobRuns'
  BY <1>0, QueueHead DEF NextJob, HasJob, JobRuns
<1>5. ClockType'
  <2>1. config' = config /\ currentBaudRate' = Head(queue).rate
    BY DEF NextJob, set_vars
  <2>2. CASE Head(queue).rate = currentBaudRate
    BY <1>0, <2>1, <2>2 DEF NextJob, ClockType, EdgeOf
  <2>3. CASE Head(queue).rate # currentBaudRate
    <3>1. clock' = [clock EXCEPT !.rate = Head(queue).rate]
      BY <2>3 DEF NextJob, SetBaudRate
    <3>2. /\ clock'.polarity = clock.polarity /\ clock'.phase = clock.phase
          /\ clock'.rate = Head(queue).rate
          /\ clock' \in [polarity : {"LOW", "HIGH"},
                         phase : {"IDLE_TO_ACTIVE", "ACTIVE_TO_IDLE"},
                         rate : Nat]
      BY <1>0, <3>1, QueueHead DEF ClockType
    <3> QED
      BY <1>0, <2>1, <3>2 DEF ClockType, EdgeOf
  <2> QED
    BY <2>2, <2>3
<1>6. NothingIsLost'
  BY <1>0, QueueHead DEF NextJob, NothingIsLost, FifoType
<1> QED
  BY <1>1, <1>2, <1>3, <1>4, <1>5, <1>6 DEF IInv

(* The steps of the handler that only move between its parts.              *)
LEMMA ControlStep ==
  IInv /\ (DRV_SPI_Tasks \/ NoNextJob \/ SameJob \/ GoOn) => IInv'
<1> SUFFICES ASSUME IInv, DRV_SPI_Tasks \/ NoNextJob \/ SameJob \/ GoOn
             PROVE  IInv'
  OBVIOUS
<1>1. UNCHANGED <<set_vars, job_vars, clock, txMode, rxMode, hw_vars, selected>>
  BY DEF DRV_SPI_Tasks, NoNextJob, SameJob, GoOn
<1>2. JobType' /\ FifoType' /\ ClockType' /\ JobRuns' /\ NothingIsLost'
  BY <1>1
     DEF IInv, JobType, FifoType, ClockType, JobRuns, NothingIsLost, EdgeOf,
         set_vars, job_vars, hw_vars
<1>3. ControlType' /\ HasJob'
  BY <1>1
     DEF IInv, ControlType, HasJob, DRV_SPI_Tasks, NoNextJob, SameJob, GoOn,
         job_vars
<1> QED
  BY <1>2, <1>3 DEF IInv

(* Sending: there is room for what is sent wherever it goes.               *)
LEMMA SendStep == IInv /\ DRV_SPI_MasterEBMSend8Bit => IInv'
<1> SUFFICES ASSUME IInv, DRV_SPI_MasterEBMSend8Bit PROVE IInv'
  OBVIOUS
<1> DEFINE units == Smaller(leftToTx, Room)
<1>0. /\ JobType /\ FifoType /\ ControlType /\ HasJob /\ ClockType /\ JobRuns
      /\ NothingIsLost /\ currentJob # NoJob /\ FifoSize \in Nat
  BY SpiAssumption DEF IInv, HasJob, DRV_SPI_MasterEBMSend8Bit
<1>1. /\ symbolsInProgress = tx + shift + rx
      /\ leftToRx = leftToTx + symbolsInProgress
  BY <1>0 DEF NothingIsLost
<1>2. /\ units \in Nat /\ units <= leftToTx
      /\ units + symbolsInProgress <= FifoSize
  BY <1>0, <1>1 DEF JobType, FifoType, Room, Smaller, Larger
<1>3. /\ leftToTx' = leftToTx - units
      /\ symbolsInProgress' = symbolsInProgress + units
      /\ tx' = tx + units
      /\ UNCHANGED <<set_vars, queue, currentJob, leftToRx, currentBaudRate,
                     clock, rxMode, enabled, shift, rx, overflow, selected>>
  BY DEF DRV_SPI_MasterEBMSend8Bit,
         DRV_SPI_MasterEBMSend8BitPolled
<1> HIDE DEF units
<1>4. JobType'
  BY <1>0, <1>2, <1>3 DEF JobType
<1>5. FifoType'
  BY <1>0, <1>1, <1>2, <1>3 DEF JobType, FifoType
<1>6. NothingIsLost'
  BY <1>0, <1>1, <1>2, <1>3 DEF JobType, FifoType, NothingIsLost
<1>7. ControlType' /\ HasJob' /\ JobRuns' /\ ClockType'
  BY <1>0, <1>3
     DEF DRV_SPI_MasterEBMSend8Bit, ControlType, HasJob, JobRuns, ClockType,
         EdgeOf, set_vars
<1> QED
  BY <1>4, <1>5, <1>6, <1>7 DEF IInv

(* Receiving.                                                              *)
LEMMA ReceiveStep == IInv /\ DRV_SPI_MasterEBMReceive8Bit => IInv'
<1> SUFFICES ASSUME IInv, DRV_SPI_MasterEBMReceive8Bit PROVE IInv'
  OBVIOUS
<1> DEFINE units == Smaller(leftToRx, rx)
<1>0. /\ JobType /\ FifoType /\ ControlType /\ HasJob /\ ClockType /\ JobRuns
      /\ NothingIsLost /\ currentJob # NoJob /\ FifoSize \in Nat
  BY SpiAssumption DEF IInv, HasJob, DRV_SPI_MasterEBMReceive8Bit
<1>1. /\ symbolsInProgress = tx + shift + rx
      /\ leftToRx = leftToTx + symbolsInProgress
  BY <1>0 DEF NothingIsLost
<1>2. units \in Nat /\ units <= rx /\ units <= leftToRx
  BY <1>0 DEF JobType, FifoType, Smaller
<1>3. /\ leftToRx' = leftToRx - units
      /\ symbolsInProgress' = symbolsInProgress - units
      /\ rx' = rx - units
      /\ UNCHANGED <<set_vars, queue, currentJob, leftToTx, currentBaudRate,
                     clock, txMode, enabled, tx, shift, overflow, selected>>
  BY DEF DRV_SPI_MasterEBMReceive8Bit,
         DRV_SPI_MasterEBMReceive8BitPolled
<1> HIDE DEF units
<1>4. JobType'
  BY <1>0, <1>1, <1>2, <1>3 DEF JobType, FifoType
<1>5. FifoType'
  BY <1>0, <1>2, <1>3 DEF FifoType
<1>6. NothingIsLost'
  BY <1>0, <1>1, <1>2, <1>3 DEF JobType, FifoType, NothingIsLost
<1>7. ControlType' /\ HasJob' /\ JobRuns' /\ ClockType'
  BY <1>0, <1>3
     DEF DRV_SPI_MasterEBMReceive8Bit, RxModeFor, ControlType, HasJob, JobRuns,
         ClockType, EdgeOf, set_vars
<1> QED
  BY <1>4, <1>5, <1>6, <1>7 DEF IInv

(* A job that has received everything has left nothing on the way.         *)
LEMMA CompleteStep == IInv /\ CompleteJob => IInv'
<1> SUFFICES ASSUME IInv, CompleteJob PROVE IInv'
  OBVIOUS
<1>0. /\ JobType /\ FifoType /\ ControlType /\ ClockType /\ NothingIsLost
      /\ currentJob # NoJob /\ leftToRx = 0
  BY DEF IInv, HasJob, CompleteJob, JobIsOver
<1>1. tx + shift + rx = 0 /\ ~overflow
  BY <1>0 DEF NothingIsLost, JobType, FifoType
<1>2. /\ currentJob' = NoJob
      /\ UNCHANGED <<set_vars, queue, leftToTx, leftToRx, symbolsInProgress,
                     currentBaudRate, clock, txMode, rxMode, enabled, hw_vars>>
  BY DEF CompleteJob
<1>3. JobType' /\ FifoType' /\ ClockType'
  BY <1>0, <1>2 DEF JobType, FifoType, ClockType, EdgeOf, set_vars, hw_vars
<1>4. NothingIsLost' /\ JobRuns'
  BY <1>1, <1>2 DEF NothingIsLost, JobRuns, hw_vars
<1>5. ControlType' /\ HasJob'
  BY <1>0, <1>2 DEF CompleteJob, ControlType, HasJob
<1> QED
  BY <1>3, <1>4, <1>5 DEF IInv

(* The clients and the hardware.                                           *)
LEMMA EnvironmentStep ==
  IInv /\ (Hardware \/ \E job \in Jobs : BufferAdd(job)) => IInv'
<1> SUFFICES ASSUME IInv, Hardware \/ \E job \in Jobs : BufferAdd(job)
             PROVE  IInv'
  OBVIOUS
<1>0. /\ JobType /\ FifoType /\ ControlType /\ HasJob /\ ClockType /\ JobRuns
      /\ NothingIsLost /\ FifoSize \in Nat
  BY SpiAssumption DEF IInv
<1>1. ASSUME NEW job \in Jobs, BufferAdd(job) PROVE IInv'
  <2>1. JobType'
    BY <1>0, <1>1, SpiAssumption DEF BufferAdd, JobType
  <2>2. ControlType' /\ HasJob'
    BY <1>0, <1>1 DEF BufferAdd, ControlType, HasJob
  <2>3. FifoType' /\ ClockType' /\ JobRuns' /\ NothingIsLost'
    BY <1>0, <1>1
       DEF BufferAdd, FifoType, ClockType, JobRuns, NothingIsLost, EdgeOf,
           set_vars, hw_vars
  <2> QED
    BY <2>1, <2>2, <2>3 DEF IInv
<1>2. CASE Hardware
  <2>1. UNCHANGED <<set_vars, job_vars, at, clock, txMode, rxMode, enabled,
                    selected>>
    BY <1>2 DEF Hardware, LoadByte, ExchangeByte
  <2>2. JobType' /\ ControlType' /\ HasJob' /\ ClockType' /\ JobRuns'
    BY <1>0, <2>1
       DEF JobType, ControlType, HasJob, ClockType, JobRuns, EdgeOf,
           set_vars, job_vars
  <2>3. tx + shift + rx <= FifoSize
    BY <1>0 DEF NothingIsLost, JobType, FifoType
  <2>4. CASE LoadByte
    <3>1. /\ shift = 0 /\ shift' = 1 /\ tx > 0 /\ tx' = tx - 1
          /\ rx' = rx /\ overflow' = overflow
      BY <2>4 DEF LoadByte
    <3>2. FifoType'
      BY <1>0, <3>1 DEF FifoType
    <3>3. tx' + shift' + rx' = tx + shift + rx
      BY <1>0, <3>1 DEF FifoType
    <3>4. NothingIsLost'
      BY <1>0, <2>1, <3>1, <3>3 DEF NothingIsLost, job_vars
    <3> QED
      BY <2>2, <3>2, <3>4 DEF IInv
  <2>5. CASE ExchangeByte
    <3>1. rx < FifoSize
      BY <1>0, <2>3, <2>5 DEF ExchangeByte, FifoType
    <3>2. /\ shift = 1 /\ shift' = 0 /\ tx' = tx /\ rx' = rx + 1
          /\ overflow' = overflow
      BY <2>5, <3>1 DEF ExchangeByte
    <3>3. FifoType'
      BY <1>0, <3>1, <3>2 DEF FifoType
    <3>4. tx' + shift' + rx' = tx + shift + rx
      BY <1>0, <3>2 DEF FifoType
    <3>5. NothingIsLost'
      BY <1>0, <2>1, <3>2, <3>4 DEF NothingIsLost, job_vars
    <3> QED
      BY <2>2, <3>3, <3>5 DEF IInv
  <2> QED
    BY <1>2, <2>4, <2>5 DEF Hardware
<1> QED
  BY <1>1, <1>2

LEMMA NextStep == IInv /\ [Next]_vars => IInv'
<1>1. IInv /\ UNCHANGED vars => IInv'
  BY DEF vars, set_vars, job_vars, hw_vars, IInv, JobType, FifoType,
         ControlType, HasJob, ClockType, JobRuns, NothingIsLost, EdgeOf
<1> QED
  BY <1>1, NextJobStep, ControlStep, SendStep, ReceiveStep, CompleteStep,
     EnvironmentStep DEF Next, Handler

LEMMA Invariance == Spec => []IInv
BY InitIInv, NextStep, PTL DEF Spec
-----------------------------------------------------------------------------
(* The variables keep their types: neither FIFO holds more than it can.    *)
THEOREM TypeCorrect == Spec => []TypeOK
<1>1. IInv => TypeOK
  BY TypeOfParts DEF IInv
<1> QED
  BY <1>1, Invariance, PTL

(* No byte is lost, and a job leaves nothing behind, whatever the sizes of *)
(* the FIFO and of the jobs and however the hardware is timed.             *)
THEOREM NothingLost == Spec => []NothingIsLost
<1>1. IInv => NothingIsLost
  BY DEF IInv
<1> QED
  BY <1>1, Invariance, PTL

(* A byte on the wire belongs to a selected device at its client's rate.   *)
THEOREM BusAsAsked == Spec => []BusIsAsAsked
<1>1. ASSUME IInv, tx + shift > 0
      PROVE  /\ selected /\ clock.rate = currentJob.rate
             /\ [idle |-> clock.polarity, edge |-> EdgeOf(clock)]
                  = config.clockMode
  <2>1. currentJob # NoJob
    BY <1>1 DEF IInv, NothingIsLost, FifoType
  <2> QED
    BY <1>1, <2>1 DEF IInv, JobRuns, ClockType
<1>2. IInv => BusIsAsAsked
  BY <1>1 DEF BusIsAsAsked
<1> QED
  BY <1>2, Invariance, PTL
=============================================================================
