------------------------ MODULE ShiftRegisterProofs ------------------------
(***************************************************************************)
(* Proofs about ShiftRegister for every number of registers and every set  *)
(* of payloads: its invariants, its pin protocol, and that it implements   *)
(* DisplayLatch.                                                           *)
(***************************************************************************)
EXTENDS ShiftRegister, TLAPS

(* The position of a running transfer and the levels of its pins.          *)
Position ==
  /\ state = "TRANSMIT_STEP" =>
       /\ current_byte < num_bytes
       /\ current_bit = 8 => counter = 0
       /\ SRCK = counter /\ RCK = 0
  /\ state = "TRANSMIT_PAUSE" =>
       current_byte < num_bytes /\ current_bit = 0 /\ SRCK = 0 /\ RCK = 0
  /\ state = "TRANSMIT_FINISH" =>
       current_byte = num_bytes /\ current_bit = 0 /\ SRCK = 0 /\ RCK = counter
  /\ ~Transmitting => SRCK = 0 /\ RCK = 0
  /\ Transmitting => G = 1

(* After the latch edge the latches repeat the chain.                      *)
Latched == state = "TRANSMIT_FINISH" /\ counter = 1 => storage = chain

IInv ==
  /\ TypeOK
  /\ Position
  /\ Latched
  /\ ChainHoldsPrefix
-----------------------------------------------------------------------------
(* The bit the driver puts on DATA is the next one of the stream.          *)
LEMMA NextBit ==
  ASSUME NEW d \in Data, NEW b \in Nat, NEW j \in 0..7
  PROVE  StreamBit(d, 8 * b + j) = d[b][7 - j]
<1>1. (8 * b + j) \div 8 = b /\ (8 * b + j) % 8 = j
  OBVIOUS
<1> QED
  BY <1>1 DEF StreamBit

(* Driving SRCK keeps the chain a chain, and a level that is not a rising  *)
(* edge keeps its content.                                                 *)
LEMMA DriveSRCKType ==
  ASSUME chain \in Wire, NEW level \in {0, 1}, NEW bit \in {0, 1},
         DriveSRCK(level, bit)
  PROVE  SRCK' \in {0, 1} /\ chain' \in Wire
<1>1. \A i \in Stage : i # 0 => i - 1 \in Stage
  BY ShiftRegisterAssumption DEF Stage
<1> QED
  BY <1>1 DEF DriveSRCK, Wire

LEMMA DriveRCKType ==
  ASSUME chain \in Wire, storage \in Wire, NEW level \in {0, 1},
         DriveRCK(level)
  PROVE  RCK' \in {0, 1} /\ storage' \in Wire
BY DEF DriveRCK

(* A rising edge appends the bit to what the near end of the chain holds.  *)
LEMMA ShiftAppends ==
  ASSUME NEW d \in Data, NEW n \in Nat, NEW bit \in {0, 1},
         SRCK = 0, DriveSRCK(1, bit),
         bit = StreamBit(d, n),
         \A i \in Stage : i < n => chain[i] = StreamBit(d, n - 1 - i)
  PROVE  \A i \in Stage : i < n + 1 => chain'[i] = StreamBit(d, n - i)
<1> SUFFICES ASSUME NEW i \in Stage, i < n + 1
             PROVE  chain'[i] = StreamBit(d, n - i)
  OBVIOUS
<1>1. chain' = [k \in Stage |-> IF k = 0 THEN bit ELSE chain[k - 1]]
  BY DEF DriveSRCK
<1>2. CASE i = 0
  BY <1>1, <1>2
<1>3. CASE i # 0
  <2>0. MaxData \in Nat \ {0}
    BY ShiftRegisterAssumption
  <2>1. i - 1 \in Stage /\ i - 1 < n
    BY <1>3, <2>0 DEF Stage
  <2>2. chain[i - 1] = StreamBit(d, n - 1 - (i - 1))
    BY <2>1
  <2>3. n - 1 - (i - 1) = n - i
    BY <2>0 DEF Stage
  <2> QED
    BY <1>1, <1>3, <2>2, <2>3
<1> QED
  BY <1>2, <1>3
-----------------------------------------------------------------------------
LEMMA InitIInv == Init => IInv
<1> SUFFICES ASSUME Init PROVE IInv
  OBVIOUS
<1>1. TypeOK
  BY ShiftRegisterAssumption DEF Init, TypeOK, State
<1> QED
  BY <1>1 DEF Init, IInv, Position, Latched, ChainHoldsPrefix, Transmitting

(* Every step keeps the types.                                             *)
LEMMA TypeStep == IInv /\ [Next]_vars => TypeOK'
<1> SUFFICES ASSUME IInv, [Next]_vars PROVE TypeOK'
  OBVIOUS
<1> USE ShiftRegisterAssumption DEF IInv, TypeOK, State, job_vars, pos_vars
<1>1. CASE transmitBegin
  <2>1. chain' \in Wire /\ SRCK' \in {0, 1}
    BY <1>1, DriveSRCKType DEF transmitBegin
  <2>2. storage' \in Wire /\ RCK' \in {0, 1}
    BY <1>1, DriveRCKType DEF transmitBegin
  <2> QED
    BY <1>1, <2>1, <2>2 DEF transmitBegin
<1>2. CASE transmitFall
  <2>1. chain' \in Wire /\ SRCK' \in {0, 1}
    BY <1>2, DriveSRCKType DEF transmitFall
  <2> QED
    BY <1>2, <2>1 DEF transmitFall, Position
<1>3. CASE transmitNextByte
  BY <1>3 DEF transmitNextByte, Position
<1>4. CASE transmitRise
  <2>1. DATA' \in {0, 1}
    <3>1. current_byte \in 0..MaxData-1 /\ 7 - current_bit \in 0..7
      BY <1>4 DEF transmitRise, Position
    <3> QED
      BY <1>4, <3>1 DEF transmitRise, Data, Byte
  <2>2. chain' \in Wire /\ SRCK' \in {0, 1}
    BY <1>4, <2>1, DriveSRCKType DEF transmitRise
  <2> QED
    BY <1>4, <2>1, <2>2 DEF transmitRise
<1>5. CASE transmitLatch
  <2>1. storage' \in Wire /\ RCK' \in {0, 1}
    BY <1>5, DriveRCKType DEF transmitLatch
  <2> QED
    BY <1>5, <2>1 DEF transmitLatch
<1>6. CASE transmitDone
  <2>1. storage' \in Wire /\ RCK' \in {0, 1}
    BY <1>6, DriveRCKType DEF transmitDone
  <2> QED
    BY <1>6, <2>1 DEF transmitDone
<1>7. CASE transmitPause
  BY <1>7 DEF transmitPause
<1>8. ASSUME NEW payload \in Payloads, NEW n \in 1..MaxData,
             APP_ShiftRegister_SendData(payload, n)
      PROVE  TypeOK'
  BY <1>8 DEF APP_ShiftRegister_SendData
<1>9. ASSUME NEW is_enabled \in BOOLEAN,
             APP_ShiftRegister_SetEnabled(is_enabled)
      PROVE  TypeOK'
  BY <1>9 DEF APP_ShiftRegister_SetEnabled
<1>10. CASE UNCHANGED vars
  BY <1>10 DEF vars
<1> QED
  BY <1>1, <1>2, <1>3, <1>4, <1>5, <1>6, <1>7, <1>8, <1>9, <1>10
     DEF Next, APP_ShiftRegister_Tasks

(* Every step keeps the position bookkeeping and the latch image.          *)
LEMMA PositionStep == IInv /\ [Next]_vars => Position' /\ Latched'
<1> SUFFICES ASSUME IInv, [Next]_vars PROVE Position' /\ Latched'
  OBVIOUS
<1> USE ShiftRegisterAssumption
    DEF IInv, TypeOK, State, job_vars, pos_vars, Position, Latched,
        Transmitting, DriveSRCK, DriveRCK
<1>1. CASE transmitBegin
  BY <1>1 DEF transmitBegin
<1>2. CASE transmitFall
  BY <1>2 DEF transmitFall
<1>3. CASE transmitNextByte
  BY <1>3 DEF transmitNextByte
<1>4. CASE transmitRise
  BY <1>4 DEF transmitRise
<1>5. CASE transmitLatch
  BY <1>5 DEF transmitLatch
<1>6. CASE transmitDone
  BY <1>6 DEF transmitDone
<1>7. CASE transmitPause
  BY <1>7 DEF transmitPause
<1>8. ASSUME NEW payload \in Payloads, NEW n \in 1..MaxData,
             APP_ShiftRegister_SendData(payload, n)
      PROVE  Position' /\ Latched'
  BY <1>8 DEF APP_ShiftRegister_SendData, APP_ShiftRegister_IsBusy
<1>9. ASSUME NEW is_enabled \in BOOLEAN,
             APP_ShiftRegister_SetEnabled(is_enabled)
      PROVE  Position' /\ Latched'
  BY <1>9 DEF APP_ShiftRegister_SetEnabled, APP_ShiftRegister_IsBusy
<1>10. CASE UNCHANGED vars
  BY <1>10 DEF vars
<1> QED
  BY <1>1, <1>2, <1>3, <1>4, <1>5, <1>6, <1>7, <1>8, <1>9, <1>10
     DEF Next, APP_ShiftRegister_Tasks

(* Every step keeps the chain a picture of the bits clocked so far: one    *)
(* action shifts, and it shifts the right bit; the others keep both the    *)
(* chain and the number of bits clocked, or end the transfer.              *)
LEMMA PrefixStep == IInv /\ [Next]_vars => ChainHoldsPrefix'
<1> SUFFICES ASSUME IInv, [Next]_vars PROVE ChainHoldsPrefix'
  OBVIOUS
<1> USE DEF IInv, Position, TypeOK, job_vars, pos_vars
<1>1. CASE transmitBegin
  <2>1. Clocked' = 0
    BY <1>1 DEF transmitBegin, Clocked
  <2> QED
    BY <2>1, ShiftRegisterAssumption DEF ChainHoldsPrefix, Stage
<1>2. CASE transmitRise
  <2>1. current_byte \in 0..MaxData-1 /\ current_bit \in 0..7
    BY <1>2, ShiftRegisterAssumption DEF transmitRise
  <2>2. Clocked = 8 * current_byte + current_bit /\ Clocked \in Nat
    BY <1>2, <2>1 DEF transmitRise, Clocked
  <2>3. Clocked' = Clocked + 1
    BY <1>2, <2>1 DEF transmitRise, Clocked
  <2>4. DATA' = StreamBit(data, Clocked)
    <3>1. DATA' = data[current_byte][7 - current_bit]
      BY <1>2 DEF transmitRise
    <3>2. data \in Data /\ current_byte \in Nat
      BY <2>1
    <3> QED
      BY ONLY <2>1, <2>2, <3>1, <3>2, NextBit
  <2>5. DATA' \in {0, 1}
    BY <1>2, <2>1 DEF transmitRise, Data, Byte
  <2>6. DriveSRCK(1, DATA') /\ SRCK = 0
    BY <1>2 DEF transmitRise
  <2>7. \A i \in Stage : i < Clocked =>
                           chain[i] = StreamBit(data, Clocked - 1 - i)
    BY <1>2 DEF transmitRise, ChainHoldsPrefix, Transmitting
  <2>8. \A i \in Stage : i < Clocked + 1 =>
                           chain'[i] = StreamBit(data, Clocked - i)
    BY <2>2, <2>4, <2>5, <2>6, <2>7, ShiftAppends
  <2>9. \A i \in Stage : (Clocked + 1) - 1 - i = Clocked - i
    BY <2>2, ShiftRegisterAssumption DEF Stage
  <2>10. data' = data
    BY <1>2 DEF transmitRise
  <2> QED
    BY <2>3, <2>8, <2>9, <2>10 DEF ChainHoldsPrefix
<1>3. ASSUME data' = data, chain' = chain, Clocked' = Clocked, Transmitting
      PROVE  ChainHoldsPrefix'
  BY <1>3 DEF ChainHoldsPrefix
<1>4. CASE transmitFall
  <2>1. Clocked' = Clocked
    BY <1>4 DEF transmitFall, Clocked
  <2> QED
    BY <1>3, <1>4, <2>1 DEF transmitFall, DriveSRCK, Transmitting
<1>5. CASE transmitNextByte
  <2>1. Clocked' = Clocked
    BY <1>5, ShiftRegisterAssumption DEF transmitNextByte, Clocked
  <2> QED
    BY <1>3, <1>5, <2>1 DEF transmitNextByte, Transmitting
<1>6. CASE transmitLatch
  <2>1. Clocked' = Clocked
    BY <1>6 DEF transmitLatch, Clocked
  <2> QED
    BY <1>3, <1>6, <2>1 DEF transmitLatch, Transmitting
<1>7. CASE transmitPause
  <2>1. Clocked' = Clocked
    BY <1>7 DEF transmitPause, Clocked
  <2> QED
    BY <1>3, <1>7, <2>1 DEF transmitPause, Transmitting
<1>8. CASE transmitDone
  BY <1>8 DEF transmitDone, ChainHoldsPrefix, Transmitting
<1>9. ASSUME NEW payload \in Payloads, NEW n \in 1..MaxData,
             APP_ShiftRegister_SendData(payload, n)
      PROVE  ChainHoldsPrefix'
  BY <1>9 DEF APP_ShiftRegister_SendData, ChainHoldsPrefix, Transmitting
<1>10. ASSUME NEW is_enabled \in BOOLEAN,
              APP_ShiftRegister_SetEnabled(is_enabled)
       PROVE  ChainHoldsPrefix'
  BY <1>10 DEF APP_ShiftRegister_SetEnabled, APP_ShiftRegister_IsBusy,
               ChainHoldsPrefix, Transmitting
<1>11. CASE UNCHANGED vars
  BY <1>11 DEF vars, ChainHoldsPrefix, Transmitting, Clocked
<1> QED
  BY <1>1, <1>2, <1>4, <1>5, <1>6, <1>7, <1>8, <1>9, <1>10, <1>11
     DEF Next, APP_ShiftRegister_Tasks

LEMMA Invariance == Spec => []IInv
<1>1. IInv /\ [Next]_vars => IInv'
  BY TypeStep, PositionStep, PrefixStep DEF IInv
<1> QED
  BY InitIInv, <1>1, PTL DEF Spec

(* The variables keep their types.                                         *)
THEOREM TypeCorrect == Spec => []TypeOK
<1>1. IInv => TypeOK
  BY DEF IInv
<1> QED
  BY <1>1, Invariance, PTL

(* While a transfer runs, the near end of the chain is exactly the stream  *)
(* of bits clocked so far, for any number of registers and any payload.    *)
THEOREM PrefixCorrect == Spec => []ChainHoldsPrefix
<1>1. IInv => ChainHoldsPrefix
  BY DEF IInv
<1> QED
  BY <1>1, Invariance, PTL

(* At the end of a transfer of n bytes the chain shows all n of them.      *)
LEMMA FinishShows ==
  ASSUME IInv, state = "TRANSMIT_FINISH"
  PROVE  ShowsBytes(data, num_bytes, chain)
<1>1. Clocked = 8 * num_bytes
  BY DEF IInv, Position, TypeOK, Clocked
<1>2. \A i \in Stage : i < Clocked => chain[i] = StreamBit(data, Clocked - 1 - i)
  BY DEF IInv, ChainHoldsPrefix, Transmitting
<1> QED
  BY <1>1, <1>2 DEF ShowsBytes

(* What the outputs show when they are switched on at the end of a         *)
(* transfer is the complete payload.                                       *)
THEOREM LatchCorrect == Spec => []LatchedWhole
<1>1. IInv => LatchedWhole
  <2> SUFFICES ASSUME IInv, state = "TRANSMIT_FINISH", counter = 1
               PROVE  ShowsBytes(data, num_bytes, storage)
    BY DEF LatchedWhole
  <2>1. storage = chain
    BY DEF IInv, Latched
  <2> QED
    BY <2>1, FinishShows
<1> QED
  BY <1>1, Invariance, PTL
-----------------------------------------------------------------------------
(* Only the rising edge inside a transfer moves the chain and only the     *)
(* latch edge moves the latches, and both happen behind dark outputs.      *)
THEOREM DarkChange == Spec => DarkWhileChanging
<1>1. IInv /\ [Next]_vars =>
        [chain' # chain \/ storage' # storage => G = 1 /\ G' = 1]_vars
  <2> SUFFICES ASSUME IInv, Next, chain' # chain \/ storage' # storage
               PROVE  G = 1 /\ G' = 1
    OBVIOUS
  <2> USE DEF IInv, Position, Transmitting, DriveSRCK, DriveRCK,
              job_vars, pos_vars
  <2>1. CASE transmitBegin
    BY <2>1 DEF transmitBegin
  <2>2. CASE transmitFall
    BY <2>2 DEF transmitFall
  <2>3. CASE transmitNextByte
    BY <2>3 DEF transmitNextByte
  <2>4. CASE transmitRise
    BY <2>4 DEF transmitRise
  <2>5. CASE transmitLatch
    BY <2>5 DEF transmitLatch
  <2>6. CASE transmitDone
    BY <2>6 DEF transmitDone
  <2>7. CASE transmitPause
    BY <2>7 DEF transmitPause
  <2>8. ASSUME NEW payload \in Payloads, NEW n \in 1..MaxData,
               APP_ShiftRegister_SendData(payload, n)
        PROVE  FALSE
    BY <2>8 DEF APP_ShiftRegister_SendData
  <2>9. ASSUME NEW is_enabled \in BOOLEAN,
               APP_ShiftRegister_SetEnabled(is_enabled)
        PROVE  FALSE
    BY <2>9 DEF APP_ShiftRegister_SetEnabled
  <2> QED
    BY <2>1, <2>2, <2>3, <2>4, <2>5, <2>6, <2>7, <2>8, <2>9
       DEF Next, APP_ShiftRegister_Tasks
<1> QED
  BY <1>1, Invariance, PTL DEF Spec, DarkWhileChanging

(* Data is set up while the shift clock is low and held while it is high,  *)
(* and the latch clock moves while the shift clock rests.                  *)
THEOREM SetupAndHold == Spec => PinDiscipline
<1>1. IInv /\ [Next]_vars =>
        [ /\ DATA' # DATA => SRCK = 0
          /\ RCK' # RCK => SRCK = 0 /\ SRCK' = 0 ]_vars
  <2> SUFFICES ASSUME IInv, Next
               PROVE  /\ DATA' # DATA => SRCK = 0
                      /\ RCK' # RCK => SRCK = 0 /\ SRCK' = 0
    OBVIOUS
  <2> USE DEF IInv, Position, Transmitting, DriveSRCK, DriveRCK,
              job_vars, pos_vars
  <2>1. CASE transmitBegin
    BY <2>1 DEF transmitBegin
  <2>2. CASE transmitFall \/ transmitNextByte \/ transmitPause
    BY <2>2 DEF transmitFall, transmitNextByte, transmitPause
  <2>3. CASE transmitRise
    BY <2>3 DEF transmitRise
  <2>4. CASE transmitLatch
    BY <2>4 DEF transmitLatch
  <2>5. CASE transmitDone
    BY <2>5 DEF transmitDone
  <2>6. CASE \/ \E payload \in Payloads, n \in 1..MaxData :
                   APP_ShiftRegister_SendData(payload, n)
             \/ \E is_enabled \in BOOLEAN :
                   APP_ShiftRegister_SetEnabled(is_enabled)
    BY <2>6 DEF APP_ShiftRegister_SendData, APP_ShiftRegister_SetEnabled
  <2> QED
    BY <2>1, <2>2, <2>3, <2>4, <2>5, <2>6 DEF Next, APP_ShiftRegister_Tasks
<1> QED
  BY <1>1, Invariance, PTL DEF Spec, PinDiscipline
-----------------------------------------------------------------------------
(* Refinement.  SendData is Send, transmitBegin is Blank, the latch edge   *)
(* is Latch, the end of transmitFinish is Complete, SetEnabled is itself;  *)
(* clocking bits is invisible.                                             *)
LEMMA RefinesStep == IInv /\ [Next]_vars => [Abstract!Next]_(Abstract!vars)
<1> SUFFICES ASSUME IInv, [Next]_vars
             PROVE  Abstract!Next \/ UNCHANGED Abstract!vars
  BY DEF Abstract!vars
<1> USE DEF APP_ShiftRegister_IsBusy, job_vars, pos_vars
<1>1. CASE transmitBegin
  <2>1. Abstract!Blank
    BY <1>1 DEF transmitBegin, DriveRCK, Abstract!Blank
  <2> QED
    BY <2>1 DEF Abstract!Next
<1>2. CASE transmitFall \/ transmitNextByte \/ transmitRise \/ transmitPause
  BY <1>2 DEF transmitFall, transmitNextByte, transmitRise, transmitPause,
              Abstract!vars
<1>3. CASE transmitLatch
  <2>1. storage' = chain /\ storage' \in Wire
    BY <1>3 DEF transmitLatch, DriveRCK, IInv, Position, TypeOK
  <2>2. ShowsBytes(data, num_bytes, storage')
    BY <1>3, <2>1, FinishShows DEF transmitLatch
  <2>3. Abstract!Latch
    BY <1>3, <2>1, <2>2
       DEF transmitLatch, ShowsJob, IInv, Position, Transmitting,
           Abstract!Latch
  <2> QED
    BY <2>3 DEF Abstract!Next
<1>4. CASE transmitDone
  <2>1. ShowsBytes(data, num_bytes, storage)
    BY <1>4, FinishShows DEF transmitDone, IInv, Latched
  <2>2. Abstract!Complete
    BY <1>4, <2>1
       DEF transmitDone, DriveRCK, ShowsJob, IInv, Position, Transmitting,
           Abstract!Complete
  <2> QED
    BY <2>2 DEF Abstract!Next
<1>5. ASSUME NEW payload \in Payloads, NEW n \in 1..MaxData,
             APP_ShiftRegister_SendData(payload, n)
      PROVE  Abstract!Next
  <2>1. [data |-> payload, num_bytes |-> n] \in Jobs
    BY DEF Jobs
  <2>2. Abstract!Send([data |-> payload, num_bytes |-> n])
    BY <1>5 DEF APP_ShiftRegister_SendData, Abstract!Send
  <2> QED
    BY <2>1, <2>2 DEF Abstract!Next
<1>6. ASSUME NEW is_enabled \in BOOLEAN,
             APP_ShiftRegister_SetEnabled(is_enabled)
      PROVE  Abstract!Next
  <2>1. Abstract!SetEnabled(is_enabled)
    BY <1>6 DEF APP_ShiftRegister_SetEnabled, Abstract!SetEnabled
  <2> QED
    BY <2>1 DEF Abstract!Next
<1>7. CASE UNCHANGED vars
  BY <1>7 DEF vars, Abstract!vars
<1> QED
  BY <1>1, <1>2, <1>3, <1>4, <1>5, <1>6, <1>7
     DEF Next, APP_ShiftRegister_Tasks

(* The pin-level driver implements DisplayLatch, for every number of       *)
(* registers, every set of payloads and every length of transfer.          *)
THEOREM Refinement == Spec => ImplementsLatch
<1>1. Init => Abstract!Init
  BY ShiftRegisterAssumption
     DEF Init, APP_ShiftRegister_IsBusy, Jobs, Abstract!Init
<1> QED
  BY <1>1, RefinesStep, Invariance, PTL
     DEF Spec, ImplementsLatch, Abstract!Safety
=============================================================================
