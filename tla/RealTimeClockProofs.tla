------------------------ MODULE RealTimeClockProofs ------------------------
(***************************************************************************)
(* Proofs about RealTimeClock for any chip, dates, arguments and errors of *)
(* the bus: transfers do not overlap, a command writes nothing but its own *)
(* registers, and a command which ends well has done what it says.         *)
(***************************************************************************)
EXTENDS RealTimeClock, SequenceTheorems, TLAPS

-----------------------------------------------------------------------------
(* The inductive invariant.                                                *)

Busy == state = "status_check"
Complete == transfer.status = "complete"

\* What the bus carries is a whole record, a write has its bytes, and a read
\* stays within the chip.
TransferType ==
  /\ transfer \in [status : {"none", "pending", "complete", "error"},
                   kind : {"none", "write", "private", "storage"},
                   address : Nat, size : Nat, offset : Nat,
                   bytes : Seq(Byte)]
  /\ transfer.kind = "write" =>
       transfer.size = Len(transfer.bytes)
  /\ transfer.kind \in {"private", "storage"} =>
       transfer.address + transfer.size <= NumRegisters

\* Who waits for whom, and the arguments of a date before it is sent.
Control ==
  /\ transfer.status = "pending" => Busy
  /\ Busy => task_state = "running" /\ transfer.status # "none"
  /\ task_state \in {"wait_available", "running"} => command \in Command
  /\ Busy /\ ~clean => command.op \in RegisterOps
  /\ task_state = "wait_available" /\ command.op = "date_set" =>
       \A i \in Field : storage[i - 1] = Bits(DecodedDate(command.date)[i])

Requests(kind, address, size, offset) ==
  /\ transfer.kind = kind /\ transfer.address = address
  /\ transfer.size = size /\ transfer.offset = offset

\* A flag is read with its register, then written back with it; the clock may
\* have changed the register in between.
FlagIsSet(task, address, flag, enable) ==
  \/ /\ next_task = task /\ Requests("private", address, 1, 0)
     /\ address + 1 \notin advanced /\ Complete => private[0] = registers[address]
  \/ /\ next_task = "none" /\ Requests("write", address, 1, 0)
     /\ (flag \in transfer.bytes[1]) = enable
     /\ address + 1 \notin advanced =>
          transfer.bytes[1] \ {flag} = registers[address] \ {flag}
     /\ Complete => (flag \in registers[address]) = enable

FlagIsShown(task, address, flag) ==
  \/ /\ next_task = task /\ Requests("private", address, 1, 0)
     /\ PointsToStorage(4)
     /\ Complete => (flag \in private[0]) = (flag \in registers[address])
  \/ /\ next_task = "none" /\ Complete /\ transfer.kind = "private"
     /\ (storage[0] # {}) = (flag \in registers[address])

\* The registers of the date hold these fields of a date.
Holds(bytes, first, date, fields) ==
  \A i \in fields :
    bytes[i - first] \intersect Mask[i] = convertToBCD(DecodedDate(date)[i])

DateIsSet ==
  \/ /\ next_task = "update_and_transmit" /\ Requests("private", 0, 7, 1)
     /\ date_time = DecodedDate(command.date)
     /\ Complete => \A i \in Field : private[i] \ FieldBits(i) = registers[i - 1] \ FieldBits(i)
  \/ /\ next_task = "none" /\ Requests("write", 0, 7, 0)
     /\ \A i \in Field : transfer.bytes[i] \ FieldBits(i) = registers[i - 1] \ FieldBits(i)
     /\ Representable(command.date) =>
          /\ Holds(transfer.bytes, 0, command.date, Field)
          /\ Complete => Holds(registers, 1, command.date, Field \ advanced)

DateIsShown ==
  /\ next_task = "convert_bcd" /\ Requests("storage", 0, 7, 0)
  /\ PointsToStorage(0)
  /\ Complete => \A i \in Field \ advanced : storage[i - 1] = registers[i - 1]

RegistersAreShown ==
  /\ next_task = "none" /\ Requests("storage", 0, NumRegisters, 0)
  /\ Complete =>
       \A r \in Register : r + 1 \notin advanced => storage[r] = registers[r]

RegisterIsShown ==
  /\ next_task = "none" /\ Requests("storage", command.address, 1, 1)
  /\ Complete /\ command.address + 1 \notin advanced =>
       storage[1] = registers[command.address]

RegisterIsWritten ==
  /\ next_task = "none" /\ Requests("write", command.address, 1, 0)
  /\ transfer.bytes[1] = command.value
  /\ Complete /\ command.address + 1 \notin advanced =>
       registers[command.address] = command.value

\* How far the running command has come.
Work ==
  Busy /\ clean /\ transfer.status # "error" =>
    /\ command.op = "osc_enable" => FlagIsSet("osc_enable", 0, 7, TRUE)
    /\ command.op = "osc_disable" => FlagIsSet("osc_disable", 0, 7, FALSE)
    /\ command.op = "bat_enable" => FlagIsSet("bat_enable", 3, 3, TRUE)
    /\ command.op = "bat_disable" => FlagIsSet("bat_disable", 3, 3, FALSE)
    /\ command.op = "osc_status" => FlagIsShown("osc_status", 0, 7)
    /\ command.op = "bat_status" => FlagIsShown("bat_status", 3, 3)
    /\ command.op = "date_set" => DateIsSet
    /\ command.op = "date_show" => DateIsShown
    /\ command.op = "dump" => RegistersAreShown
    /\ command.op = "register_read" => RegisterIsShown
    /\ command.op = "register_write" => RegisterIsWritten

\* What neither the running command nor the clock has spoilt: fields of the date
\* that was set last.
DateIsKept ==
  /\ last_set # NoDate /\ Representable(last_set)
  /\ task_state = "running" => clean /\ command.op \notin {"date_set", "register_write"}
  => Holds(registers, 1, last_set, kept)

\* A field the clock has advanced is not kept.
KeptIsOld == kept \intersect advanced = {}

\* What a command has done when the clock is not busy with it any more.
Effects ==
  ~Busy /\ clean /\ task_state \in {"none", "running"} =>
    /\ command.op = "osc_enable"  => 7 \in registers[0]
    /\ command.op = "osc_disable" => 7 \notin registers[0]
    /\ command.op = "bat_enable"  => 3 \in registers[3]
    /\ command.op = "bat_disable" => 3 \notin registers[3]
    /\ command.op = "osc_status"  => (storage[0] # {}) = (7 \in registers[0])
    /\ command.op = "bat_status"  => (storage[0] # {}) = (3 \in registers[3])
    /\ command.op = "dump" =>
         \A r \in Register : r + 1 \notin advanced => storage[r] = registers[r]
    /\ command.op = "register_read" /\ command.address + 1 \notin advanced =>
         storage[1] = registers[command.address]
    /\ command.op = "register_write" /\ command.address + 1 \notin advanced =>
         registers[command.address] = command.value
    /\ command.op = "date_show" /\ last_set # NoDate /\ Representable(last_set) =>
         \A i \in kept : storage[i - 1] = Bits(DecodedDate(last_set)[i])
    /\ command.op = "date_set" /\ task_state = "running" /\ Representable(command.date) =>
         Holds(registers, 1, command.date, Field \ advanced)

IInv ==
  /\ TypeOK /\ TransferType /\ Control
  /\ Work /\ DateIsKept /\ KeptIsOld /\ Effects

-----------------------------------------------------------------------------
(* Bytes, numbers and binary coded decimals.                               *)

(* A byte as a number.                                                     *)
LEMMA NumberRange == \A byte : Number(byte) \in 0 .. 255
BY DEF Number

(* Halving again and again.                                                *)
LEMMA Halves == \A n \in Nat : 
   /\ n = 2 * (n \div 2) + (n % 2) /\ n % 2 \in 0..1 
   /\ (n \div 2) \div 2 = n \div 4
   /\ (n \div 4) \div 2 = n \div 8
   /\ (n \div 8) \div 2 = n \div 16
   /\ (n \div 16) \div 2 = n \div 32
   /\ (n \div 32) \div 2 = n \div 64
   /\ (n \div 64) \div 2 = n \div 128
   /\ (n \div 128) \div 2 = n \div 256
<1> TAKE n \in Nat
<1>0. n % 2 \in 0..1
  OBVIOUS
<1>1. n = 2 * (n \div 2) + (n % 2)
  OBVIOUS
<1>2. (n \div 2) \div 2 = n \div 4
  OBVIOUS
<1>3. (n \div 4) \div 2 = n \div 8
  OBVIOUS
<1>4. (n \div 8) \div 2 = n \div 16
  OBVIOUS
<1>5. (n \div 16) \div 2 = n \div 32
  OBVIOUS
<1>6. (n \div 32) \div 2 = n \div 64
  OBVIOUS
<1>7. (n \div 64) \div 2 = n \div 128
  OBVIOUS
<1>8. (n \div 128) \div 2 = n \div 256
  OBVIOUS
<1> QED
  BY <1>0, <1>1, <1>2, <1>3, <1>4, <1>5, <1>6, <1>7, <1>8

(* The bits of a number, one by one.                                       *)
LEMMA InBits == \A n : 
  /\ 0 \in Bits(n) <=> (n \div 1) % 2 = 1
  /\ 1 \in Bits(n) <=> (n \div 2) % 2 = 1
  /\ 2 \in Bits(n) <=> (n \div 4) % 2 = 1
  /\ 3 \in Bits(n) <=> (n \div 8) % 2 = 1
  /\ 4 \in Bits(n) <=> (n \div 16) % 2 = 1
  /\ 5 \in Bits(n) <=> (n \div 32) % 2 = 1
  /\ 6 \in Bits(n) <=> (n \div 64) % 2 = 1
  /\ 7 \in Bits(n) <=> (n \div 128) % 2 = 1
BY DEF Bits, Bit

(* Reading the bits of a number gives it back.                             *)
LEMMA NumberOfBits == \A n \in 0..255 : Number(Bits(n)) = n
<1> TAKE n \in 0..255
<1> DEFINE b(k) == (n \div k) % 2
<1>1. /\ b(1) \in 0..1 /\ b(2) \in 0..1 /\ b(4) \in 0..1 /\ b(8) \in 0..1
      /\ b(16) \in 0..1 /\ b(32) \in 0..1 /\ b(64) \in 0..1 /\ b(128) \in 0..1
  OBVIOUS
<1> DEFINE sum == b(1) + 2 * b(2) + 4 * b(4) + 8 * b(8)
                    + 16 * b(16) + 32 * b(32) + 64 * b(64) + 128 * b(128)
<1>2. n = sum
  <2>1. n \div 256 = 0 /\ n \div 1 = n
    OBVIOUS
  <2>2. n = b(1) + 2 * (n \div 2) /\ n \div 2 \in Nat
    OBVIOUS
  <2>3. n \div 2 = b(2) + 2 * (n \div 4)  /\ n \div 4 \in Nat
    BY Halves
  <2>4. n \div 4 = b(4) + 2 * (n \div 8)  /\ n \div 8 \in Nat
    BY Halves
  <2>5. n \div 8 = b(8) + 2 * (n \div 16)  /\ n \div 16 \in Nat
    BY Halves
  <2>6. n \div 16 = b(16) + 2 * (n \div 32)  /\ n \div 32 \in Nat
    BY Halves
  <2>7. n \div 32 = b(32) + 2 * (n \div 64)  /\ n \div 64 \in Nat
    BY Halves
  <2>8. n \div 64 = b(64) + 2 * (n \div 128)  /\ n \div 128 \in Nat
    BY Halves
  <2>9. n \div 128 = b(128) + 2 * (n \div 256)
    BY Halves
  <2> QED
   BY <2>1, <2>2, <2>3, <2>4, <2>5, <2>6, <2>7, <2>8, <2>9, <1>1
<1>3. Number(Bits(n)) = sum
  <2> HIDE DEF b
  <2> QED
    BY <1>1, InBits DEF Number, b
<1> QED
  BY <1>2, <1>3

(* The bits of two digits side by side.                                    *)
LEMMA Nibbles ==
  \A q \in 0..15, r \in 0..15 : Bits(16*q) \union Bits(r) = Bits(16*q+r)
<1> TAKE q \in 0..15, r \in 0..15
<1> DEFINE n == 16*q+r
<1>0. (n \div 1) % 2 = (r \div 1) % 2 /\ ((16*q) \div 1) % 2 = 0
  OBVIOUS
<1>1. (n \div 2) % 2 = (r \div 2) % 2 /\ ((16*q) \div 2) % 2 = 0
  OBVIOUS
<1>2. (n \div 4) % 2 = (r \div 4) % 2 /\ ((16*q) \div 4) % 2 = 0
  OBVIOUS
<1>3. (n \div 8) % 2 = (r \div 8) % 2 /\ ((16*q) \div 8) % 2 = 0
  OBVIOUS
<1>4. (n \div 16) = ((16*q) \div 16)  /\ r \div 16 = 0
  OBVIOUS
<1>5. (n \div 32) = ((16*q) \div 32)  /\ r \div 32 = 0
  OBVIOUS
<1>6. (n \div 64) = ((16*q) \div 64)  /\ r \div 64 = 0
  OBVIOUS
<1>7. (n \div 128) = ((16*q) \div 128) /\ r \div 128 = 0
  OBVIOUS
<1>8. \A x : Bits(x) \subseteq Bit /\ Bit = {0,1,2,3,4,5,6,7}
  BY DEF Bits, Bit
<1>9. 0 % 2 = 0
  OBVIOUS
<1> HIDE DEF n
<1>10. \A i \in {0,1,2,3,4,5,6,7} :
         i \in Bits(16*q) \union Bits(r) <=> i \in Bits(n)
  <2>0. 0 \in Bits(16*q) \union Bits(r) <=> 0 \in Bits(n)
    BY <1>0, InBits
  <2>1. 1 \in Bits(16*q) \union Bits(r) <=> 1 \in Bits(n)
    BY <1>1, InBits
  <2>2. 2 \in Bits(16*q) \union Bits(r) <=> 2 \in Bits(n)
    BY <1>2, InBits
  <2>3. 3 \in Bits(16*q) \union Bits(r) <=> 3 \in Bits(n)
    BY <1>3, InBits
  <2>4. 4 \in Bits(16*q) \union Bits(r) <=> 4 \in Bits(n)
    BY <1>4, <1>9, InBits
  <2>5. 5 \in Bits(16*q) \union Bits(r) <=> 5 \in Bits(n)
    BY <1>5, <1>9, InBits
  <2>6. 6 \in Bits(16*q) \union Bits(r) <=> 6 \in Bits(n)
    BY <1>6, <1>9, InBits
  <2>7. 7 \in Bits(16*q) \union Bits(r) <=> 7 \in Bits(n)
    BY <1>7, <1>9, InBits
  <2> QED
    BY <2>0, <2>1, <2>2, <2>3, <2>4, <2>5, <2>6, <2>7
<1> QED
  BY <1>8, <1>10 DEF n

(* A number below 160 has two digits, the first of at most four bits.      *)
LEMMA Decimal == \A d \in 0..159 : 
  /\ d \div 10 \in 0..15 /\ d % 10 \in 0..9 /\ d = 10 * (d \div 10) + (d % 10)
  /\ convertToBCD(d) = Bits(16 * (d \div 10) + (d % 10))
<1> TAKE d \in 0..159
<1>1. /\ d \div 10 \in 0..15 /\ d % 10 \in 0..9 /\ d % 10 \in 0..15
  OBVIOUS
<1>2. d = 10 * (d \div 10) + (d % 10)
  OBVIOUS
<1> QED
  BY <1>1, <1>2, Nibbles DEF convertToBCD

(* task_datetime_convertFromBCD undoes the conversion to BCD.              *)
LEMMA DecimalOfBCD == \A d \in 0..159 : convertFromBCD(convertToBCD(d)) = d
<1> TAKE d \in 0..159
<1> DEFINE q == d \div 10 r == d % 10
<1>1. /\ q \in 0..15 /\ r \in 0..15 /\ d = 10 * q + r
      /\ convertToBCD(d) = Bits(16*q+r)
  BY Decimal
<1> HIDE DEF q, r
<1>2. 16*q+r \in 0..255 /\ (16*q+r) \div 16 = q /\ (16*q+r) % 16 = r
  BY <1>1
<1>3. Number(convertToBCD(d)) = 16*q+r
  BY <1>1, <1>2, NumberOfBits
<1> QED
  BY <1>1, <1>2, <1>3 DEF convertFromBCD

(* A small number has no high bits.                                        *)
LEMMA BitsBelow ==
  /\ \A n : Bits(n) \subseteq Bit
  /\ \A n \in 0..127 : Bits(n) \subseteq Low(7)
  /\ \A n \in 0..63 : Bits(n) \subseteq Low(6)
  /\ \A n \in 0..31 : Bits(n) \subseteq Low(5)
  /\ \A n \in 0..15 : Bits(n) \subseteq Low(4)
  /\ \A n \in 0..7 : Bits(n) \subseteq Low(3)
<1>1. \A n : Bits(n) \subseteq Bit /\ Bit = {0,1,2,3,4,5,6,7}
  BY DEF Bits, Bit
<1>2. /\ {0,1,2,3,4,5,6} \subseteq Low(7) /\ {0,1,2,3,4,5} \subseteq Low(6)
      /\ {0,1,2,3,4} \subseteq Low(5) /\ {0,1,2,3} \subseteq Low(4)
      /\ {0,1,2} \subseteq Low(3)
  BY DEF Low
<1>3. ASSUME NEW n \in 0..127 PROVE 7 \notin Bits(n)
  BY InBits
<1>4. ASSUME NEW n \in 0..63 PROVE 6 \notin Bits(n)
  BY InBits
<1>5. ASSUME NEW n \in 0..31 PROVE 5 \notin Bits(n)
  BY InBits
<1>6. ASSUME NEW n \in 0..15 PROVE 4 \notin Bits(n)
  BY InBits
<1>7. ASSUME NEW n \in 0..7 PROVE 3 \notin Bits(n)
  BY InBits
<1>8. /\ 0..63 \subseteq 0..127 /\ 0..31 \subseteq 0..63
      /\ 0..15 \subseteq 0..31 /\ 0..7 \subseteq 0..15
  OBVIOUS
<1> QED
  BY <1>1, <1>2, <1>3, <1>4, <1>5, <1>6, <1>7, <1>8

(* Nor has a small decimal, so that a field of a date stays in its mask.   *)
LEMMA BCDBelow ==
  /\ \A d : convertToBCD(d) \subseteq Bit
  /\ \A d \in 0..79 : convertToBCD(d) \subseteq Low(7)
  /\ \A d \in 0..39 : convertToBCD(d) \subseteq Low(6)
  /\ \A d \in 0..19 : convertToBCD(d) \subseteq Low(5)
  /\ \A d \in 0..9 : convertToBCD(d) \subseteq Low(4)
  /\ \A d \in 0..7 : convertToBCD(d) \subseteq Low(3)
<1>1. /\ \A d \in 0..79 : 16 * (d \div 10) + (d % 10) \in 0..127
      /\ \A d \in 0..39 : 16 * (d \div 10) + (d % 10) \in 0..63
      /\ \A d \in 0..19 : 16 * (d \div 10) + (d % 10) \in 0..31
      /\ \A d \in 0..9 : 16 * (d \div 10) + (d % 10) \in 0..15
      /\ \A d \in 0..7 : 16 * (d \div 10) + (d % 10) \in 0..7
  OBVIOUS
<1>2. /\ 0..79 \subseteq 0..159 /\ 0..39 \subseteq 0..159
      /\ 0..19 \subseteq 0..159 /\ 0..9 \subseteq 0..159 /\ 0..7 \subseteq 0..159
  OBVIOUS
<1>3. \A d : convertToBCD(d) \subseteq Bit
  BY BitsBelow DEF convertToBCD
<1>4. \A d \in 0..159 : convertToBCD(d) = Bits(16 * (d \div 10) + (d % 10))
  BY Decimal
<1> QED
  BY <1>1, <1>2, <1>3, <1>4, BitsBelow, Zenon

(* The seven registers of a date as the bytes of a transfer.               *)
LEMMA Len7 ==
  ASSUME NEW S, NEW f \in [Field -> S]
  PROVE  Len(f) = 7 /\ f \in Seq(S)
<1>1. f \in [1..7 -> S]
  BY DEF Field
<1>2. f \in Seq(S) 
  BY <1>1, SeqDef
<1>3. DOMAIN f = 1..7 /\ DOMAIN f = 1..Len(f) /\ Len(f) \in Nat
  BY <1>1, <1>2, LenProperties
<1> QED
  BY <1>2, <1>3
-----------------------------------------------------------------------------
(* Dates and masks.                                                        *)

(* The fields of a date fit into their bytes; those of a date that can be  *)
(* represented have two digits, of which none leaves its mask.             *)
LEMMA DateFields ==
  ASSUME NEW date \in Dates
  PROVE  /\ DecodedDate(date) \in [Field -> 0 .. 255]
         /\ DecodedDate(date)[1] \in 0 .. 59 /\ DecodedDate(date)[2] \in 0 .. 59
         /\ DecodedDate(date)[3] \in 0 .. 24 /\ DecodedDate(date)[4] \in 0 .. 6
         /\ DecodedDate(date)[5] \in 0 .. 31 /\ DecodedDate(date)[6] \in 0 .. 11
         /\ Representable(date) =>
              DecodedDate(date)[6] \in 0 .. 9 /\ DecodedDate(date)[7] \in 0 .. 159
<1>1. /\ date[1] <= 59 /\ date[2] <= 59 /\ date[3] <= 24 /\ date[4] <= 6
      /\ date[5] <= 31 /\ date[6] <= 11 /\ date[7] \in 2001 .. 2399
  BY RtcAssumption
<1>2. date[1] \in Nat /\ date[2] \in Nat /\ date[3] \in Nat /\ date[4] \in Nat
      /\ date[5] \in Nat /\ date[6] \in Nat
  BY RtcAssumption, ElementOfSeq
<1>3. Field = {1, 2, 3, 4, 5, 6, 7}
  BY DEF Field
<1>4. (date[7] - 2000) % 256 \in 0 .. 255
  BY <1>1
<1>5. date[7] < 2160 => (date[7] - 2000) % 256 \in 0 .. 159
  BY <1>1
<1>6. \A i \in Field : DecodedDate(date)[i] \in 0 .. 255
  BY <1>1, <1>2, <1>3, <1>4 DEF DecodedDate
<1>7. DecodedDate(date) \in [Field -> 0 .. 255]
  BY <1>6 DEF DecodedDate
<1>8. /\ \A i \in 1 .. 6 : DecodedDate(date)[i] = date[i]
      /\ DecodedDate(date)[7] = (date[7] - 2000) % 256
  BY <1>3 DEF DecodedDate
<1>9. /\ DecodedDate(date)[1] = date[1] /\ DecodedDate(date)[2] = date[2]
      /\ DecodedDate(date)[3] = date[3] /\ DecodedDate(date)[4] = date[4]
      /\ DecodedDate(date)[5] = date[5] /\ DecodedDate(date)[6] = date[6]
  BY <1>8
<1>10. Representable(date) =>
         DecodedDate(date)[6] \in 0 .. 9 /\ DecodedDate(date)[7] \in 0 .. 159
  BY <1>2, <1>5, <1>8, <1>9 DEF Representable
<1> QED
  BY <1>1, <1>2, <1>7, <1>9, <1>10

LEMMA MaskFacts ==
  /\ Field = {1, 2, 3, 4, 5, 6, 7} /\ 3 .. 7 = {3, 4, 5, 6, 7}
  /\ Mask[1] = Low(7) /\ Mask[2] = Low(7) /\ Mask[3] = Low(6) /\ Mask[4] = Low(3)
  /\ Mask[5] = Low(6) /\ Mask[6] = Low(4) /\ Mask[7] = Bit
  /\ FieldBits(1) = Low(7) /\ FieldBits(2) = Low(7) /\ FieldBits(3) = Low(6)
  /\ FieldBits(4) = Low(3) /\ FieldBits(5) = Low(6) /\ FieldBits(6) = Low(5)
  /\ FieldBits(7) = Bit
  /\ \A i \in Field : Mask[i] \subseteq FieldBits(i) /\ FieldBits(i) \subseteq Bit
<1>1. Field = {1, 2, 3, 4, 5, 6, 7} /\ 3 .. 7 = {3, 4, 5, 6, 7}
  BY DEF Field
<1>2. /\ Mask[1] = Low(7) /\ Mask[2] = Low(7) /\ Mask[3] = Low(6)
      /\ Mask[4] = Low(3) /\ Mask[5] = Low(6) /\ Mask[6] = Low(4)
      /\ Mask[7] = Bit
  BY DEF Mask, Low, Bit
<1>3. /\ FieldBits(1) = Low(7) /\ FieldBits(2) = Low(7) /\ FieldBits(3) = Low(6)
      /\ FieldBits(4) = Low(3) /\ FieldBits(5) = Low(6) /\ FieldBits(6) = Low(5)
      /\ FieldBits(7) = Bit
  BY <1>2 DEF FieldBits
<1>4. /\ Low(4) \subseteq Low(5) /\ Low(7) \subseteq Bit /\ Low(6) \subseteq Bit
      /\ Low(3) \subseteq Bit /\ Low(5) \subseteq Bit
  BY DEF Low, Bit
<1> QED
  BY <1>1, <1>2, <1>3, <1>4

(* Two decimals for every field, and only bits of its own.                 *)
LEMMA DateInBCD ==
  ASSUME NEW date \in Dates
  PROVE  /\ \A i \in Field : convertToBCD(DecodedDate(date)[i]) \subseteq FieldBits(i)
         /\ Representable(date) =>
              \A i \in Field :
                /\ convertToBCD(DecodedDate(date)[i]) \subseteq Mask[i]
                /\ DecodedDate(date)[i] \in 0 .. 159
<1> DEFINE D == DecodedDate(date)
<1>1. /\ 0 .. 59 \subseteq 0 .. 79 /\ 0 .. 24 \subseteq 0 .. 39
      /\ 0 .. 6 \subseteq 0 .. 7 /\ 0 .. 31 \subseteq 0 .. 39
      /\ 0 .. 11 \subseteq 0 .. 19
  OBVIOUS
<1>2. /\ D[1] \in 0 .. 79 /\ D[2] \in 0 .. 79 /\ D[3] \in 0 .. 39
      /\ D[4] \in 0 .. 7 /\ D[5] \in 0 .. 39 /\ D[6] \in 0 .. 19
      /\ Representable(date) => D[6] \in 0 .. 9 /\ D[7] \in 0 .. 159
  BY <1>1, DateFields
<1>3. /\ 0 .. 39 \subseteq 0 .. 159 /\ 0 .. 7 \subseteq 0 .. 159
      /\ 0 .. 9 \subseteq 0 .. 159 /\ 0 .. 79 \subseteq 0 .. 159
  OBVIOUS
<1> HIDE DEF D
<1> DEFINE B(i) == convertToBCD(D[i])
<1>4. /\ B(1) \subseteq Low(7) /\ B(2) \subseteq Low(7) /\ B(3) \subseteq Low(6)
      /\ B(4) \subseteq Low(3) /\ B(5) \subseteq Low(6) /\ B(6) \subseteq Low(5)
      /\ B(7) \subseteq Bit
      /\ Representable(date) => B(6) \subseteq Low(4)
  BY <1>2, BCDBelow, Zenon
<1>5. Representable(date) =>
        /\ D[1] \in 0 .. 159 /\ D[2] \in 0 .. 159
        /\ D[3] \in 0 .. 159 /\ D[4] \in 0 .. 159 /\ D[5] \in 0 .. 159
        /\ D[6] \in 0 .. 159 /\ D[7] \in 0 .. 159
  BY <1>2, <1>3
<1> HIDE DEF B
<1>6. \A i \in Field : B(i) \subseteq FieldBits(i)
  <2>1. /\ B(1) \subseteq FieldBits(1) /\ B(2) \subseteq FieldBits(2)
        /\ B(3) \subseteq FieldBits(3) /\ B(4) \subseteq FieldBits(4)
        /\ B(5) \subseteq FieldBits(5) /\ B(6) \subseteq FieldBits(6)
        /\ B(7) \subseteq FieldBits(7)
    BY <1>4, MaskFacts, Zenon
  <2> QED
    BY <2>1, MaskFacts
<1>7. Representable(date) =>
        \A i \in Field : B(i) \subseteq Mask[i] /\ D[i] \in 0 .. 159
  <2>1. Representable(date) =>
          /\ B(1) \subseteq Mask[1] /\ B(2) \subseteq Mask[2]
          /\ B(3) \subseteq Mask[3] /\ B(4) \subseteq Mask[4]
          /\ B(5) \subseteq Mask[5] /\ B(6) \subseteq Mask[6]
          /\ B(7) \subseteq Mask[7]
    BY <1>4, MaskFacts, Zenon
  <2> QED
    BY <2>1, <1>5, MaskFacts
<1> QED
  BY <1>6, <1>7 DEF D, B

-----------------------------------------------------------------------------
(* The bus.                                                                *)

LEMMA NoTransferType == ASSUME transfer' = NoTransfer PROVE TransferType'
<1>1. << >> \in Seq(Byte)
  BY EmptySeq
<1>2. NoTransfer \in [status : {"none", "pending", "complete", "error"},
                      kind : {"none", "write", "private", "storage"},
                      address : Nat, size : Nat, offset : Nat,
                      bytes : Seq(Byte)]
  BY <1>1 DEF NoTransfer
<1>3. NoTransfer.kind = "none"
  BY DEF NoTransfer
<1> QED
  BY <1>2, <1>3 DEF TransferType

(* A request is on the bus, or the driver is in error.                     *)
LEMMA ReadRequested ==
  ASSUME transfer.status # "pending",
         NEW kind \in {"private", "storage"}, NEW address \in Nat,
         NEW size \in Nat, NEW offset \in Nat, address + size <= NumRegisters,
         i2c_transmitThenReceive(address, size, kind, offset)
  PROVE  /\ TransferType'
         /\ state' \in {"error", "status_check"}
         /\ state' = "error" => transfer' = NoTransfer
         /\ state' = "status_check" =>
              /\ transfer'.status = "pending" /\ transfer'.kind = kind
              /\ transfer'.address = address /\ transfer'.size = size
              /\ transfer'.offset = offset
<1> DEFINE request == [status |-> "pending", kind |-> kind, address |-> address,
                       size |-> size, offset |-> offset, bytes |-> << >>]
<1>1. \/ transfer' = request /\ state' = "status_check"
      \/ transfer' = NoTransfer /\ state' = "error"
  BY DEF i2c_transmitThenReceive, Transfer
<1>2. << >> \in Seq(Byte)
  BY EmptySeq
<1>3. request \in [status : {"none", "pending", "complete", "error"},
                   kind : {"none", "write", "private", "storage"},
                   address : Nat, size : Nat, offset : Nat,
                   bytes : Seq(Byte)]
  BY <1>2
<1>4. transfer' = request => TransferType'
  BY <1>3 DEF TransferType
<1> QED
  BY <1>1, <1>4, NoTransferType

LEMMA WriteRequested ==
  ASSUME transfer.status # "pending",
         NEW address \in Nat, NEW bytes \in Seq(Byte),
         i2c_transmit(address, bytes)
  PROVE  /\ TransferType'
         /\ state' \in {"error", "status_check"}
         /\ state' = "error" => transfer' = NoTransfer
         /\ state' = "status_check" =>
              /\ transfer'.status = "pending" /\ transfer'.kind = "write"
              /\ transfer'.address = address /\ transfer'.size = Len(bytes)
              /\ transfer'.offset = 0 /\ transfer'.bytes = bytes
<1> DEFINE request == [status |-> "pending", kind |-> "write", address |-> address,
                       size |-> Len(bytes), offset |-> 0, bytes |-> bytes]
<1>1. \/ transfer' = request /\ state' = "status_check"
      \/ transfer' = NoTransfer /\ state' = "error"
  BY DEF i2c_transmit, Transfer
<1>2. Len(bytes) \in Nat
  BY LenProperties
<1>3. request \in [status : {"none", "pending", "complete", "error"},
                   kind : {"none", "write", "private", "storage"},
                   address : Nat, size : Nat, offset : Nat,
                   bytes : Seq(Byte)]
  BY <1>2
<1>4. transfer' = request => TransferType'
  BY <1>3 DEF TransferType
<1> QED
  BY <1>1, <1>4, NoTransferType

(* What the first n bytes of a transfer do.                                *)
LEMMA Moved ==
  ASSUME IInv, NEW n \in Nat, n <= transfer.size, Move(n)
  PROVE  /\ registers' \in [Register -> Byte]
         /\ private' \in [0 .. 7 -> Byte]
         /\ storage' \in [Register -> Byte]
         /\ transfer.kind = "write" =>
              /\ private' = private /\ storage' = storage
              /\ \A r \in Register :
                   registers'[r] = IF r - transfer.address \in 0 .. n - 1
                                   THEN transfer.bytes[r - transfer.address + 1]
                                   ELSE registers[r]
         /\ transfer.kind # "write" => registers' = registers
         /\ transfer.kind = "private" =>
              /\ storage' = storage
              /\ \A i \in 0 .. 7 :
                   private'[i] = IF i - transfer.offset \in 0 .. n - 1
                                 THEN registers[transfer.address + i - transfer.offset]
                                 ELSE private[i]
         /\ transfer.kind = "storage" =>
              /\ private' = private
              /\ \A i \in Register :
                   storage'[i] = IF i - transfer.offset \in 0 .. n - 1
                                 THEN registers[transfer.address + i - transfer.offset]
                                 ELSE storage[i]
<1>1. /\ registers \in [Register -> Byte] /\ private \in [0 .. 7 -> Byte]
      /\ storage \in [Register -> Byte]
      /\ transfer.kind \in {"none", "write", "private", "storage"}
      /\ transfer.address \in Nat /\ transfer.size \in Nat /\ transfer.offset \in Nat
  BY DEF IInv, TypeOK, TransferType
<1>2. CASE transfer.kind = "write"
  <2>1. \A k \in 1 .. transfer.size : transfer.bytes[k] \in Byte
    <3>1. transfer.bytes \in Seq(Byte) /\ transfer.size = Len(transfer.bytes)
      BY <1>2 DEF IInv, TransferType
    <3> QED
      BY <3>1, ElementOfSeq
  <2>2. /\ private' = private /\ storage' = storage
        /\ registers' = [r \in Register |->
                           IF r - transfer.address \in 0 .. n - 1
                           THEN transfer.bytes[r - transfer.address + 1]
                           ELSE registers[r]]
    BY <1>2 DEF Move
  <2>3. \A r \in Register :
          r - transfer.address \in 0 .. n - 1 =>
            r - transfer.address + 1 \in 1 .. transfer.size
    BY <1>1 DEF Register
  <2>4. registers' \in [Register -> Byte]
    BY <1>1, <2>1, <2>2, <2>3
  <2> QED
    BY <1>1, <1>2, <2>2, <2>4
<1>3. ASSUME NEW i \in Int, transfer.kind \in {"private", "storage"},
             i - transfer.offset \in 0 .. n - 1
      PROVE  registers[transfer.address + i - transfer.offset] \in Byte
  <2>1. transfer.address + transfer.size <= NumRegisters
    BY <1>3 DEF IInv, TransferType
  <2>2. transfer.address + i - transfer.offset \in Register
    <3>1. NumRegisters \in Nat
      BY RtcAssumption
    <3>2. i - transfer.offset >= 0 /\ i - transfer.offset < transfer.size
      BY <1>1, <1>3
    <3>3. /\ transfer.address \in Nat /\ transfer.size \in Nat
          /\ transfer.offset \in Nat /\ i \in Int
      BY <1>1, <1>3
    <3>4. /\ transfer.address + i - transfer.offset
               = transfer.address + (i - transfer.offset)
          /\ i - transfer.offset \in Nat
      BY <3>2, <3>3
    <3>5. transfer.address + (i - transfer.offset) \in 0 .. NumRegisters - 1
      BY <2>1, <3>1, <3>2, <3>3, <3>4
    <3> QED
      BY <3>4, <3>5 DEF Register
  <2> QED
    BY <1>1, <2>2
<1>4. CASE transfer.kind = "private"
  <2>1. /\ registers' = registers /\ storage' = storage
        /\ private' = [i \in 0 .. 7 |->
                         IF i - transfer.offset \in 0 .. n - 1
                         THEN registers[transfer.address + i - transfer.offset]
                         ELSE private[i]]
    BY <1>1, <1>4 DEF Move
  <2>2. private' \in [0 .. 7 -> Byte]
    BY <1>1, <1>3, <1>4, <2>1
  <2> QED
    BY <1>1, <1>4, <2>1, <2>2
<1>5. CASE transfer.kind = "storage"
  <2>1. /\ registers' = registers /\ private' = private
        /\ storage' = [i \in Register |->
                         IF i - transfer.offset \in 0 .. n - 1
                         THEN registers[transfer.address + i - transfer.offset]
                         ELSE storage[i]]
    BY <1>1, <1>5 DEF Move
  <2>2. Register \subseteq Int
    BY DEF Register
  <2>3. storage' \in [Register -> Byte]
    BY <1>1, <1>3, <1>5, <2>1, <2>2
  <2> QED
    BY <1>1, <1>5, <2>1, <2>3
<1>6. CASE transfer.kind = "none"
  BY <1>1, <1>6 DEF Move
<1> QED
  BY <1>1, <1>2, <1>4, <1>5, <1>6

(* A transfer ends: the part of the type that says nothing new.            *)
LEMMA Ended ==
  ASSUME TransferType, NEW end \in {"complete", "error"},
         transfer' = [transfer EXCEPT !.status = end]
  PROVE  /\ TransferType' /\ transfer'.status = end
         /\ transfer'.kind = transfer.kind /\ transfer'.address = transfer.address
         /\ transfer'.size = transfer.size /\ transfer'.offset = transfer.offset
         /\ transfer'.bytes = transfer.bytes
<1>1. transfer \in [status : {"none", "pending", "complete", "error"},
                    kind : {"none", "write", "private", "storage"},
                    address : Nat, size : Nat, offset : Nat,
                    bytes : Seq(Byte)]
  BY DEF TransferType
<1>2. /\ transfer'.status = end
      /\ transfer'.kind = transfer.kind /\ transfer'.address = transfer.address
      /\ transfer'.size = transfer.size /\ transfer'.offset = transfer.offset
      /\ transfer'.bytes = transfer.bytes
  BY <1>1
<1>3. transfer' \in [status : {"none", "pending", "complete", "error"},
                     kind : {"none", "write", "private", "storage"},
                     address : Nat, size : Nat, offset : Nat,
                     bytes : Seq(Byte)]
  BY <1>1
<1> QED
  BY <1>2, <1>3 DEF TransferType

-----------------------------------------------------------------------------
(* Commands.                                                               *)

LEMMA CommandFields ==
  ASSUME NEW c \in Command
  PROVE  /\ c.op \in {"osc_enable", "osc_disable", "osc_status", "bat_enable",
                      "bat_disable", "bat_status", "date_show", "date_set",
                      "dump", "register_read", "register_write"}
         /\ c.op = "date_set" => c.date \in Dates
         /\ c.op \in {"register_read", "register_write"} => c.address \in Addresses
         /\ c.op = "register_write" => c.value \in Values
<1>1. CASE c \in appCmdRTCOscillator
  BY <1>1 DEF appCmdRTCOscillator
<1>2. CASE c \in appCmdRTCBattery
  BY <1>2 DEF appCmdRTCBattery
<1>3. CASE c \in appCmdRTCDate
  BY <1>3 DEF appCmdRTCDate
<1>4. CASE c \in appCmdRTCDump
  BY <1>4 DEF appCmdRTCDump
<1>5. CASE c \in appCmdRTCRegister
  BY <1>5 DEF appCmdRTCRegister
<1> QED
  BY <1>1, <1>2, <1>3, <1>4, <1>5 DEF Command

(* What the commands that write have on the bus.                           *)
LEMMA WriteOf ==
  ASSUME IInv, Busy, clean, transfer.status = "pending", transfer.kind = "write"
  PROVE  /\ command.op \in {"osc_enable", "osc_disable", "bat_enable",
                            "bat_disable", "date_set", "register_write"}
         /\ command.op \in {"osc_enable", "osc_disable"} =>
              /\ transfer.address = 0 /\ transfer.size = 1
              /\ 1 \notin advanced => transfer.bytes[1] \ {7} = registers[0] \ {7}
         /\ command.op \in {"bat_enable", "bat_disable"} =>
              /\ transfer.address = 3 /\ transfer.size = 1
              /\ 4 \notin advanced => transfer.bytes[1] \ {3} = registers[3] \ {3}
         /\ command.op = "date_set" =>
              /\ transfer.address = 0 /\ transfer.size = 7
              /\ \A i \in Field : transfer.bytes[i] \ FieldBits(i) = registers[i - 1] \ FieldBits(i)
         /\ command.op = "register_write" =>
              transfer.address = command.address /\ transfer.size = 1
<1>1. command \in Command
  BY DEF IInv, Control
<1>2. transfer.kind # "private" /\ transfer.kind # "storage" /\ ~Complete
  BY DEF Complete
<1>3. Work
  BY DEF IInv
<1>4. CASE command.op = "osc_enable"
  BY <1>2, <1>3, <1>4 DEF Work, FlagIsSet, Requests
<1>5. CASE command.op = "osc_disable"
  BY <1>2, <1>3, <1>5 DEF Work, FlagIsSet, Requests
<1>6. CASE command.op = "bat_enable"
  BY <1>2, <1>3, <1>6 DEF Work, FlagIsSet, Requests
<1>7. CASE command.op = "bat_disable"
  BY <1>2, <1>3, <1>7 DEF Work, FlagIsSet, Requests
<1>8. CASE command.op = "date_set"
  BY <1>2, <1>3, <1>8 DEF Work, DateIsSet, Requests
<1>9. CASE command.op = "register_write"
  BY <1>2, <1>3, <1>9 DEF Work, RegisterIsWritten, Requests
<1>10. command.op \notin {"osc_status", "bat_status", "date_show", "dump", "register_read"}
  BY <1>2, <1>3 DEF Work, FlagIsShown, DateIsShown, RegistersAreShown,
                    RegisterIsShown, Requests
<1> QED
  BY <1>1, <1>4, <1>5, <1>6, <1>7, <1>8, <1>9, <1>10, CommandFields

(* Only what is kept of a date matters to it.                              *)
LEMMA HoldsOn ==
  ASSUME NEW old, NEW new, NEW date, NEW fields, Holds(old, 1, date, fields),
         \A i \in fields : new[i - 1] \intersect Mask[i] = old[i - 1] \intersect Mask[i]
  PROVE  Holds(new, 1, date, fields)
BY DEF Holds

-----------------------------------------------------------------------------
(* The end of a transfer, in either way.                                   *)

LEMMA MoveKeepsDate ==
  ASSUME IInv, transfer.status = "pending",
         NEW n \in Nat, n <= transfer.size, Move(n),
         UNCHANGED <<task_state, command, clean, last_set, kept>>
  PROVE  DateIsKept'
<1> SUFFICES ASSUME last_set # NoDate, Representable(last_set),
                    clean, command.op \notin {"date_set", "register_write"}
             PROVE  Holds(registers', 1, last_set, kept)
  <2>1. task_state = "running"
    BY DEF IInv, Control
  <2> QED
    BY <2>1 DEF DateIsKept, Holds
<1>1. Busy /\ task_state = "running"
  BY DEF IInv, Control
<1>2. Holds(registers, 1, last_set, kept)
  BY <1>1 DEF IInv, DateIsKept
<1>3. \A i \in kept : registers'[i - 1] \intersect Mask[i] = registers[i - 1] \intersect Mask[i]
  <2>1. CASE transfer.kind # "write"
    BY <2>1, Moved
  <2>2. CASE transfer.kind = "write"
    <3>1. \A r \in Register :
            registers'[r] = IF r - transfer.address \in 0 .. n - 1
                            THEN transfer.bytes[r - transfer.address + 1]
                            ELSE registers[r]
      BY <2>2, Moved
    <3>2. /\ kept \subseteq Field /\ \A i \in kept : i \notin advanced
          /\ \A i \in Field : i - 1 \in Register /\ i - 1 \in 0 .. 6
      <4>1. kept \subseteq Field /\ kept \intersect advanced = {}
        BY DEF IInv, TypeOK, KeptIsOld
      <4>2. \A i \in Field : i - 1 \in Register /\ i - 1 \in 0 .. 6
        BY RtcAssumption DEF Register, Field
      <4> QED
        BY <4>1, <4>2
    (* A flag is written back with the rest of its register as it is.      *)
    <3>3. ASSUME NEW address \in {0, 3}, NEW flag, flag \notin Mask[address + 1],
                 transfer.address = address, transfer.size = 1,
                 address + 1 \notin advanced =>
                   transfer.bytes[1] \ {flag} = registers[address] \ {flag}
          PROVE  \A i \in kept : registers'[i - 1] \intersect Mask[i]
                                   = registers[i - 1] \intersect Mask[i]
      <4> SUFFICES ASSUME NEW i \in kept
                   PROVE  registers'[i - 1] \intersect Mask[i]
                            = registers[i - 1] \intersect Mask[i]
        OBVIOUS
      <4>1. /\ i - 1 \in Register /\ i - 1 \in 0 .. 6 /\ i \notin advanced
            /\ i \in 1 .. 7
        BY <3>2 DEF Field
      <4>2. CASE i - 1 = address
        <5>1. registers'[i - 1] \in {transfer.bytes[1], registers[i - 1]}
          BY <3>1, <3>3, <4>1, <4>2
        <5>2. i = address + 1
          BY <4>1, <4>2
        <5>3. transfer.bytes[1] \ {flag} = registers[i - 1] \ {flag}
          BY <3>3, <4>1, <4>2, <5>2
        <5> QED
          BY <3>3, <5>1, <5>2, <5>3
      <4>3. CASE i - 1 # address
        <5>1. i - 1 - transfer.address \notin 0 .. n - 1
          BY <3>3, <4>1, <4>3
        <5> QED
          BY <3>1, <4>1, <5>1
      <4> QED
        BY <4>2, <4>3
    <3>4. 7 \notin Mask[0 + 1] /\ 3 \notin Mask[3 + 1]
      BY MaskFacts DEF Low
    <3>5. CASE command.op \in {"osc_enable", "osc_disable"}
      BY <1>1, <2>2, <3>3, <3>4, <3>5, WriteOf
    <3>6. CASE command.op \in {"bat_enable", "bat_disable"}
      BY <1>1, <2>2, <3>3, <3>4, <3>6, WriteOf
    <3> QED
      BY <1>1, <2>2, <3>5, <3>6, WriteOf
  <2> QED
    BY <2>1, <2>2
<1> QED
  BY <1>2, <1>3, HoldsOn

LEMMA EndKeepsRest ==
  ASSUME IInv, transfer.status = "pending", NEW end \in {"complete", "error"},
         NEW n \in Nat, n <= transfer.size, Move(n),
         transfer' = [transfer EXCEPT !.status = end],
         UNCHANGED <<state, next_task, date_time, task_state, command, history_vars>>
  PROVE  /\ TypeOK' /\ TransferType' /\ Control'
         /\ DateIsKept' /\ KeptIsOld' /\ Effects'
<1>1. Busy /\ task_state = "running" /\ Busy' /\ task_state' = "running"
  BY DEF IInv, Control, Busy
<1>2. TransferType' /\ transfer'.status = end
  BY Ended DEF IInv
<1>3. TypeOK'
  <2>1. /\ registers' \in [Register -> Byte] /\ private' \in [0 .. 7 -> Byte]
        /\ storage' \in [Register -> Byte]
    BY Moved
  <2>2. transfer'.kind \in {"none", "write", "private", "storage"}
    BY <1>2 DEF TransferType
  <2> QED
    BY <1>1, <1>2, <2>1, <2>2 DEF IInv, TypeOK, history_vars
<1>4. Control'
  BY <1>1, <1>2 DEF IInv, Control, Busy, history_vars
<1>5. DateIsKept' /\ KeptIsOld'
  BY MoveKeepsDate DEF IInv, KeptIsOld, history_vars
<1>6. Effects'
  BY <1>1 DEF Effects
<1> QED
  BY <1>2, <1>3, <1>4, <1>5, <1>6

LEMMA TransferFailsStep ==
  ASSUME IInv, TransferFails
  PROVE  IInv'
<1>1. PICK n \in Partial : n <= transfer.size /\ Move(n)
  BY DEF TransferFails
<1>2. n \in Nat
  BY RtcAssumption
<1>3. /\ TypeOK' /\ TransferType' /\ Control'
      /\ DateIsKept' /\ KeptIsOld' /\ Effects'
  BY <1>1, <1>2, EndKeepsRest DEF TransferFails
<1>4. transfer'.status = "error"
  BY Ended DEF IInv, TransferFails
<1>5. Work'
  BY <1>4 DEF Work
<1> QED
  BY <1>3, <1>5 DEF IInv

LEMMA TransferCompletesStep ==
  ASSUME IInv, TransferCompletes
  PROVE  IInv'
<1>1. transfer.size \in Nat /\ transfer.size <= transfer.size
  BY DEF IInv, TransferType
<1>2. /\ TypeOK' /\ TransferType' /\ Control'
      /\ DateIsKept' /\ KeptIsOld' /\ Effects'
  BY <1>1, EndKeepsRest DEF TransferCompletes
<1>3. Work'
  <2> SUFFICES ASSUME clean
               PROVE  Work'
    BY DEF Work, TransferCompletes, history_vars
  <2>1. Busy /\ ~Complete /\ transfer.status # "error" /\ command \in Command
    BY DEF IInv, Control, TransferCompletes, Complete
  <2>2. /\ transfer'.kind = transfer.kind /\ transfer'.address = transfer.address
        /\ transfer'.size = transfer.size /\ transfer'.offset = transfer.offset
        /\ transfer'.bytes = transfer.bytes
    BY Ended DEF IInv, TransferCompletes
  <2>3. UNCHANGED <<command, next_task, date_time, advanced>>
    BY DEF TransferCompletes, history_vars
  <2>4. Work
    BY DEF IInv
  <2>5. \A r \in 0 .. 7 : r \in Register
    BY RtcAssumption DEF Register
  <2>6. transfer.kind = "write" =>
          /\ private' = private /\ storage' = storage
          /\ \A r \in Register :
               registers'[r] = IF r - transfer.address \in 0 .. transfer.size - 1
                               THEN transfer.bytes[r - transfer.address + 1]
                               ELSE registers[r]
    BY <1>1, Moved DEF TransferCompletes
  <2>7. /\ transfer.kind # "write" => registers' = registers
        /\ transfer.kind = "private" =>
             /\ storage' = storage
             /\ \A i \in 0 .. 7 :
                  private'[i] = IF i - transfer.offset \in 0 .. transfer.size - 1
                                THEN registers[transfer.address + i - transfer.offset]
                                ELSE private[i]
    BY <1>1, Moved DEF TransferCompletes
  <2>8. transfer.kind = "storage" =>
          /\ private' = private
          /\ \A i \in Register :
               storage'[i] = IF i - transfer.offset \in 0 .. transfer.size - 1
                             THEN registers[transfer.address + i - transfer.offset]
                             ELSE storage[i]
    BY <1>1, Moved DEF TransferCompletes
  (* One byte to the head of the union, or to a register.                  *)
  <2>9. ASSUME NEW address \in {0, 3}, Requests("private", address, 1, 0)
        PROVE  /\ private'[0] = registers'[address]
               /\ \A i \in 1 .. 7 : private'[i] = private[i]
               /\ storage' = storage /\ registers' = registers
    BY <2>7, <2>9 DEF Requests
  <2>10. ASSUME NEW address \in Register, Requests("write", address, 1, 0)
         PROVE  /\ registers'[address] = transfer.bytes[1]
                /\ private' = private /\ storage' = storage
    BY <2>6, <2>10 DEF Requests, Register
  <2>11. ASSUME NEW task, NEW address \in {0, 3}, NEW flag \in Bit,
                NEW enable \in BOOLEAN, FlagIsSet(task, address, flag, enable)
         PROVE  FlagIsSet(task, address, flag, enable)'
    <3>1. CASE next_task = task /\ Requests("private", address, 1, 0)
      BY <2>2, <2>3, <2>9, <3>1 DEF FlagIsSet, Requests
    <3>2. CASE /\ next_task = "none" /\ Requests("write", address, 1, 0)
               /\ (flag \in transfer.bytes[1]) = enable
      <4>1. address \in Register
        BY <2>5
      <4>2. registers'[address] = transfer.bytes[1]
        BY <2>10, <3>2, <4>1
      <4> QED
        BY <2>2, <2>3, <3>2, <4>2 DEF FlagIsSet, Requests
    <3> QED
      BY <2>11, <3>1, <3>2 DEF FlagIsSet
  <2>12. ASSUME NEW task, NEW address \in {0, 3}, NEW flag \in Bit,
                FlagIsShown(task, address, flag)
         PROVE  FlagIsShown(task, address, flag)'
    <3>1. /\ next_task = task /\ Requests("private", address, 1, 0)
          /\ PointsToStorage(4)
      BY <2>1, <2>12 DEF FlagIsShown
    <3>2. PointsToStorage(4)'
      BY <2>9, <3>1 DEF PointsToStorage
    <3> QED
      BY <2>2, <2>3, <2>9, <3>1, <3>2 DEF FlagIsShown, Requests
  <2>13. command.op = "date_set" => DateIsSet'
    <3> SUFFICES ASSUME command.op = "date_set", DateIsSet
                 PROVE  DateIsSet'
      BY <2>1, <2>4 DEF Work
    <3>1. CASE /\ next_task = "update_and_transmit" /\ Requests("private", 0, 7, 1)
               /\ date_time = DecodedDate(command.date)
      <4>1. registers' = registers /\ \A i \in Field : private'[i] = registers'[i - 1]
        BY <2>7, <3>1 DEF Requests, Field
      <4> QED
        BY <2>2, <2>3, <3>1, <4>1 DEF DateIsSet, Requests
    <3>2. CASE /\ next_task = "none" /\ Requests("write", 0, 7, 0)
               /\ \A i \in Field : transfer.bytes[i] \ FieldBits(i) = registers[i - 1] \ FieldBits(i)
               /\ Representable(command.date) =>
                    Holds(transfer.bytes, 0, command.date, Field)
      <4>1. \A i \in Field : registers'[i - 1] = transfer.bytes[i]
        <5>1. \A i \in Field : i - 1 \in Register /\ i - 1 \in 0 .. 6 /\ (i - 1) + 1 = i
          BY <2>5 DEF Field
        <5>2. transfer.kind = "write" /\ transfer.address = 0 /\ transfer.size = 7
          BY <3>2 DEF Requests
        <5>3. \A r \in Register : r \in 0 .. 6 => registers'[r] = transfer.bytes[r + 1]
          BY <2>6, <5>2 DEF Register
        <5> QED
          BY <5>1, <5>3
      <4>2. Holds(transfer.bytes, 0, command.date, Field) =>
              Holds(registers, 1, command.date, Field \ advanced)'
        <5>1. \A i \in Field : i - 0 = i
          BY DEF Field
        <5> QED
          BY <2>3, <4>1, <5>1 DEF Holds
      <4>3. Holds(transfer.bytes, 0, command.date, Field) =>
              Holds(transfer.bytes, 0, command.date, Field)'
        BY <2>2, <2>3 DEF Holds
      <4> QED
        BY <2>2, <2>3, <3>2, <4>1, <4>2, <4>3 DEF DateIsSet, Requests
    <3> QED
      BY <3>1, <3>2 DEF DateIsSet
  <2>14. command.op = "date_show" => DateIsShown'
    <3> SUFFICES ASSUME DateIsShown
                 PROVE  DateIsShown'
      BY <2>1, <2>4 DEF Work
    <3>1. /\ private' = private /\ registers' = registers
          /\ \A r \in 0 .. 6 : storage'[r] = registers[r]
      BY <2>5, <2>7, <2>8 DEF DateIsShown, Requests
    <3>2. \A i \in Field : storage'[i - 1] = registers'[i - 1]
      BY <3>1 DEF Field
    <3> QED
      BY <2>2, <2>3, <3>1, <3>2 DEF DateIsShown, Requests, PointsToStorage
  <2>15. command.op = "dump" => RegistersAreShown'
    <3> SUFFICES ASSUME RegistersAreShown
                 PROVE  RegistersAreShown'
      BY <2>1, <2>4 DEF Work
    <3>1. registers' = registers /\ \A r \in Register : storage'[r] = registers[r]
      BY <2>7, <2>8 DEF RegistersAreShown, Requests, Register
    <3> QED
      BY <2>2, <2>3, <3>1 DEF RegistersAreShown, Requests
  <2>16. command.op = "register_read" => RegisterIsShown'
    <3> SUFFICES ASSUME command.op = "register_read", RegisterIsShown
                 PROVE  RegisterIsShown'
      BY <2>1, <2>4 DEF Work
    <3>0. command.address \in Register
      BY <2>1, CommandFields, RtcAssumption
    <3>1. command.address \in Nat
      BY <3>0 DEF Register
    <3>2. registers' = registers /\ storage'[1] = registers[command.address]
      <4>1. 1 \in Register
        BY <2>5
      <4>2. /\ transfer.kind = "storage" /\ transfer.address = command.address
            /\ transfer.size = 1 /\ transfer.offset = 1
        BY DEF RegisterIsShown, Requests
      <4>3. command.address + 1 - 1 = command.address /\ 1 - 1 \in 0 .. 1 - 1
        BY <3>1
      <4> QED
        BY <2>7, <2>8, <4>1, <4>2, <4>3
    <3> QED
      BY <2>2, <2>3, <3>2 DEF RegisterIsShown, Requests
  <2>17. command.op = "register_write" => RegisterIsWritten'
    <3> SUFFICES ASSUME command.op = "register_write", RegisterIsWritten
                 PROVE  RegisterIsWritten'
      BY <2>1, <2>4 DEF Work
    <3>1. command.address \in Register
      BY <2>1, CommandFields, RtcAssumption
    <3>2. registers'[command.address] = command.value
      BY <2>10, <3>1 DEF RegisterIsWritten
    <3> QED
      BY <2>2, <2>3, <3>2 DEF RegisterIsWritten, Requests
  <2>18. 7 \in Bit /\ 3 \in Bit
    BY DEF Bit
  <2>19. /\ command.op = "osc_enable" => FlagIsSet("osc_enable", 0, 7, TRUE)'
         /\ command.op = "osc_disable" => FlagIsSet("osc_disable", 0, 7, FALSE)'
         /\ command.op = "bat_enable" => FlagIsSet("bat_enable", 3, 3, TRUE)'
         /\ command.op = "bat_disable" => FlagIsSet("bat_disable", 3, 3, FALSE)'
         /\ command.op = "osc_status" => FlagIsShown("osc_status", 0, 7)'
         /\ command.op = "bat_status" => FlagIsShown("bat_status", 3, 3)'
    BY <2>1, <2>4, <2>11, <2>12, <2>18 DEF Work
  <2> QED
    BY <2>3, <2>13, <2>14, <2>15, <2>16, <2>17, <2>19 DEF Work
<1> QED
  BY <1>2, <1>3 DEF IInv

-----------------------------------------------------------------------------
(* The clock changes the fields up to the last one it carries to, and      *)
(* nothing else of what a command has done.                                *)

LEMMA Ticked ==
  ASSUME TypeOK, ClockTicks
  PROVE  \E last \in Field :
           /\ registers' \in [Register -> Byte]
           /\ \A r \in Register : r >= last => registers'[r] = registers[r]
           /\ \A i \in Field : registers'[i - 1] \ FieldBits(i) = registers[i - 1] \ FieldBits(i)
           /\ kept' = kept \ (1 .. last) /\ advanced' = advanced \union (1 .. last)
<1>1. registers \in [Register -> Byte]
  BY DEF TypeOK
<1> DEFINE New(r, last) ==
             (registers[r] \ FieldBits(r + 1))
               \union (convertToBCD(Advanced(r + 1, last)) \intersect FieldBits(r + 1))
<1>2. PICK last \in Carries :
        /\ registers' = [r \in Register |-> IF r < last THEN New(r, last) ELSE registers[r]]
        /\ kept' = kept \ (1 .. last) /\ advanced' = advanced \union (1 .. last)
  BY DEF ClockTicks
<1>3. last \in Field
  BY DEF Carries, Field
<1>4. \A i \in Field : i - 1 \in Register /\ (i - 1) + 1 = i
  BY RtcAssumption DEF Field, Register
<1>5. \A r \in Register : r < last => r + 1 \in Field
  BY <1>3 DEF Field, Register
<1>6. \A r \in Register : registers[r] \in SUBSET Bit
  BY <1>1 DEF Byte
<1>7. \A r \in Register : r < last => New(r, last) \in SUBSET Bit
  BY <1>5, <1>6, MaskFacts
<1>8. \A r \in Register : New(r, last) \ FieldBits(r + 1) = registers[r] \ FieldBits(r + 1)
  OBVIOUS
<1> HIDE DEF New
<1>9. registers' \in [Register -> Byte]
  BY <1>1, <1>2, <1>7 DEF Byte
<1>10. \A r \in Register : r >= last => registers'[r] = registers[r]
  BY <1>2, <1>3 DEF Register, Field
<1>11. \A r \in Register :
         registers'[r] \ FieldBits(r + 1) = registers[r] \ FieldBits(r + 1)
  BY <1>2, <1>8
<1>12. \A i \in Field : registers'[i - 1] \ FieldBits(i) = registers[i - 1] \ FieldBits(i)
  BY <1>4, <1>11
<1> QED
  BY <1>2, <1>3, <1>9, <1>10, <1>12

LEMMA ClockTicksStep ==
  ASSUME IInv, ClockTicks
  PROVE  IInv'
<1>1. UNCHANGED <<state, next_task, private, date_time, transfer, task_state,
                  command, storage, clean, last_set, entered>>
  BY DEF ClockTicks, driver_vars, task_vars
<1>2. PICK last \in Field :
        /\ registers' \in [Register -> Byte]
        /\ \A r \in Register : r >= last => registers'[r] = registers[r]
        /\ \A i \in Field : registers'[i - 1] \ FieldBits(i) = registers[i - 1] \ FieldBits(i)
        /\ kept' = kept \ (1 .. last) /\ advanced' = advanced \union (1 .. last)
  BY Ticked DEF IInv
<1>3. /\ kept \subseteq Field /\ advanced \subseteq Field /\ kept \intersect advanced = {}
      /\ last \in 1 .. 7
  BY DEF IInv, TypeOK, KeptIsOld, Field
<1>4. /\ kept' \subseteq kept /\ advanced \subseteq advanced' /\ advanced' \subseteq Field
      /\ KeptIsOld'
  BY <1>2, <1>3 DEF KeptIsOld, Field
<1>5. \A r \in Register : r + 1 \notin advanced' => registers'[r] = registers[r]
  BY <1>2, <1>3 DEF Register
<1>6. \A i \in Field \ advanced' : registers'[i - 1] = registers[i - 1]
  <2>1. \A i \in Field : i - 1 \in Register /\ (i - 1) + 1 = i
    BY RtcAssumption DEF Field, Register
  <2> QED
    BY <1>5, <2>1
<1>7. \A i \in kept' : registers'[i - 1] = registers[i - 1]
  BY <1>3, <1>4, <1>6 DEF KeptIsOld
(* The flags are no part of a field.                                       *)
<1>8. /\ (7 \in registers'[0]) = (7 \in registers[0])
      /\ (3 \in registers'[3]) = (3 \in registers[3])
  <2>1. 1 \in Field /\ 4 \in Field /\ 1 - 1 = 0 /\ 4 - 1 = 3
    BY DEF Field
  <2>2. 7 \notin FieldBits(1) /\ 3 \notin FieldBits(4)
    BY MaskFacts DEF Low
  <2>3. /\ registers'[0] \ FieldBits(1) = registers[0] \ FieldBits(1)
        /\ registers'[3] \ FieldBits(4) = registers[3] \ FieldBits(4)
    BY <1>2, <2>1
  <2> QED
    BY <2>2, <2>3
<1>9. TypeOK'
  BY <1>1, <1>2, <1>3, <1>4 DEF IInv, TypeOK
<1>10. TransferType'
  BY <1>1 DEF IInv, TransferType
<1>11. Control'
  BY <1>1 DEF IInv, Control, Busy
<1>12. command \in Command /\ command.op \in {"register_read", "register_write"} =>
         command.address \in Register
  BY CommandFields, RtcAssumption
<1>13. Holds(registers, 1, command.date, Field \ advanced) =>
         Holds(registers, 1, command.date, Field \ advanced)'
  BY <1>1, <1>4, <1>6 DEF Holds
<1>14. Work'
  <2> SUFFICES ASSUME Busy, clean, transfer.status # "error"
               PROVE  Work'
    BY <1>1 DEF Work, Busy
  <2>1. Work /\ command \in Command
    BY DEF IInv, Control
  <2>2. ASSUME NEW task, NEW address \in {0, 3}, NEW flag \in {3, 7}, NEW enable,
               (flag \in registers'[address]) = (flag \in registers[address]),
               FlagIsSet(task, address, flag, enable)
        PROVE  FlagIsSet(task, address, flag, enable)'
    <3>1. address \in Register
      BY RtcAssumption DEF Register
    <3>2. address + 1 \notin advanced' =>
            address + 1 \notin advanced /\ registers'[address] = registers[address]
      BY <1>4, <1>5, <3>1
    <3> QED
      BY <1>1, <2>2, <3>2 DEF FlagIsSet, Requests, Complete
  <2>3. ASSUME NEW task, NEW address \in {0, 3}, NEW flag \in {3, 7},
               (flag \in registers'[address]) = (flag \in registers[address]),
               FlagIsShown(task, address, flag)
        PROVE  FlagIsShown(task, address, flag)'
    BY <1>1, <2>3 DEF FlagIsShown, Requests, Complete, PointsToStorage
  <2>4. DateIsSet => DateIsSet'
    <3>1. Holds(transfer.bytes, 0, command.date, Field)
            => Holds(transfer.bytes, 0, command.date, Field)'
      BY <1>1 DEF Holds
    <3> QED
      BY <1>1, <1>2, <1>13, <3>1 DEF DateIsSet, Requests, Complete
  <2>5. DateIsShown => DateIsShown'
    BY <1>1, <1>4, <1>6 DEF DateIsShown, Requests, Complete, PointsToStorage
  <2>6. RegistersAreShown => RegistersAreShown'
    BY <1>1, <1>4, <1>5 DEF RegistersAreShown, Requests, Complete
  <2>7. command.op = "register_read" /\ RegisterIsShown => RegisterIsShown'
    BY <1>1, <1>4, <1>5, <1>12, <2>1 DEF RegisterIsShown, Requests, Complete
  <2>8. command.op = "register_write" /\ RegisterIsWritten => RegisterIsWritten'
    BY <1>1, <1>4, <1>5, <1>12, <2>1 DEF RegisterIsWritten, Requests, Complete
  <2>9. /\ command.op = "osc_enable" => FlagIsSet("osc_enable", 0, 7, TRUE)'
        /\ command.op = "osc_disable" => FlagIsSet("osc_disable", 0, 7, FALSE)'
        /\ command.op = "bat_enable" => FlagIsSet("bat_enable", 3, 3, TRUE)'
        /\ command.op = "bat_disable" => FlagIsSet("bat_disable", 3, 3, FALSE)'
        /\ command.op = "osc_status" => FlagIsShown("osc_status", 0, 7)'
        /\ command.op = "bat_status" => FlagIsShown("bat_status", 3, 3)'
    BY <1>8, <2>1, <2>2, <2>3 DEF Work
  <2> QED
    BY <1>1, <2>1, <2>4, <2>5, <2>6, <2>7, <2>8, <2>9 DEF Work
<1>15. DateIsKept'
  <2>1. Holds(registers, 1, last_set, kept) => Holds(registers, 1, last_set, kept)'
    BY <1>1, <1>4, <1>7 DEF Holds
  <2> QED
    BY <1>1, <2>1 DEF IInv, DateIsKept
<1>16. Effects'
  <2>1. Effects /\ (task_state = "running" => command \in Command)
    BY DEF IInv, Control
  <2>2. command \in Command \union {NoCommand}
    BY DEF IInv, TypeOK
  <2>3. command.op \in {"register_read", "register_write"} => command \in Command
    BY <2>2 DEF NoCommand
  <2> QED
    BY <1>1, <1>4, <1>5, <1>8, <1>12, <1>13, <2>1, <2>3 DEF Effects, Busy
<1> QED
  BY <1>4, <1>9, <1>10, <1>11, <1>14, <1>15, <1>16 DEF IInv

-----------------------------------------------------------------------------
(* The driver.                                                             *)

(* The types of what a task of the driver changes.                         *)
LEMMA FlagTransmitted ==
  ASSUME IInv, transfer.status # "pending", NEW address \in {0, 3},
         NEW flag \in Bit, NEW enable \in BOOLEAN,
         TransmitFlag(address, flag, enable)
  PROVE  /\ TransferType' /\ private' \in [0 .. 7 -> Byte]
         /\ UNCHANGED <<date_time, storage>>
         /\ state' \in {"error", "status_check"}
         /\ state' = "error" => transfer' = NoTransfer
         /\ state' = "status_check" =>
              /\ transfer'.status = "pending" /\ transfer'.kind = "write"
              /\ transfer'.address = address /\ transfer'.size = 1
              /\ transfer'.offset = 0
              /\ (flag \in transfer'.bytes[1]) = enable
              /\ transfer'.bytes[1] \ {flag} = private[0] \ {flag}
<1> DEFINE value == IF enable THEN private[0] \union {flag} ELSE private[0] \ {flag}
<1>1. /\ private' = [private EXCEPT ![1] = Bits(address), ![2] = value]
      /\ i2c_transmit(address, <<value>>)
      /\ UNCHANGED <<date_time, storage>>
  BY DEF TransmitFlag
<1>2. private \in [0 .. 7 -> Byte]
  BY DEF IInv, TypeOK
<1>3. value \in Byte /\ (flag \in value) = enable /\ value \ {flag} = private[0] \ {flag}
  BY <1>2 DEF Byte
<1> HIDE DEF value
<1>4. private' \in [0 .. 7 -> Byte]
  BY <1>1, <1>2, <1>3, BitsBelow DEF Byte
<1>5. <<value>> \in Seq(Byte) /\ Len(<<value>>) = 1 /\ <<value>>[1] = value
  BY <1>3
<1>6. address \in Nat
  OBVIOUS
<1>7. /\ TransferType' /\ state' \in {"error", "status_check"}
      /\ state' = "error" => transfer' = NoTransfer
      /\ state' = "status_check" =>
           /\ transfer'.status = "pending" /\ transfer'.kind = "write"
           /\ transfer'.address = address /\ transfer'.size = Len(<<value>>)
           /\ transfer'.offset = 0 /\ transfer'.bytes = <<value>>
  BY <1>1, <1>5, <1>6, WriteRequested
<1> QED
  BY <1>1, <1>3, <1>4, <1>5, <1>7

LEMMA FlagReturned ==
  ASSUME IInv, NEW flag, ReturnFlag(flag)
  PROVE  /\ storage' \in [Register -> Byte]
         /\ UNCHANGED <<state, private, date_time, transfer>>
         /\ PointsToStorage(4) => (storage'[0] # {}) = (flag \in private[0])
<1>1. storage \in [Register -> Byte] /\ 0 \in Register /\ {0} \in Byte /\ {} \in Byte
  BY RtcAssumption DEF IInv, TypeOK, Register, Byte, Bit
<1> QED
  BY <1>1 DEF ReturnFlag

LEMMA DateConverted ==
  ASSUME IInv, task_datetime_convertFromBCD
  PROVE  /\ storage' \in [Register -> Byte] /\ state' = "none"
         /\ UNCHANGED <<private, date_time, transfer>>
         /\ PointsToStorage(0) =>
              \A i \in Field :
                storage'[i - 1] = Bits(convertFromBCD(storage[i - 1] \intersect Mask[i]))
<1>1. storage \in [Register -> Byte]
  BY DEF IInv, TypeOK
<1>2. \A n : Bits(n) \in Byte
  BY BitsBelow DEF Byte
<1>3. storage' = [r \in Register |->
                    IF r < 7 /\ PointsToStorage(0)
                    THEN Bits(convertFromBCD(storage[r] \intersect Mask[r + 1]))
                    ELSE storage[r]]
  BY DEF task_datetime_convertFromBCD
<1>4. storage' \in [Register -> Byte]
  BY <1>1, <1>2, <1>3
<1>5. \A i \in Field : i - 1 \in Register /\ i - 1 < 7 /\ (i - 1) + 1 = i
  BY RtcAssumption DEF Field, Register
<1>6. PointsToStorage(0) =>
        \A i \in Field :
          storage'[i - 1] = Bits(convertFromBCD(storage[i - 1] \intersect Mask[i]))
  BY <1>3, <1>5
<1> QED
  BY <1>4, <1>6 DEF task_datetime_convertFromBCD

LEMMA DateTransmitted ==
  ASSUME IInv, transfer.status # "pending", task_datetime_convertToBCDAndTransmit
  PROVE  /\ TransferType' /\ private' \in [0 .. 7 -> Byte]
         /\ UNCHANGED <<date_time, storage>>
         /\ state' \in {"error", "status_check"}
         /\ state' = "error" => transfer' = NoTransfer
         /\ state' = "status_check" =>
              /\ transfer'.status = "pending" /\ transfer'.kind = "write"
              /\ transfer'.address = 0 /\ transfer'.size = 7
              /\ transfer'.offset = 0
              /\ \A i \in Field : transfer'.bytes[i] = Updated(i)
<1> DEFINE bytes == [i \in Field |-> Updated(i)]
<1>1. private \in [0 .. 7 -> Byte]
  BY DEF IInv, TypeOK
<1>2. \A i \in Field : Updated(i) \in Byte
  <2>1. \A i \in Field : private[i] \subseteq Bit
    BY <1>1 DEF Field, Byte
  <2> QED
    BY <2>1, BCDBelow DEF Updated, Byte
<1>3. bytes \in [Field -> Byte] /\ \A i \in Field : bytes[i] = Updated(i)
  BY <1>2
<1>4. /\ private' = [i \in 0 .. 7 |-> IF i = 0 THEN {} ELSE bytes[i]]
      /\ i2c_transmit(0, bytes)
      /\ UNCHANGED <<date_time, storage>>
  BY DEF task_datetime_convertToBCDAndTransmit
<1> HIDE DEF bytes
<1>5. private' \in [0 .. 7 -> Byte]
  <2>1. \A i \in 0 .. 7 : i # 0 => i \in Field
    BY DEF Field
  <2>2. {} \in Byte
    BY DEF Byte
  <2> QED
    BY <1>3, <1>4, <2>1, <2>2
<1>6. bytes \in Seq(Byte) /\ Len(bytes) = 7
  BY <1>3, Len7
<1>7. 0 \in Nat
  OBVIOUS
<1>8. /\ TransferType' /\ state' \in {"error", "status_check"}
      /\ state' = "error" => transfer' = NoTransfer
      /\ state' = "status_check" =>
           /\ transfer'.status = "pending" /\ transfer'.kind = "write"
           /\ transfer'.address = 0 /\ transfer'.size = Len(bytes)
           /\ transfer'.offset = 0 /\ transfer'.bytes = bytes
  BY <1>4, <1>6, <1>7, WriteRequested
<1> QED
  BY <1>3, <1>4, <1>5, <1>6, <1>8

LEMMA NextTaskType ==
  ASSUME IInv, Busy, Complete, NextTask
  PROVE  /\ TransferType' /\ private' \in [0 .. 7 -> Byte]
         /\ storage' \in [Register -> Byte] /\ date_time' = date_time
         /\ state' \in {"none", "error", "status_check"}
         /\ transfer'.status = "pending" => state' = "status_check"
         /\ state' = "status_check" => transfer'.status # "none"
<1> DEFINE Goal ==
      /\ TransferType' /\ private' \in [0 .. 7 -> Byte]
      /\ storage' \in [Register -> Byte] /\ date_time' = date_time
      /\ state' \in {"none", "error", "status_check"}
      /\ transfer'.status = "pending" => state' = "status_check"
      /\ state' = "status_check" => transfer'.status # "none"
<1> SUFFICES Goal
  OBVIOUS
<1>1. /\ transfer.status = "complete" /\ state = "status_check"
      /\ private \in [0 .. 7 -> Byte] /\ storage \in [Register -> Byte]
      /\ NoTransfer.status = "none"
  BY DEF Busy, Complete, IInv, TypeOK, NoTransfer
<1>2. UNCHANGED transfer => TransferType'
  BY DEF IInv, TransferType
<1>3. 7 \in Bit /\ 3 \in Bit
  BY DEF Bit
<1>4. CASE state' = "none" /\ UNCHANGED <<private, date_time, transfer, storage>>
  BY <1>1, <1>2, <1>4
<1>5. ASSUME NEW address \in {0, 3}, NEW flag \in Bit, NEW enable \in BOOLEAN,
             TransmitFlag(address, flag, enable)
      PROVE  Goal
  BY <1>1, <1>5, FlagTransmitted
<1>6. ASSUME NEW flag, ReturnFlag(flag)
      PROVE  Goal
  BY <1>1, <1>2, <1>6, FlagReturned
<1>7. CASE task_datetime_convertFromBCD
  BY <1>1, <1>2, <1>7, DateConverted
<1>8. CASE task_datetime_convertToBCDAndTransmit
  BY <1>1, <1>8, DateTransmitted
<1> HIDE DEF Goal
<1>9. CASE \E enable \in BOOLEAN : task_oscillator_enableOrDisable(enable)
  BY <1>3, <1>5, <1>9 DEF task_oscillator_enableOrDisable
<1>10. CASE \E enable \in BOOLEAN : task_battery_enableOrDisable(enable)
  BY <1>3, <1>5, <1>10 DEF task_battery_enableOrDisable
<1>11. CASE task_oscillator_postStatusReceive \/ task_battery_postStatusReceive
  BY <1>6, <1>11 DEF task_oscillator_postStatusReceive, task_battery_postStatusReceive
<1> QED
  BY <1>4, <1>7, <1>8, <1>9, <1>10, <1>11 DEF NextTask

LEMMA TasksType ==
  ASSUME IInv, RTC_MCP7940N_Tasks
  PROVE  TypeOK' /\ TransferType' /\ Control'
<1>1. /\ Busy /\ task_state = "running" /\ transfer.status # "pending"
      /\ command \in Command
  BY DEF IInv, Control, RTC_MCP7940N_Tasks, Busy
<1>2. /\ TransferType' /\ private' \in [0 .. 7 -> Byte]
      /\ storage' \in [Register -> Byte] /\ date_time' = date_time
      /\ state' \in {"none", "error", "status_check"}
      /\ transfer'.status = "pending" => state' = "status_check"
      /\ state' = "status_check" => transfer'.status # "none"
      /\ next_task' \in Task
  <2>1. CASE /\ transfer.status = "error" /\ state' = "error"
             /\ UNCHANGED <<next_task, private, date_time, transfer, storage>>
    BY <2>1 DEF IInv, TypeOK, TransferType
  <2>2. CASE transfer.status = "complete" /\ NextTask /\ next_task' = "none"
    BY <1>1, <2>2, NextTaskType DEF Complete, Task
  <2> QED
    BY <2>1, <2>2 DEF RTC_MCP7940N_Tasks
<1>3. /\ UNCHANGED <<registers, task_state, command, last_set, kept, advanced, entered>>
      /\ clean' = (clean /\ state' # "error")
  BY DEF RTC_MCP7940N_Tasks
<1>4. TypeOK'
  <2>1. clean' \in BOOLEAN
    BY <1>3, Zenon
  <2>2. /\ transfer'.status \in {"none", "pending", "complete", "error"}
        /\ transfer'.kind \in {"none", "write", "private", "storage"}
    BY <1>2 DEF TransferType
  <2> QED
    BY <1>1, <1>2, <1>3, <2>1, <2>2 DEF IInv, TypeOK
<1>5. Control'
  <2>1. Busy' /\ ~clean' => ~clean
    BY <1>3 DEF Busy
  <2> QED
    BY <1>1, <1>2, <1>3, <2>1 DEF IInv, Control, Busy
<1> QED
  BY <1>2, <1>4, <1>5

(* A flag that was read is written back as asked.                          *)
LEMMA FlagTask ==
  ASSUME IInv, Busy, Complete,
         NEW task \in {"osc_enable", "osc_disable", "bat_enable", "bat_disable"},
         NEW address \in {0, 3}, NEW flag \in Bit, NEW enable \in BOOLEAN,
         FlagIsSet(task, address, flag, enable),
         next_task = task => TransmitFlag(address, flag, enable),
         next_task = "none" => state' = "none",
         next_task' = "none", UNCHANGED <<registers, advanced>>, state' # "error"
  PROVE  /\ Busy' => FlagIsSet(task, address, flag, enable)'
         /\ ~Busy' => (flag \in registers[address]) = enable
<1>1. transfer.status # "pending"
  BY DEF Complete
<1>2. CASE /\ next_task = task
           /\ address + 1 \notin advanced => private[0] = registers[address]
  <2>1. /\ state' = "status_check"
        /\ transfer'.status = "pending" /\ transfer'.kind = "write"
        /\ transfer'.address = address /\ transfer'.size = 1
        /\ transfer'.offset = 0
        /\ (flag \in transfer'.bytes[1]) = enable
        /\ transfer'.bytes[1] \ {flag} = private[0] \ {flag}
    BY <1>1, <1>2, FlagTransmitted
  <2>2. FlagIsSet(task, address, flag, enable)'
    BY <1>2, <2>1 DEF FlagIsSet, Requests, Complete
  <2> QED
    BY <2>1, <2>2 DEF Busy
<1>3. CASE next_task = "none" /\ (flag \in registers[address]) = enable
  BY <1>3 DEF Busy
<1> QED
  BY <1>2, <1>3 DEF FlagIsSet, Complete

(* A flag that was read is shown.                                          *)
LEMMA FlagStatusTask ==
  ASSUME IInv, Busy, Complete, NEW task \in {"osc_status", "bat_status"},
         NEW address \in {0, 3}, NEW flag \in Bit,
         FlagIsShown(task, address, flag),
         next_task = task => ReturnFlag(flag),
         next_task = "none" => state' = "none" /\ UNCHANGED storage,
         next_task' = "none", registers' = registers
  PROVE  /\ Busy' => FlagIsShown(task, address, flag)'
         /\ ~Busy' => (storage'[0] # {}) = (flag \in registers[address])
<1>1. CASE /\ next_task = task /\ Requests("private", address, 1, 0)
           /\ PointsToStorage(4)
           /\ (flag \in private[0]) = (flag \in registers[address])
  <2>1. /\ UNCHANGED <<state, private, date_time, transfer>>
        /\ (storage'[0] # {}) = (flag \in registers[address])
    BY <1>1, FlagReturned
  <2>2. FlagIsShown(task, address, flag)'
    BY <1>1, <2>1 DEF FlagIsShown, Requests, Complete
  <2> QED
    BY <2>1, <2>2
<1>2. CASE next_task = "none" /\ (storage[0] # {}) = (flag \in registers[address])
  BY <1>2 DEF Busy
<1> QED
  BY <1>1, <1>2 DEF FlagIsShown, Complete

(* The bytes of a date that was asked for, with the other bits as read.    *)
LEMMA DateTask ==
  ASSUME IInv, Busy, Complete, command \in Command, command.op = "date_set",
         DateIsSet,
         next_task = "update_and_transmit" => task_datetime_convertToBCDAndTransmit,
         next_task = "none" => state' = "none",
         next_task' = "none", UNCHANGED <<registers, command, advanced>>,
         state' # "error"
  PROVE  /\ Busy' => DateIsSet'
         /\ ~Busy' /\ Representable(command.date) =>
              Holds(registers, 1, command.date, Field \ advanced)
<1> DEFINE D == DecodedDate(command.date)
<1>1. command.date \in Dates
  BY CommandFields
<1>2. transfer.status # "pending"
  BY DEF Complete
<1>3. CASE /\ next_task = "update_and_transmit" /\ date_time = D
           /\ \A i \in Field : private[i] \ FieldBits(i) = registers[i - 1] \ FieldBits(i)
  <2>1. /\ state' = "status_check"
        /\ transfer'.status = "pending" /\ transfer'.kind = "write"
        /\ transfer'.address = 0 /\ transfer'.size = 7 /\ transfer'.offset = 0
        /\ \A i \in Field : transfer'.bytes[i] = Updated(i)
    BY <1>2, <1>3, DateTransmitted
  <2>2. \A i \in Field : transfer'.bytes[i] = (private[i] \ Mask[i]) \union convertToBCD(D[i])
    BY <1>3, <2>1 DEF Updated
  <2> HIDE DEF D
  <2>3. \A i \in Field : transfer'.bytes[i] \ FieldBits(i) = registers[i - 1] \ FieldBits(i)
    <3> TAKE i \in Field
    <3>1. convertToBCD(D[i]) \subseteq FieldBits(i)
      BY <1>1, DateInBCD DEF D
    <3>2. Mask[i] \subseteq FieldBits(i)
      BY MaskFacts
    <3>3. private[i] \ FieldBits(i) = registers[i - 1] \ FieldBits(i)
      BY <1>3
    <3>4. transfer'.bytes[i] = (private[i] \ Mask[i]) \union convertToBCD(D[i])
      BY <2>2
    <3> QED
      BY <3>1, <3>2, <3>3, <3>4
  <2>4. Representable(command.date) =>
          \A i \in Field : transfer'.bytes[i - 0] \intersect Mask[i] = convertToBCD(D[i])
    <3> SUFFICES ASSUME Representable(command.date), NEW i \in Field
                 PROVE  transfer'.bytes[i - 0] \intersect Mask[i] = convertToBCD(D[i])
      OBVIOUS
    <3>1. convertToBCD(D[i]) \subseteq Mask[i]
      BY <1>1, DateInBCD DEF D
    <3>2. i - 0 = i
      BY DEF Field
    <3>3. transfer'.bytes[i] = (private[i] \ Mask[i]) \union convertToBCD(D[i])
      BY <2>2, <3>2
    <3> QED
      BY <3>1, <3>2, <3>3
  <2>5. Representable(command.date) => Holds(transfer.bytes, 0, command.date, Field)'
    BY <2>4 DEF Holds, D
  <2>6. DateIsSet'
    BY <2>1, <2>3, <2>5 DEF DateIsSet, Requests, Complete
  <2> QED
    BY <2>1, <2>6 DEF Busy
<1>4. CASE /\ next_task = "none"
           /\ Representable(command.date) =>
                Holds(registers, 1, command.date, Field \ advanced)
  BY <1>4 DEF Busy
<1> QED
  BY <1>3, <1>4 DEF DateIsSet, Complete

(* A date that was kept is shown.                                          *)
LEMMA DateShowTask ==
  ASSUME IInv, Busy, Complete, clean, command.op = "date_show", DateIsShown,
         task_datetime_convertFromBCD,
         last_set # NoDate, Representable(last_set)
  PROVE  \A i \in kept : storage'[i - 1] = Bits(DecodedDate(last_set)[i])
<1>1. \A i \in Field :
        storage'[i - 1] = Bits(convertFromBCD(storage[i - 1] \intersect Mask[i]))
  BY DateConverted DEF DateIsShown
<1>2. last_set \in Dates
  BY DEF IInv, TypeOK
<1>3. Holds(registers, 1, last_set, kept)
  BY DEF IInv, DateIsKept
<1>4. ASSUME NEW i \in kept
      PROVE  storage'[i - 1] = Bits(DecodedDate(last_set)[i])
  <2>1. i \in Field /\ i \notin advanced
    BY DEF IInv, TypeOK, KeptIsOld
  <2>2. storage[i - 1] = registers[i - 1]
    BY <2>1 DEF DateIsShown
  <2>3. storage[i - 1] \intersect Mask[i] = convertToBCD(DecodedDate(last_set)[i])
    BY <1>3, <2>2 DEF Holds
  <2>4. DecodedDate(last_set)[i] \in 0 .. 159
    BY <1>2, <2>1, DateInBCD
  <2> QED
    BY <1>1, <2>1, <2>3, <2>4, DecimalOfBCD
<1> QED
  BY <1>4

LEMMA TasksStep ==
  ASSUME IInv, RTC_MCP7940N_Tasks
  PROVE  IInv'
<1>1. /\ Busy /\ task_state = "running" /\ transfer.status # "pending"
      /\ command \in Command
  BY DEF IInv, Control, RTC_MCP7940N_Tasks, Busy
<1>2. /\ UNCHANGED <<registers, task_state, command, last_set, kept, advanced, entered>>
      /\ clean' = (clean /\ state' # "error")
  BY DEF RTC_MCP7940N_Tasks
<1>3. TypeOK' /\ TransferType' /\ Control'
  BY TasksType
<1>4. DateIsKept' /\ KeptIsOld'
  BY <1>2 DEF IInv, DateIsKept, Holds, KeptIsOld
<1>5. Work' /\ Effects'
  <2> SUFFICES ASSUME clean, state' # "error"
               PROVE  Work' /\ Effects'
    BY <1>2 DEF Work, Effects
  <2>1. /\ Complete /\ NextTask /\ next_task' = "none"
    BY DEF RTC_MCP7940N_Tasks, Complete
  <2>2. Work /\ Busy /\ clean /\ transfer.status # "error" /\ clean' /\ task_state' = "running"
    BY <1>1, <1>2, <2>1 DEF IInv, Complete
  <2>3. /\ next_task = "none" => state' = "none" /\ UNCHANGED <<private, date_time, transfer, storage>>
        /\ next_task = "osc_enable" => TransmitFlag(0, 7, TRUE)
        /\ next_task = "osc_disable" => TransmitFlag(0, 7, FALSE)
        /\ next_task = "bat_enable" => TransmitFlag(3, 3, TRUE)
        /\ next_task = "bat_disable" => TransmitFlag(3, 3, FALSE)
        /\ next_task = "osc_status" => ReturnFlag(7)
        /\ next_task = "bat_status" => ReturnFlag(3)
        /\ next_task = "convert_bcd" => task_datetime_convertFromBCD
        /\ next_task = "update_and_transmit" => task_datetime_convertToBCDAndTransmit
    BY <2>1 DEF NextTask, task_oscillator_enableOrDisable, task_battery_enableOrDisable,
                task_oscillator_postStatusReceive, task_battery_postStatusReceive
  <2>4. 7 \in Bit /\ 3 \in Bit
    BY DEF Bit
  <2>5. command.op = "osc_enable" =>
          /\ Busy' => FlagIsSet("osc_enable", 0, 7, TRUE)'
          /\ ~Busy' => (7 \in registers[0]) = TRUE
    BY <1>1, <1>2, <2>1, <2>2, <2>3, <2>4, FlagTask DEF Work
  <2>6. command.op = "osc_disable" =>
          /\ Busy' => FlagIsSet("osc_disable", 0, 7, FALSE)'
          /\ ~Busy' => (7 \in registers[0]) = FALSE
    BY <1>1, <1>2, <2>1, <2>2, <2>3, <2>4, FlagTask DEF Work
  <2>7. command.op = "bat_enable" =>
          /\ Busy' => FlagIsSet("bat_enable", 3, 3, TRUE)'
          /\ ~Busy' => (3 \in registers[3]) = TRUE
    BY <1>1, <1>2, <2>1, <2>2, <2>3, <2>4, FlagTask DEF Work
  <2>8. command.op = "bat_disable" =>
          /\ Busy' => FlagIsSet("bat_disable", 3, 3, FALSE)'
          /\ ~Busy' => (3 \in registers[3]) = FALSE
    BY <1>1, <1>2, <2>1, <2>2, <2>3, <2>4, FlagTask DEF Work
  <2>9. command.op = "osc_status" =>
          /\ Busy' => FlagIsShown("osc_status", 0, 7)'
          /\ ~Busy' => (storage'[0] # {}) = (7 \in registers[0])
    BY <1>1, <1>2, <2>1, <2>2, <2>3, <2>4, FlagStatusTask DEF Work
  <2>10. command.op = "bat_status" =>
          /\ Busy' => FlagIsShown("bat_status", 3, 3)'
          /\ ~Busy' => (storage'[0] # {}) = (3 \in registers[3])
    BY <1>1, <1>2, <2>1, <2>2, <2>3, <2>4, FlagStatusTask DEF Work
  <2>11. command.op = "date_set" =>
          /\ Busy' => DateIsSet'
          /\ ~Busy' /\ Representable(command.date) =>
               Holds(registers, 1, command.date, Field \ advanced)
    BY <1>1, <1>2, <2>1, <2>2, <2>3, DateTask DEF Work
  <2>12. command.op = "date_show" =>
          /\ ~Busy'
          /\ last_set # NoDate /\ Representable(last_set) =>
               \A i \in kept : storage'[i - 1] = Bits(DecodedDate(last_set)[i])
    <3> SUFFICES ASSUME command.op = "date_show"
                 PROVE  /\ ~Busy'
                        /\ last_set # NoDate /\ Representable(last_set) =>
                             \A i \in kept :
                               storage'[i - 1] = Bits(DecodedDate(last_set)[i])
      OBVIOUS
    <3>1. DateIsShown /\ task_datetime_convertFromBCD
      BY <2>2, <2>3 DEF Work, DateIsShown
    <3> QED
      BY <1>1, <2>1, <3>1, DateShowTask DEF Busy, task_datetime_convertFromBCD
  <2>13. command.op \in {"dump", "register_read", "register_write"} =>
           next_task = "none" /\ state' = "none" /\ storage' = storage
    BY <2>2, <2>3 DEF Work, RegistersAreShown, RegisterIsShown, RegisterIsWritten
  <2>14. /\ command.op = "dump" =>
              \A r \in Register : r + 1 \notin advanced => storage'[r] = registers[r]
         /\ command.op = "register_read" /\ command.address + 1 \notin advanced =>
              storage'[1] = registers[command.address]
         /\ command.op = "register_write" /\ command.address + 1 \notin advanced =>
              registers[command.address] = command.value
    BY <2>1, <2>2, <2>13 DEF Work, RegistersAreShown, RegisterIsShown, RegisterIsWritten
  <2>15. Work'
    BY <1>2, <2>5, <2>6, <2>7, <2>8, <2>9, <2>10, <2>11, <2>12, <2>13 DEF Work, Busy
  <2>16. Effects'
    <3>1. Holds(registers, 1, command.date, Field \ advanced)
            => Holds(registers, 1, command.date, Field \ advanced)'
      BY <1>2 DEF Holds
    <3> QED
      BY <1>2, <2>5, <2>6, <2>7, <2>8, <2>9, <2>10, <2>11, <2>12, <2>14, <3>1 DEF Effects
  <2> QED
    BY <2>15, <2>16
<1> QED
  BY <1>3, <1>4, <1>5 DEF IInv

-----------------------------------------------------------------------------
(* The command.                                                            *)

LEMMA EnterStep ==
  ASSUME IInv, NEW c \in Command, APP_Command_RTC(c)
  PROVE  IInv'
<1>1. /\ task_state = "none" /\ task_state' = "wait_available" /\ command' = c
      /\ UNCHANGED <<state, next_task, private, date_time, transfer, registers,
                     clean, last_set, kept>>
      /\ advanced' = {}
  BY DEF APP_Command_RTC, driver_vars
<1>2. ~Busy /\ ~Busy'
  BY <1>1 DEF IInv, Control, Busy
<1>3. storage \in [Register -> Byte] /\ \A n : Bits(n) \in Byte
  BY BitsBelow DEF IInv, TypeOK, Byte
<1>4. storage' =
        CASE c.op = "date_set" ->
               [r \in Register |-> IF r < 7 THEN Bits(DecodedDate(c.date)[r + 1]) ELSE storage[r]]
          [] c.op = "register_read" -> [storage EXCEPT ![0] = Bits(c.address)]
          [] c.op = "register_write" ->
               [storage EXCEPT ![0] = Bits(c.address), ![1] = c.value]
          [] OTHER -> storage
  BY DEF APP_Command_RTC
<1>5. c.op = "register_write" => c.value \in Byte
  BY CommandFields, RtcAssumption
<1>6. storage' \in [Register -> Byte]
  <2>1. CASE c.op = "date_set"
    BY <1>3, <1>4, <2>1
  <2>2. CASE c.op = "register_read"
    BY <1>3, <1>4, <2>2
  <2>3. CASE c.op = "register_write"
    BY <1>3, <1>4, <1>5, <2>3
  <2>4. CASE c.op \notin {"date_set", "register_read", "register_write"}
    BY <1>3, <1>4, <2>4
  <2> QED
    BY <2>1, <2>2, <2>3, <2>4
<1>7. c.op = "date_set" =>
        \A i \in Field : storage'[i - 1] = Bits(DecodedDate(c.date)[i])
  <2>1. \A i \in Field : i - 1 \in Register /\ i - 1 < 7 /\ (i - 1) + 1 = i
    BY RtcAssumption DEF Field, Register
  <2> QED
    BY <1>4, <2>1
<1>8. TypeOK'
  BY <1>1, <1>2, <1>6 DEF IInv, TypeOK, Busy
<1>9. TransferType'
  BY <1>1 DEF IInv, TransferType
<1>10. Control'
  BY <1>1, <1>2, <1>7 DEF IInv, Control
<1>11. Work' /\ Effects'
  BY <1>1, <1>2 DEF Work, Effects
<1>12. DateIsKept' /\ KeptIsOld'
  BY <1>1 DEF IInv, DateIsKept, Holds, KeptIsOld
<1> QED
  BY <1>8, <1>9, <1>10, <1>11, <1>12 DEF IInv

LEMMA EndStep ==
  ASSUME IInv, EndCommand
  PROVE  IInv'
<1>1. /\ task_state = "running" /\ ~Busy /\ ~Busy' /\ task_state' = "none"
      /\ UNCHANGED <<state, next_task, private, date_time, transfer, registers,
                     command, storage, clean, advanced>>
  BY DEF EndCommand, RTC_MCP7940N_IsBusy, Busy, driver_vars
<1>2. command \in Command /\ transfer.status # "pending"
  BY <1>1 DEF IInv, Control
<1>3. (CASE clean /\ command.op = "date_set" ->
              last_set' = command.date /\ kept' = Field \ advanced
         [] clean /\ command.op \notin {"date_set", "register_write"} ->
              UNCHANGED <<last_set, kept>>
         [] OTHER -> last_set' = NoDate /\ kept' = {})
  BY DEF EndCommand
<1>4. /\ clean /\ command.op = "date_set" =>
           last_set' = command.date /\ kept' = Field \ advanced
      /\ clean /\ command.op \notin {"date_set", "register_write"} =>
           UNCHANGED <<last_set, kept>>
      /\ ~clean \/ command.op = "register_write" => last_set' = NoDate /\ kept' = {}
  <2>1. CASE clean /\ command.op = "date_set"
    BY <1>3, <2>1
  <2>2. CASE clean /\ command.op \notin {"date_set", "register_write"}
    BY <1>3, <2>2
  <2>3. CASE ~clean \/ command.op = "register_write"
    BY <1>3, <2>3
  <2> QED
    BY <2>1, <2>2, <2>3
<1>5. last_set' \in Dates \union {NoDate}
  <2>1. last_set \in Dates \union {NoDate}
    BY DEF IInv, TypeOK
  <2> QED
    BY <1>2, <1>4, <2>1, CommandFields
<1>6. TypeOK' /\ KeptIsOld'
  <2>1. kept' \subseteq Field /\ KeptIsOld'
    BY <1>1, <1>4 DEF IInv, TypeOK, KeptIsOld
  <2> QED
    BY <1>1, <1>5, <2>1 DEF IInv, TypeOK, Busy
<1>7. TransferType' /\ Control'
  BY <1>1, <1>2 DEF IInv, TransferType, Control
<1>8. Work'
  BY <1>1 DEF Work
<1>9. DateIsKept'
  <2>1. CASE clean /\ command.op = "date_set"
    <3>1. Representable(command.date) =>
            Holds(registers, 1, command.date, Field \ advanced)
      BY <1>1, <2>1 DEF IInv, Effects
    <3>2. Holds(registers, 1, command.date, Field \ advanced)
            => Holds(registers, 1, last_set, kept)'
      BY <1>1, <1>4, <2>1 DEF Holds
    <3> QED
      BY <1>4, <2>1, <3>1, <3>2 DEF DateIsKept
  <2>2. CASE clean /\ command.op \notin {"date_set", "register_write"}
    BY <1>1, <1>4, <2>2 DEF IInv, DateIsKept, Holds
  <2>3. CASE ~clean \/ command.op = "register_write"
    BY <1>4, <2>3 DEF DateIsKept
  <2> QED
    BY <2>1, <2>2, <2>3
<1>10. Effects'
  <2> SUFFICES ASSUME clean
               PROVE  Effects'
    BY <1>1 DEF Effects
  <2>1. command.op = "date_show" => UNCHANGED <<last_set, kept>>
    BY <1>4
  <2>2. Effects
    BY DEF IInv
  <2> QED
    BY <1>1, <2>1, <2>2 DEF Effects
<1> QED
  BY <1>6, <1>7, <1>8, <1>9, <1>10 DEF IInv

(* Power on, and power lost.                                               *)
LEMMA PowerOn ==
  ASSUME registers \in InitialRegisters,
         state = "none", next_task = "none",
         private = [i \in 0 .. 7 |-> {}], date_time = [i \in Field |-> 0],
         transfer = NoTransfer, task_state = "none", command = NoCommand,
         storage = [r \in Register |-> {}], clean = TRUE, last_set = NoDate,
         kept = {}, advanced = {}
  PROVE  IInv
<1>1. TransferType
  <2>1. << >> \in Seq(Byte)
    BY EmptySeq
  <2> QED
    BY <2>1 DEF TransferType, NoTransfer
<1>2. TypeOK
  <2>1. {} \in Byte /\ registers \in [Register -> Byte] /\ 0 \in 0 .. 255
    BY RtcAssumption DEF Byte
  <2>2. private \in [0 .. 7 -> Byte] /\ storage \in [Register -> Byte]
        /\ date_time \in [Field -> 0 .. 255]
    BY <2>1
  <2> QED
    BY <2>1, <2>2 DEF TypeOK, Task, NoTransfer
<1>3. Control /\ Work
  BY DEF Control, Work, Busy, NoTransfer
<1>4. DateIsKept /\ KeptIsOld
  BY DEF DateIsKept, KeptIsOld
<1>5. Effects
  BY DEF Effects, NoCommand
<1> QED
  BY <1>1, <1>2, <1>3, <1>4, <1>5 DEF IInv

LEMMA PowerCycleStep ==
  ASSUME PowerCycle
  PROVE  IInv'
<1>1. task_state' = "none"
  BY DEF PowerCycle
<1>2. TransferType'
  BY NoTransferType DEF PowerCycle
<1>3. TypeOK'
  <2>1. {} \in Byte /\ registers' \in [Register -> Byte] /\ 0 \in 0 .. 255
    BY RtcAssumption DEF Byte, PowerCycle
  <2>2. private' \in [0 .. 7 -> Byte] /\ storage' \in [Register -> Byte]
        /\ date_time' \in [Field -> 0 .. 255]
    BY <2>1 DEF PowerCycle
  <2> QED
    BY <1>1, <2>1, <2>2 DEF TypeOK, Task, NoTransfer, PowerCycle
<1>4. Control' /\ Work'
  BY <1>1 DEF Control, Work, Busy, NoTransfer, PowerCycle
<1>5. DateIsKept' /\ KeptIsOld'
  BY DEF DateIsKept, KeptIsOld, PowerCycle
<1>6. Effects'
  BY DEF Effects, NoCommand, PowerCycle
<1> QED
  BY <1>2, <1>3, <1>4, <1>5, <1>6 DEF IInv

(* What each request leaves on the bus and in the union of the driver.     *)
LEMMA FlagRequested ==
  ASSUME IInv, transfer.status # "pending", NEW task \in Task,
         NEW address \in {0, 3}, EnableFlag(task, address)
  PROVE  /\ TransferType' /\ private' \in [0 .. 7 -> Byte]
         /\ date_time' = date_time /\ next_task' = task
         /\ state' \in {"error", "status_check"}
         /\ state' = "error" => transfer' = NoTransfer
         /\ state' = "status_check" =>
              /\ transfer'.status = "pending" /\ transfer'.kind = "private"
              /\ transfer'.address = address /\ transfer'.size = 1
              /\ transfer'.offset = 0
<1>1. private \in [0 .. 7 -> Byte] /\ \A n : Bits(n) \in Byte
  BY BitsBelow DEF IInv, TypeOK, Byte
<1>2. private' = [private EXCEPT ![1] = Bits(address)]
  BY DEF EnableFlag
<1>3. private' \in [0 .. 7 -> Byte]
  BY <1>1, <1>2
<1>4. /\ address \in Nat /\ 1 \in Nat /\ 0 \in Nat
      /\ address + 1 <= NumRegisters
      /\ "private" \in {"private", "storage"}
  BY RtcAssumption
<1>5. /\ i2c_transmitThenReceive(address, 1, "private", 0)
      /\ date_time' = date_time /\ next_task' = task
  BY DEF EnableFlag
<1> QED
  BY <1>3, <1>4, <1>5, ReadRequested

LEMMA Pointed ==
  ASSUME NEW memory \in [0 .. 7 -> Byte], NEW offset \in {0, 4}
  PROVE  /\ Pointing(memory, offset) \in [0 .. 7 -> Byte]
         /\ \A i \in 0 .. 3 : Pointing(memory, offset)[i + offset] = Pointer[i]
<1>1. Pointer \in [0 .. 3 -> Byte]
  BY RtcAssumption
<1>2. Pointing(memory, offset) \in [0 .. 7 -> Byte]
  BY <1>1 DEF Pointing
<1>3. \A i \in 0 .. 3 : /\ i + offset \in 0 .. 7
                        /\ (i + offset) - offset = i
  OBVIOUS
<1> QED
  BY <1>2, <1>3 DEF Pointing

LEMMA StatusRequested ==
  ASSUME IInv, transfer.status # "pending", NEW task \in Task,
         NEW address \in {0, 3}, FlagStatus(task, address)
  PROVE  /\ TransferType' /\ private' \in [0 .. 7 -> Byte]
         /\ date_time' = date_time /\ next_task' = task
         /\ PointsToStorage(4)'
         /\ state' \in {"error", "status_check"}
         /\ state' = "error" => transfer' = NoTransfer
         /\ state' = "status_check" =>
              /\ transfer'.status = "pending" /\ transfer'.kind = "private"
              /\ transfer'.address = address /\ transfer'.size = 1
              /\ transfer'.offset = 0
<1>1. private \in [0 .. 7 -> Byte]
  BY DEF IInv, TypeOK
<1>2. private' = Pointing(private, 4)
  BY DEF FlagStatus
<1>3. private' \in [0 .. 7 -> Byte] /\ PointsToStorage(4)'
  BY <1>1, <1>2, Pointed DEF PointsToStorage
<1>4. /\ address \in Nat /\ 1 \in Nat /\ 0 \in Nat
      /\ address + 1 <= NumRegisters
      /\ "private" \in {"private", "storage"}
  BY RtcAssumption
<1>5. /\ i2c_transmitThenReceive(address, 1, "private", 0)
      /\ date_time' = date_time /\ next_task' = task
  BY DEF FlagStatus
<1> QED
  BY <1>3, <1>4, <1>5, ReadRequested

LEMMA DateReadRequested ==
  ASSUME IInv, transfer.status # "pending", ReadDateAndTime
  PROVE  /\ TransferType' /\ private' \in [0 .. 7 -> Byte]
         /\ date_time' = date_time /\ next_task' = "convert_bcd"
         /\ PointsToStorage(0)'
         /\ state' \in {"error", "status_check"}
         /\ state' = "error" => transfer' = NoTransfer
         /\ state' = "status_check" =>
              /\ transfer'.status = "pending" /\ transfer'.kind = "storage"
              /\ transfer'.address = 0 /\ transfer'.size = 7
              /\ transfer'.offset = 0
<1> DEFINE memory == [private EXCEPT ![4] = {}]
<1>1. memory \in [0 .. 7 -> Byte]
  BY DEF IInv, TypeOK, Byte
<1>2. private' = Pointing(memory, 0)
  BY DEF ReadDateAndTime
<1> HIDE DEF memory
<1>3. private' \in [0 .. 7 -> Byte] /\ PointsToStorage(0)'
  BY <1>1, <1>2, Pointed DEF PointsToStorage
<1>4. /\ 7 \in Nat /\ 0 \in Nat /\ 0 + 7 <= NumRegisters
      /\ "storage" \in {"private", "storage"}
  BY RtcAssumption
<1>5. /\ i2c_transmitThenReceive(0, 7, "storage", 0)
      /\ date_time' = date_time /\ next_task' = "convert_bcd"
  BY DEF ReadDateAndTime
<1> QED
  BY <1>3, <1>4, <1>5, ReadRequested

LEMMA DateWriteRequested ==
  ASSUME IInv, transfer.status # "pending", NEW date \in [Field -> 0 .. 255],
         WriteDateAndTime(date)
  PROVE  /\ TransferType' /\ private' \in [0 .. 7 -> Byte]
         /\ date_time' = date /\ next_task' = "update_and_transmit"
         /\ state' \in {"error", "status_check"}
         /\ state' = "error" => transfer' = NoTransfer
         /\ state' = "status_check" =>
              /\ transfer'.status = "pending" /\ transfer'.kind = "private"
              /\ transfer'.address = 0 /\ transfer'.size = 7
              /\ transfer'.offset = 1
<1>1. private' = [private EXCEPT ![0] = {}]
  BY DEF WriteDateAndTime
<1>2. private' \in [0 .. 7 -> Byte]
  BY <1>1 DEF IInv, TypeOK, Byte
<1>3. /\ 7 \in Nat /\ 0 \in Nat /\ 1 \in Nat /\ 0 + 7 <= NumRegisters
      /\ "private" \in {"private", "storage"}
  BY RtcAssumption
<1>4. /\ i2c_transmitThenReceive(0, 7, "private", 1)
      /\ date_time' = date /\ next_task' = "update_and_transmit"
  BY DEF WriteDateAndTime
<1> QED
  BY <1>2, <1>3, <1>4, ReadRequested

LEMMA DumpRequested ==
  ASSUME IInv, transfer.status # "pending", ReadNumRegisters
  PROVE  /\ TransferType' /\ private' \in [0 .. 7 -> Byte]
         /\ date_time' = date_time /\ next_task' = next_task
         /\ state' \in {"error", "status_check"}
         /\ state' = "error" => transfer' = NoTransfer
         /\ state' = "status_check" =>
              /\ transfer'.status = "pending" /\ transfer'.kind = "storage"
              /\ transfer'.address = 0 /\ transfer'.size = NumRegisters
              /\ transfer'.offset = 0
<1>1. private' = [private EXCEPT ![0] = {}]
  BY DEF ReadNumRegisters
<1>2. private' \in [0 .. 7 -> Byte]
  BY <1>1 DEF IInv, TypeOK, Byte
<1>3. /\ NumRegisters \in Nat /\ 0 \in Nat /\ 0 + NumRegisters <= NumRegisters
      /\ "storage" \in {"private", "storage"}
  BY RtcAssumption
<1>4. /\ i2c_transmitThenReceive(0, NumRegisters, "storage", 0)
      /\ date_time' = date_time /\ next_task' = next_task
  BY DEF ReadNumRegisters
<1> QED
  BY <1>2, <1>3, <1>4, ReadRequested

LEMMA RegisterReadRequested ==
  ASSUME IInv, transfer.status # "pending", NEW address \in Register,
         ReadRegister(address)
  PROVE  /\ TransferType' /\ private' \in [0 .. 7 -> Byte]
         /\ date_time' = date_time /\ next_task' = next_task
         /\ state' \in {"error", "status_check"}
         /\ state' = "error" => transfer' = NoTransfer
         /\ state' = "status_check" =>
              /\ transfer'.status = "pending" /\ transfer'.kind = "storage"
              /\ transfer'.address = address /\ transfer'.size = 1
              /\ transfer'.offset = 1
<1>1. private \in [0 .. 7 -> Byte] /\ \A n : Bits(n) \in Byte
  BY BitsBelow DEF IInv, TypeOK, Byte
<1>2. private' = [private EXCEPT ![0] = Bits(address)]
  BY DEF ReadRegister
<1>3. private' \in [0 .. 7 -> Byte]
  BY <1>1, <1>2
<1>4. /\ address \in Nat /\ 1 \in Nat
      /\ address + 1 <= NumRegisters
      /\ "storage" \in {"private", "storage"}
  BY RtcAssumption DEF Register
<1>5. /\ i2c_transmitThenReceive(address, 1, "storage", 1)
      /\ date_time' = date_time /\ next_task' = next_task
  BY DEF ReadRegister
<1> QED
  BY <1>3, <1>4, <1>5, ReadRequested

LEMMA RegisterWriteRequested ==
  ASSUME IInv, transfer.status # "pending", NEW address \in Register,
         NEW value \in Byte, WriteRegister(address, value)
  PROVE  /\ TransferType' /\ private' \in [0 .. 7 -> Byte]
         /\ date_time' = date_time /\ next_task' = next_task
         /\ state' \in {"error", "status_check"}
         /\ state' = "error" => transfer' = NoTransfer
         /\ state' = "status_check" =>
              /\ transfer'.status = "pending" /\ transfer'.kind = "write"
              /\ transfer'.address = address /\ transfer'.size = 1
              /\ transfer'.offset = 0 /\ transfer'.bytes[1] = value
<1>1. private \in [0 .. 7 -> Byte] /\ \A n : Bits(n) \in Byte
  BY BitsBelow DEF IInv, TypeOK, Byte
<1>2. private' = [private EXCEPT ![0] = Bits(address), ![1] = value]
  BY DEF WriteRegister
<1>3. private' \in [0 .. 7 -> Byte]
  BY <1>1, <1>2
<1>4. <<value>> \in Seq(Byte) /\ Len(<<value>>) = 1 /\ <<value>>[1] = value
  OBVIOUS
<1>5. address \in Nat
  BY DEF Register
<1>6. /\ i2c_transmit(address, <<value>>)
      /\ date_time' = date_time /\ next_task' = next_task
  BY DEF WriteRegister
<1>7. /\ TransferType' /\ state' \in {"error", "status_check"}
      /\ state' = "error" => transfer' = NoTransfer
      /\ state' = "status_check" =>
           /\ transfer'.status = "pending" /\ transfer'.kind = "write"
           /\ transfer'.address = address /\ transfer'.size = Len(<<value>>)
           /\ transfer'.offset = 0 /\ transfer'.bytes = <<value>>
  BY <1>4, <1>5, <1>6, WriteRequested
<1> QED
  BY <1>3, <1>4, <1>6, <1>7

LEMMA InvokeStep ==
  ASSUME IInv, InvokeCommand
  PROVE  IInv'
<1>1. /\ task_state = "wait_available" /\ ~Busy /\ task_state' = "running"
      /\ Invoke
      /\ clean' = (state' # "error" /\ ~Stale)
      /\ UNCHANGED <<registers, command, storage, last_set, kept, advanced, entered>>
  BY DEF InvokeCommand, RTC_MCP7940N_IsBusy, Busy
<1>2. command \in Command /\ transfer.status # "pending"
  BY <1>1 DEF IInv, Control
<1> DEFINE Outcome ==
      /\ TransferType' /\ private' \in [0 .. 7 -> Byte]
      /\ date_time' \in [Field -> 0 .. 255] /\ next_task' \in Task
      /\ state' \in {"error", "status_check"}
      /\ state' = "error" => transfer' = NoTransfer
      /\ state' = "status_check" => transfer'.status = "pending"
<1> DEFINE Begun == state' = "status_check" /\ clean' => Work'
<1>3. date_time \in [Field -> 0 .. 255] /\ next_task \in Task
  BY DEF IInv, TypeOK
<1>4. \A op \in {"osc_enable", "osc_disable", "osc_status", "bat_enable",
                 "bat_disable", "bat_status", "convert_bcd",
                 "update_and_transmit"} : op \in Task
  BY DEF Task
<1>5. /\ command.op \in {"osc_enable", "osc_disable", "osc_status", "bat_enable",
                         "bat_disable", "bat_status", "date_show", "date_set",
                         "dump", "register_read", "register_write"}
      /\ command.op = "date_set" => command.date \in Dates
      /\ command.op \in {"register_read", "register_write"} =>
           command.address \in Register
      /\ command.op = "register_write" => command.value \in Byte
  BY <1>2, CommandFields, RtcAssumption
<1>6. ASSUME NEW task \in {"osc_enable", "osc_disable", "bat_enable", "bat_disable"},
             NEW address \in {0, 3}, NEW flag \in {3, 7}, NEW enable \in BOOLEAN,
             EnableFlag(task, address)
      PROVE  /\ Outcome
             /\ state' = "status_check" => FlagIsSet(task, address, flag, enable)'
  <2>1. task \in Task
    BY <1>4
  <2>2. /\ TransferType' /\ private' \in [0 .. 7 -> Byte]
        /\ date_time' = date_time /\ next_task' = task
        /\ state' \in {"error", "status_check"}
        /\ state' = "error" => transfer' = NoTransfer
        /\ state' = "status_check" =>
             /\ transfer'.status = "pending" /\ transfer'.kind = "private"
             /\ transfer'.address = address /\ transfer'.size = 1
             /\ transfer'.offset = 0
    BY <1>2, <1>6, <2>1, FlagRequested
  <2>3. Outcome
    BY <1>3, <2>1, <2>2
  <2>4. state' = "status_check" => FlagIsSet(task, address, flag, enable)'
    BY <2>2 DEF FlagIsSet, Requests, Complete
  <2> QED
    BY <2>3, <2>4
<1>7. ASSUME NEW task \in {"osc_status", "bat_status"},
             NEW address \in {0, 3}, NEW flag \in {3, 7}, FlagStatus(task, address)
      PROVE  /\ Outcome
             /\ state' = "status_check" => FlagIsShown(task, address, flag)'
  <2>1. task \in Task
    BY <1>4
  <2>2. /\ TransferType' /\ private' \in [0 .. 7 -> Byte]
        /\ date_time' = date_time /\ next_task' = task
        /\ PointsToStorage(4)'
        /\ state' \in {"error", "status_check"}
        /\ state' = "error" => transfer' = NoTransfer
        /\ state' = "status_check" =>
             /\ transfer'.status = "pending" /\ transfer'.kind = "private"
             /\ transfer'.address = address /\ transfer'.size = 1
             /\ transfer'.offset = 0
    BY <1>2, <1>7, <2>1, StatusRequested
  <2>3. Outcome
    BY <1>3, <2>1, <2>2
  <2>4. state' = "status_check" => FlagIsShown(task, address, flag)'
    BY <2>2 DEF FlagIsShown, Requests, Complete
  <2> QED
    BY <2>3, <2>4
<1>8. ASSUME command.op \in {"osc_enable", "osc_disable", "bat_enable", "bat_disable"}
      PROVE  Outcome /\ Begun
  <2>1. /\ command.op = "osc_enable" => EnableFlag("osc_enable", 0)
        /\ command.op = "osc_disable" => EnableFlag("osc_disable", 0)
        /\ command.op = "bat_enable" => EnableFlag("bat_enable", 3)
        /\ command.op = "bat_disable" => EnableFlag("bat_disable", 3)
    BY <1>1, <1>8 DEF Invoke, performRTCOscillator, performRTCBattery, performRTCDate,
                      performRTCRegister, EnableOscillator, EnableBatteryBackup
  <2>2. /\ Outcome
        /\ state' = "status_check" =>
             /\ command.op = "osc_enable" => FlagIsSet("osc_enable", 0, 7, TRUE)'
             /\ command.op = "osc_disable" => FlagIsSet("osc_disable", 0, 7, FALSE)'
             /\ command.op = "bat_enable" => FlagIsSet("bat_enable", 3, 3, TRUE)'
             /\ command.op = "bat_disable" => FlagIsSet("bat_disable", 3, 3, FALSE)'
    <3> HIDE DEF Outcome
    <3> QED
      BY <1>6, <1>8, <2>1
  <2> HIDE DEF Outcome
  <2> QED
    BY <1>1, <1>8, <2>2 DEF Work
<1>9. ASSUME command.op \in {"osc_status", "bat_status"}
      PROVE  Outcome /\ Begun
  <2>1. /\ command.op = "osc_status" => FlagStatus("osc_status", 0)
        /\ command.op = "bat_status" => FlagStatus("bat_status", 3)
    BY <1>1, <1>9 DEF Invoke, performRTCOscillator, performRTCBattery, performRTCDate,
                      performRTCRegister, OscillatorStatus, BatteryBackupStatus
  <2>2. /\ Outcome
        /\ state' = "status_check" =>
             /\ command.op = "osc_status" => FlagIsShown("osc_status", 0, 7)'
             /\ command.op = "bat_status" => FlagIsShown("bat_status", 3, 3)'
    <3> HIDE DEF Outcome
    <3> QED
      BY <1>7, <1>9, <2>1
  <2> HIDE DEF Outcome
  <2> QED
    BY <1>1, <1>9, <2>2 DEF Work
<1>10. ASSUME command.op = "date_show"
       PROVE  Outcome /\ Begun
  <2>1. ReadDateAndTime
    BY <1>1, <1>10 DEF Invoke, performRTCOscillator, performRTCBattery, performRTCDate,
                       performRTCRegister
  <2>2. /\ TransferType' /\ private' \in [0 .. 7 -> Byte]
        /\ date_time' = date_time /\ next_task' = "convert_bcd"
        /\ PointsToStorage(0)'
        /\ state' \in {"error", "status_check"}
        /\ state' = "error" => transfer' = NoTransfer
        /\ state' = "status_check" =>
             /\ transfer'.status = "pending" /\ transfer'.kind = "storage"
             /\ transfer'.address = 0 /\ transfer'.size = 7
             /\ transfer'.offset = 0
    BY <1>2, <2>1, DateReadRequested
  <2>3. Outcome
    BY <1>3, <1>4, <2>2
  <2>4. state' = "status_check" => DateIsShown'
    BY <2>2 DEF DateIsShown, Requests, Complete
  <2> HIDE DEF Outcome
  <2> QED
    BY <1>1, <1>10, <2>3, <2>4 DEF Work
<1>11. ASSUME command.op = "date_set"
       PROVE  Outcome /\ Begun
  <2> DEFINE date == [i \in Field |-> Number(storage[i - 1])]
  <2>1. WriteDateAndTime(date)
    BY <1>1, <1>11 DEF Invoke, performRTCOscillator, performRTCBattery, performRTCDate,
                       performRTCRegister
  <2>2. date \in [Field -> 0 .. 255]
    BY NumberRange
  <2>3. date = DecodedDate(command.date)
    <3>1. DecodedDate(command.date) \in [Field -> 0 .. 255]
      BY <1>5, <1>11, DateFields
    <3>2. \A i \in Field : storage[i - 1] = Bits(DecodedDate(command.date)[i])
      BY <1>1, <1>11 DEF IInv, Control
    <3>3. \A i \in Field : date[i] = DecodedDate(command.date)[i]
      BY <3>1, <3>2, NumberOfBits
    <3> HIDE DEF date
    <3> QED
      BY <2>2, <3>1, <3>3
  <2> HIDE DEF date
  <2>4. /\ TransferType' /\ private' \in [0 .. 7 -> Byte]
        /\ date_time' = date /\ next_task' = "update_and_transmit"
        /\ state' \in {"error", "status_check"}
        /\ state' = "error" => transfer' = NoTransfer
        /\ state' = "status_check" =>
             /\ transfer'.status = "pending" /\ transfer'.kind = "private"
             /\ transfer'.address = 0 /\ transfer'.size = 7
             /\ transfer'.offset = 1
    BY <1>2, <2>1, <2>2, DateWriteRequested
  <2>5. Outcome
    BY <1>4, <2>2, <2>4
  <2>6. state' = "status_check" => DateIsSet'
    BY <1>1, <2>3, <2>4 DEF DateIsSet, Requests, Complete
  <2> HIDE DEF Outcome
  <2> QED
    BY <1>1, <1>11, <2>5, <2>6 DEF Work
<1>12. ASSUME command.op = "dump"
       PROVE  Outcome /\ Begun
  <2>1. ReadNumRegisters
    BY <1>1, <1>12 DEF Invoke, performRTCOscillator, performRTCBattery, performRTCDate,
                       performRTCRegister
  <2>2. /\ TransferType' /\ private' \in [0 .. 7 -> Byte]
        /\ date_time' = date_time /\ next_task' = next_task
        /\ state' \in {"error", "status_check"}
        /\ state' = "error" => transfer' = NoTransfer
        /\ state' = "status_check" =>
             /\ transfer'.status = "pending" /\ transfer'.kind = "storage"
             /\ transfer'.address = 0 /\ transfer'.size = NumRegisters
             /\ transfer'.offset = 0
    BY <1>2, <2>1, DumpRequested
  <2>3. Outcome
    BY <1>3, <2>2
  <2>4. state' = "status_check" /\ clean' => RegistersAreShown'
    BY <1>1, <1>12, <2>2 DEF RegistersAreShown, Requests, Complete, Stale, RegisterOps
  <2> HIDE DEF Outcome
  <2> QED
    BY <1>1, <1>12, <2>3, <2>4 DEF Work
<1>13. ASSUME command.op = "register_read"
       PROVE  Outcome /\ Begun
  <2>1. ReadRegister(command.address)
    BY <1>1, <1>13 DEF Invoke, performRTCOscillator, performRTCBattery, performRTCDate,
                       performRTCRegister
  <2>2. /\ TransferType' /\ private' \in [0 .. 7 -> Byte]
        /\ date_time' = date_time /\ next_task' = next_task
        /\ state' \in {"error", "status_check"}
        /\ state' = "error" => transfer' = NoTransfer
        /\ state' = "status_check" =>
             /\ transfer'.status = "pending" /\ transfer'.kind = "storage"
             /\ transfer'.address = command.address /\ transfer'.size = 1
             /\ transfer'.offset = 1
    BY <1>2, <1>5, <1>13, <2>1, RegisterReadRequested
  <2>3. Outcome
    BY <1>3, <2>2
  <2>4. state' = "status_check" /\ clean' => RegisterIsShown'
    BY <1>1, <1>13, <2>2 DEF RegisterIsShown, Requests, Complete, Stale, RegisterOps
  <2> HIDE DEF Outcome
  <2> QED
    BY <1>1, <1>13, <2>3, <2>4 DEF Work
<1>14. ASSUME command.op = "register_write"
       PROVE  Outcome /\ Begun
  <2>1. WriteRegister(command.address, command.value)
    BY <1>1, <1>14 DEF Invoke, performRTCOscillator, performRTCBattery, performRTCDate,
                       performRTCRegister
  <2>2. /\ TransferType' /\ private' \in [0 .. 7 -> Byte]
        /\ date_time' = date_time /\ next_task' = next_task
        /\ state' \in {"error", "status_check"}
        /\ state' = "error" => transfer' = NoTransfer
        /\ state' = "status_check" =>
             /\ transfer'.status = "pending" /\ transfer'.kind = "write"
             /\ transfer'.address = command.address /\ transfer'.size = 1
             /\ transfer'.offset = 0 /\ transfer'.bytes[1] = command.value
    BY <1>2, <1>5, <1>14, <2>1, RegisterWriteRequested
  <2>3. Outcome
    BY <1>3, <2>2
  <2>4. state' = "status_check" /\ clean' => RegisterIsWritten'
    BY <1>1, <1>14, <2>2 DEF RegisterIsWritten, Requests, Complete, Stale, RegisterOps
  <2> HIDE DEF Outcome
  <2> QED
    BY <1>1, <1>14, <2>3, <2>4 DEF Work
<1>15. Outcome /\ Begun
  BY <1>5, <1>8, <1>9, <1>10, <1>11, <1>12, <1>13, <1>14
<1>16. TypeOK'
  <2>1. clean' \in BOOLEAN
    BY <1>1, Zenon
  <2>2. /\ transfer'.status \in {"none", "pending", "complete", "error"}
        /\ transfer'.kind \in {"none", "write", "private", "storage"}
    BY <1>15 DEF TransferType
  <2> QED
    BY <1>1, <1>15, <2>1, <2>2 DEF IInv, TypeOK
<1>17. Control'
  <2>1. ~clean' /\ Busy' => command.op \in RegisterOps
    BY <1>1 DEF Stale, Busy
  <2>2. NoTransfer.status = "none"
    BY DEF NoTransfer
  <2> QED
    BY <1>1, <1>2, <1>15, <2>1, <2>2 DEF Control, Busy
<1>18. Work'
  BY <1>15 DEF Work, Busy
<1>19. DateIsKept' /\ KeptIsOld'
  BY <1>1 DEF IInv, DateIsKept, Holds, KeptIsOld
<1>20. Effects'
  BY <1>1, <1>15 DEF Effects, Busy
<1> QED
  BY <1>15, <1>16, <1>17, <1>18, <1>19, <1>20 DEF IInv

-----------------------------------------------------------------------------
(* The theorems.                                                           *)

LEMMA StutterStep ==
  ASSUME IInv, UNCHANGED vars
  PROVE  IInv'
<1>1. UNCHANGED <<state, next_task, private, date_time, transfer, registers,
                  task_state, command, storage, clean, last_set, kept, advanced,
                  entered>>
  BY DEF vars, driver_vars, task_vars, history_vars
<1>2. TypeOK' /\ TransferType' /\ Control'
  BY <1>1 DEF IInv, TypeOK, TransferType, Control, Busy
<1>3. DateIsKept' /\ KeptIsOld' /\ Effects'
  BY <1>1 DEF IInv, DateIsKept, KeptIsOld, Effects, Holds, Busy
<1>4. Work'
  BY <1>1 DEF IInv, Work, FlagIsSet, FlagIsShown, DateIsSet, DateIsShown, Holds,
              RegistersAreShown, RegisterIsShown, RegisterIsWritten, Requests,
              Complete, Busy, PointsToStorage
<1> QED
  BY <1>2, <1>3, <1>4 DEF IInv

(* The invariant is inductive.                                             *)
THEOREM Invariance == Spec => []IInv
<1>1. Init => IInv
  BY PowerOn DEF Init
<1>2. IInv /\ [Next]_vars => IInv'
  <2> SUFFICES ASSUME IInv, [Next]_vars
               PROVE  IInv'
    OBVIOUS
  <2>1. CASE TransferCompletes
    BY <2>1, TransferCompletesStep
  <2>2. CASE TransferFails
    BY <2>2, TransferFailsStep
  <2>3. CASE ClockTicks
    BY <2>3, ClockTicksStep
  <2>4. CASE RTC_MCP7940N_Tasks
    BY <2>4, TasksStep
  <2>5. CASE \E c \in Command : APP_Command_RTC(c)
    BY <2>5, EnterStep
  <2>6. CASE InvokeCommand
    BY <2>6, InvokeStep
  <2>7. CASE EndCommand
    BY <2>7, EndStep
  <2>8. CASE PowerCycle
    BY <2>8, PowerCycleStep
  <2>9. CASE UNCHANGED vars
    BY <2>9, StutterStep
  <2> QED
    BY <2>1, <2>2, <2>3, <2>4, <2>5, <2>6, <2>7, <2>8, <2>9 DEF Next
<1> QED
  BY <1>1, <1>2, PTL DEF Spec

(* The variables of the driver, the command and the chip have their types, *)
(* whatever the errors of the bus, and the clock is busy only for a        *)
(* running command.                                                        *)
THEOREM TypeCorrect == Spec => []TypeOK
<1>1. IInv => TypeOK
  BY DEF IInv
<1> QED
  BY <1>1, Invariance, PTL

(* A command which has ended without an error, with no task of an earlier  *)
(* one run in its place, has done what it says: the flag is as asked, the  *)
(* register as written, and what is shown is what the chip holds; the      *)
(* fields of a date that was set come back which the clock has not         *)
(* advanced since, the day of the week excepted.                           *)
THEOREM Effective == Spec => []CommandsTakeEffect
<1>1. IInv => CommandsTakeEffect
  <2> SUFFICES ASSUME IInv, task_state = "none", clean
               PROVE  CommandsTakeEffect
    BY DEF CommandsTakeEffect
  <2>1. ~Busy /\ Effects
    BY DEF IInv, Control
  <2> QED
    BY <2>1 DEF Effects, CommandsTakeEffect
<1> QED
  BY <1>1, Invariance, PTL

(* The driver never asks for a transfer while one is under way, so that    *)
(* the "Unable to perform I2C transmittance" of a bus in use never comes.  *)
THEOREM NoOverlap == Spec => TransfersDoNotOverlap
<1> DEFINE A == transfer.status = "pending" =>
                  /\ state = "status_check" /\ task_state = "running"
                  /\ transfer' \in {[transfer EXCEPT !.status = end] :
                                      end \in {"pending", "complete", "error"}}
<1>1. IInv /\ [Next]_vars => [A]_vars
  <2> SUFFICES ASSUME IInv, Next, transfer.status = "pending"
               PROVE  A
    OBVIOUS
  <2>1. Busy /\ state = "status_check" /\ task_state = "running"
    BY DEF IInv, Control, Busy
  <2>2. transfer = [transfer EXCEPT !.status = "pending"]
    <3>1. transfer \in [status : {"none", "pending", "complete", "error"},
                        kind : {"none", "write", "private", "storage"},
                        address : Nat, size : Nat, offset : Nat,
                        bytes : Seq(Byte)]
      BY DEF IInv, TransferType
    <3> QED
      BY <3>1
  <2>3. CASE TransferCompletes
    BY <2>1, <2>3 DEF TransferCompletes
  <2>4. CASE TransferFails
    BY <2>1, <2>4 DEF TransferFails
  <2>5. CASE ClockTicks
    BY <2>1, <2>2, <2>5 DEF ClockTicks
  <2>6. ~RTC_MCP7940N_Tasks /\ ~InvokeCommand /\ ~EndCommand /\ ~PowerCycle
    BY <2>1 DEF RTC_MCP7940N_Tasks, InvokeCommand, EndCommand, PowerCycle,
                RTC_MCP7940N_IsBusy
  <2>7. \A c \in Command : ~APP_Command_RTC(c)
    BY <2>1 DEF APP_Command_RTC
  <2> QED
    BY <2>3, <2>4, <2>5, <2>6, <2>7 DEF Next
<1> QED
  BY <1>1, Invariance, PTL DEF Spec, TransfersDoNotOverlap

(* A command writes nothing but its own registers and bits, also when the  *)
(* transfer fails half way, as long as no task of an earlier command runs  *)
(* after its transfer.                                                     *)
THEOREM OwnWrites == Spec => WritesAreOwn
<1> DEFINE A == /\ transfer.status = "pending" /\ transfer' # transfer
                /\ clean \/ command.op \notin RegisterOps
                => \A r \in Register, bit \in Bit :
                     (bit \in registers[r]) # (bit \in registers'[r]) =>
                       <<r, bit>> \in Own(command)
<1>1. IInv /\ [Next]_vars => [A]_vars
  <2> SUFFICES ASSUME IInv, Next, transfer.status = "pending", transfer' # transfer,
                      clean \/ command.op \notin RegisterOps,
                      NEW r \in Register, NEW bit \in Bit,
                      (bit \in registers[r]) # (bit \in registers'[r])
               PROVE  <<r, bit>> \in Own(command)
    OBVIOUS
  <2>1. Busy /\ task_state = "running" /\ clean
    BY DEF IInv, Control, Busy
  <2>2. PICK n \in Nat : n <= transfer.size /\ Move(n)
    <3>1. CASE TransferCompletes
      BY <3>1 DEF TransferCompletes, IInv, TransferType
    <3>2. CASE TransferFails
      BY <3>2, RtcAssumption DEF TransferFails
    <3>3. ~ClockTicks
      BY DEF ClockTicks
    <3>4. ~RTC_MCP7940N_Tasks /\ ~InvokeCommand /\ ~EndCommand /\ ~PowerCycle
      BY <2>1 DEF RTC_MCP7940N_Tasks, InvokeCommand, EndCommand, PowerCycle,
                  RTC_MCP7940N_IsBusy, Busy
    <3>5. \A c \in Command : ~APP_Command_RTC(c)
      BY <2>1 DEF APP_Command_RTC
    <3> QED
      BY <3>1, <3>2, <3>3, <3>4, <3>5 DEF Next
  <2>3. transfer.kind = "write"
    BY <2>2, Moved
  <2>4. /\ r - transfer.address \in 0 .. n - 1
        /\ registers'[r] = transfer.bytes[r - transfer.address + 1]
    BY <2>2, <2>3, Moved
  <2>5. r \in Nat /\ transfer.address \in Nat /\ transfer.size \in Nat
    BY DEF IInv, TransferType, Register
  <2>6. transfer.size = 1 => r = transfer.address
    BY <2>2, <2>4, <2>5
  <2>7. CASE command.op \in {"osc_enable", "osc_disable"}
    BY <2>1, <2>3, <2>6, <2>7, WriteOf DEF Own
  <2>8. CASE command.op \in {"bat_enable", "bat_disable"}
    BY <2>1, <2>3, <2>6, <2>8, WriteOf DEF Own
  <2>9. CASE command.op = "register_write"
    BY <2>1, <2>3, <2>6, <2>9, WriteOf DEF Own
  <2>10. CASE command.op = "date_set"
    <3>1. /\ transfer.address = 0 /\ transfer.size = 7
          /\ \A i \in Field : transfer.bytes[i] \ FieldBits(i) = registers[i - 1] \ FieldBits(i)
      BY <2>1, <2>3, <2>10, WriteOf
    <3>2. r + 1 \in Field /\ (r + 1) - 1 = r /\ r - transfer.address + 1 = r + 1
      BY <2>2, <2>4, <2>5, <3>1 DEF Field
    <3>3. registers'[r] \ FieldBits(r + 1) = registers[r] \ FieldBits(r + 1)
      BY <2>4, <3>1, <3>2
    <3>4. bit \in FieldBits(r + 1)
      BY <3>3
    <3>5. <<r, bit>> \in {(r + 1) - 1} \X FieldBits(r + 1)
      BY <3>2, <3>4
    <3>6. <<r, bit>> \in UNION {{i - 1} \X FieldBits(i) : i \in Field}
      BY <3>2, <3>5
    <3> QED
      BY <2>10, <3>6 DEF Own
  <2> QED
    BY <2>1, <2>3, <2>7, <2>8, <2>9, <2>10, WriteOf
<1> QED
  BY <1>1, Invariance, PTL DEF Spec, WritesAreOwn
=============================================================================
