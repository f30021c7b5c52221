--------------------------- MODULE RtuSlaveProofs ---------------------------
(***************************************************************************)
(* The slave, for stores of every size and every sequence of bytes,        *)
(* commands and application calls: its range check and new-data flags,     *)
(* then what it answers and what a command does to the registers.          *)
(***************************************************************************)
EXTENDS RtuSlave, ReadContextProofs

USE DEF Byte, kReadMultipleHoldingRegisters, kReadInputRegisters,
        kWriteSingleHoldingRegister, kWriteMultipleHoldingRegisters

(* The largest value of a 16-bit word, wherever its size does not matter.  *)
LEMMA MaxWordNat == kMaxWord \in Nat
  BY DEF kMaxWord

(* One address, which may have wrapped around below zero, against a store. *)
LEMMA AddressCheckExact ==
  ASSUME NEW size \in Nat, NEW address \in Int,
         address >= 0 - 1, address <= 2 * kMaxWord
  PROVE  IsAddressValid(size, SizeT(address)) <=> address < size
  <1>1. SizeMod \in Nat /\ SizeMod > 2 * kMaxWord + 1 /\ kMaxWord \in Nat
    BY SizeAssumption, MaxWordNat
  <1>2. CASE address < 0
    <2>1. SizeT(address) = SizeMod - 1
      BY <1>1, <1>2 DEF SizeT
    <2>2. SizeT(SizeT(address) + 1) = 0
      BY <1>1, <2>1 DEF SizeT
    <2> QED BY <1>2, <2>2 DEF IsAddressValid
  <1>3. CASE address >= 0
    <2>1. SizeT(address) = address
      BY <1>1, <1>3 DEF SizeT
    <2>2. SizeT(SizeT(address) + 1) = address + 1
      BY <1>1, <1>3, <2>1 DEF SizeT
    <2> QED BY <1>3, <2>2 DEF IsAddressValid
  <1> QED BY <1>2, <1>3

(* The size_t arithmetic of ReadLocationValid decides exactly whether a    *)
(* range of registers lies in the store: a count of zero and an address    *)
(* near the top of the 16-bit range do not fool it.                        *)
THEOREM RangeCheckExact ==
  ASSUME NEW size \in Nat, NEW address \in Word, NEW count \in Word
  PROVE  ReadLocationValid(size, address, count) <=> InRange(size, address, count)
  <1> DEFINE last == address + count - 1
  <1>1. /\ address \in Nat /\ address <= kMaxWord
        /\ count \in Nat /\ count <= kMaxWord
    BY MaxWordNat DEF Word
  <1>2. last \in Int /\ last >= 0 - 1 /\ last <= 2 * kMaxWord
    BY <1>1, MaxWordNat
  <1>3. last < size <=> address + count <= size
    BY <1>1
  <1>4. address <= 2 * kMaxWord
    BY <1>1, MaxWordNat
  <1>5. SizeT(address) = address
    BY <1>1, <1>4, SizeAssumption, MaxWordNat DEF SizeT
  <1>6. IsAddressValid(size, SizeT(address)) <=> address < size
    BY <1>1, <1>4, AddressCheckExact
  <1>7. ReadLocationValid(size, address, count) <=>
            IsAddressValid(size, address) /\ IsAddressValid(size, SizeT(last))
    BY DEF ReadLocationValid
  <1>8. InRange(size, address, count) <=> address < size /\ address + count <= size
    BY DEF InRange
  <1> HIDE DEF last
  <1>9. IsAddressValid(size, SizeT(last)) <=> last < size
    BY <1>2, AddressCheckExact
  <1> QED BY <1>3, <1>5, <1>6, <1>7, <1>8, <1>9, Zenon

-----------------------------------------------------------------------------
(* Where the dispatch sends each implemented function. *)
LEMMA AddressSpaces ==
  /\ GetAddressSpaceFromFunction(3) = "kHoldingRegister"
  /\ GetAddressSpaceFromFunction(6) = "kHoldingRegister"
  /\ GetAddressSpaceFromFunction(16) = "kHoldingRegister"
  /\ GetAddressSpaceFromFunction(4) = "kInputRegister"
  BY DEF GetAddressSpaceFromFunction

(* The registers a command names, function by function. *)
LEMMA WrittenCases ==
  ASSUME NEW f
  PROVE  /\ f.function = 6 => WrittenBy(f) = {ReadAddressStart(f.data)}
         /\ f.function = 16 => WrittenBy(f) = ReadAddressStart(f.data)
                 .. ReadAddressStart(f.data) + ReadRegisterCount(f.data) - 1
         /\ f.function # 6 /\ f.function # 16 => WrittenBy(f) = {}
  <1>1. f.function = 6 => WrittenBy(f) = {ReadAddressStart(f.data)}
    BY DEF WrittenBy
  <1>2. f.function = 16 => WrittenBy(f) = ReadAddressStart(f.data)
              .. ReadAddressStart(f.data) + ReadRegisterCount(f.data) - 1
    BY DEF WrittenBy
  <1>3. f.function # 6 /\ f.function # 16 => WrittenBy(f) = {}
    BY DEF WrittenBy
  <1> QED BY <1>1, <1>2, <1>3

(* Two bytes make a word. *)
LEMMA WordOfBytes ==
  ASSUME NEW high \in Byte, NEW low \in Byte
  PROVE  MakeMSB(high, low) \in Word
  <1>1. 256 * high + low \in Nat /\ 256 * high + low <= 256 * 256 - 1
    OBVIOUS
  <1>2. MakeMSB(high, low) \in Nat /\ MakeMSB(high, low) <= kMaxWord
    BY <1>1 DEF MakeMSB, kMaxWord
  <1> QED BY <1>2, MaxWordNat DEF Word

(* In a complete frame of an implemented function the address and count    *)
(* fields are there and are words.                                         *)
LEMMA FieldsAreWords ==
  ASSUME FramingInv, PacketReceived, frame.function \in ImplementedFunctions
  PROVE  /\ ReadAddressStart(frame.data) \in Word
         /\ ReadRegisterCount(frame.data) \in Word
  <1>1. frame.data \in Seq(Byte) /\ frame \in FrameType
    BY DEF FramingInv, CtxTypeOK, FrameType
  <1>2. RequestLength(frame) >= 6
    <2>1. CASE frame.function = 16
      <3>1. Len(frame.data) < 5 \/ frame.data[5] \in Byte
        BY <1>1, ByteAt
      <3>2. CASE Len(frame.data) < 5
        BY <2>1, <3>2 DEF RequestLength
      <3>3. CASE ~(Len(frame.data) < 5)
        <4>1. PICK count \in Byte : count = frame.data[5]
          BY <3>1, <3>3
        <4>2. RequestLength(frame) = 7 + count
          BY <2>1, <3>3, <4>1 DEF RequestLength
        <4>3. 7 + count >= 6
          OBVIOUS
        <4> QED BY <4>2, <4>3
      <3> QED BY <3>2, <3>3
    <2>2. CASE frame.function # 16
      BY <2>2 DEF RequestLength, ImplementedFunctions
    <2> QED BY <2>1, <2>2
  <1>3. PICK n \in 3 .. 262 : n = RequestLength(frame)
    BY <1>1, RequestLengthBound
  <1>4. Len(frame.data) + bytes_to_read >= n /\ bytes_to_read = 0
    BY <1>3 DEF FramingInv, CountdownInv, PacketReceived
  <1>5. Len(frame.data) \in Nat /\ n >= 6
    BY <1>1, <1>2, <1>3, ByteAt
  <1>6. Len(frame.data) >= 6
    BY <1>4, <1>5
  <1>7. /\ frame.data[1] \in Byte /\ frame.data[2] \in Byte
        /\ frame.data[3] \in Byte /\ frame.data[4] \in Byte
    <2>1. \A i \in 1 .. Len(frame.data) : frame.data[i] \in Byte
      BY <1>1, ByteAt
    <2>2. 1 \in 1 .. Len(frame.data) /\ 2 \in 1 .. Len(frame.data)
            /\ 3 \in 1 .. Len(frame.data) /\ 4 \in 1 .. Len(frame.data)
      BY <1>5, <1>6
    <2> QED BY <2>1, <2>2, Zenon
  <1>8. /\ MakeMSB(frame.data[1], frame.data[2]) \in Word
        /\ MakeMSB(frame.data[3], frame.data[4]) \in Word
    BY <1>7, WordOfBytes
  <1> QED BY <1>8, Zenon DEF ReadAddressStart, ReadRegisterCount

(* A command that passes validation names registers of the store only.     *)
LEMMA WrittenInStore ==
  ASSUME FramingInv, PacketReceived, ValidateMessage(frame) = kAck
  PROVE  WrittenBy(frame) \subseteq HoldingAddress
  <1>1. frame.function \in ImplementedFunctions
    BY DEF ValidateMessage, kAck, kIllegalFunction
  <1> DEFINE address == ReadAddressStart(frame.data)
             count   == ReadRegisterCount(frame.data)
  <1>2. address \in Word /\ count \in Word
    BY <1>1, FieldsAreWords
  <1>3. HoldingCount \in Nat /\ kMaxWord \in Nat
    BY CountAssumption, MaxWordNat
  <1>4. CASE frame.function = 6
    <2>1. HoldingValidateFrame(frame) = kAck
      BY <1>1, <1>4, AddressSpaces DEF ValidateMessage
    <2>2. ReadLocationValid(HoldingCount, address, 1)
      BY <1>4, <2>1 DEF HoldingValidateFrame, ValidateWriteSingleHoldingRegister,
                        kAck, kIllegalDataAddress
    <2>3. 1 \in Word
      BY DEF Word, kMaxWord
    <2>4. InRange(HoldingCount, address, 1)
      BY <1>2, <1>3, <2>2, <2>3, RangeCheckExact
    <2> HIDE DEF address
    <2>5. address \in HoldingAddress
      BY <1>2, <1>3, <2>4 DEF InRange, HoldingAddress, Word
    <2>6. WrittenBy(frame) = {address}
      BY <1>4, WrittenCases DEF address
    <2> QED BY <2>5, <2>6
  <1>5. CASE frame.function = 16
    <2>1. HoldingValidateFrame(frame) = kAck
      BY <1>1, <1>5, AddressSpaces DEF ValidateMessage
    <2>2. ReadLocationValid(HoldingCount, address, count)
      BY <1>5, <2>1 DEF HoldingValidateFrame, ValidateWriteMultipleHoldingRegisters,
                        kAck, kIllegalDataAddress
    <2>3. InRange(HoldingCount, address, count)
      BY <1>2, <1>3, <2>2, RangeCheckExact
    <2>4. WrittenBy(frame) = address .. address + count - 1
      BY <1>5, WrittenCases
    <2> HIDE DEF address, count
    <2>5. address .. address + count - 1 \subseteq HoldingAddress
      BY <1>2, <1>3, <2>3 DEF InRange, HoldingAddress, Word
    <2> QED BY <2>4, <2>5
  <1>6. CASE frame.function # 6 /\ frame.function # 16
    BY <1>6, WrittenCases
  <1> QED BY <1>4, <1>5, <1>6

-----------------------------------------------------------------------------
(* A processed frame is dropped, run with a reply that fits its array, or  *)
(* refused.                                                                *)
LEMMA ProcessCases ==
  ASSUME NEW filter \in BOOLEAN, ProcessMessage(filter)
  PROVE  \/ UNCHANGED <<response, response_valid, faults, holding, flags, unseen>>
         \/ /\ ValidateMessage(frame) = kAck /\ RunCommand(frame)
            /\ Accepted(FALSE) /\ FitsResponse(frame)
         \/ /\ ValidateMessage(frame) # kAck
            /\ SendErrorResponse(frame, ValidateMessage(frame))
  <1>1. CASE Ignored(filter)
    BY <1>1 DEF ProcessMessage
  <1>2. CASE ~Ignored(filter)
    <2>1. /\ ~filter \/ frame.address = slave_address
          /\ FrameCrcIsValid(frame) /\ PacketReceived
      BY <1>2 DEF Ignored, ProcessMessage
    <2>2. FitsCrcBuffer(frame) /\ (ValidateMessage(frame) = kAck => FitsResponse(frame))
      BY <2>1 DEF ProcessMessage, LeavesArray
    <2>3. Accepted(FALSE)
      BY <2>1, <2>2 DEF Accepted, FrameCrcIsValid
    <2> QED BY <1>2, <2>2, <2>3 DEF ProcessMessage
  <1> QED BY <1>1, <1>2

(* What the flags and the history have to do with one another. *)
FlagsExact ==
    \A a \in HoldingAddress :
        /\ a \in unseen => flags[a]
        /\ a + 1 \in HoldingAddress /\ flags[a] => a \in unseen

(* The inductive invariant of the flags: FlagsExact, with what keeps a     *)
(* command inside the store.                                               *)
FlagsInv ==
    /\ FramingInv
    /\ flags \in [HoldingAddress -> BOOLEAN]
    /\ unseen \in SUBSET HoldingAddress
    /\ FlagsExact

(* A fault recorded by a later stage does not disturb the receiver. *)
LEMMA FaultsGrow ==
  ASSUME FramingInv, UNCHANGED <<state, bytes_to_read, frame>>,
         faults \subseteq faults', faults' \subseteq FaultKind
  PROVE  FramingInv'
  BY DEF FramingInv, CtxTypeOK, CountdownInv

(* Running a validated command flags exactly the registers it names. *)
LEMMA RunCommandFlags ==
  ASSUME FlagsInv, PacketReceived, ValidateMessage(frame) = kAck, RunCommand(frame)
  PROVE  /\ flags' = [a \in HoldingAddress |-> flags[a] \/ a \in WrittenBy(frame)]
         /\ unseen' = unseen \cup WrittenBy(frame)
         /\ faults \subseteq faults' /\ faults' \subseteq FaultKind
  <1>1. frame.function \in ImplementedFunctions
    BY DEF ValidateMessage, kAck, kIllegalFunction
  <1>2. unseen' = unseen \cup WrittenBy(frame)
    BY DEF RunCommand
  <1>3. faults \subseteq faults' /\ faults' \subseteq FaultKind
    BY DEF RunCommand, FlagsInv, FramingInv, CtxTypeOK, FaultKind
  <1>4. DOMAIN flags = HoldingAddress /\ \A a \in HoldingAddress : flags[a] \in BOOLEAN
    BY DEF FlagsInv
  <1> DEFINE address == ReadAddressStart(frame.data)
             count   == ReadRegisterCount(frame.data)
  <1>5. address \in Nat
    BY <1>1, FieldsAreWords, MaxWordNat DEF FlagsInv, Word
  <1>6. CASE frame.function = 6
    <2>1. flags' = SetFlags(flags, address, 1)
      BY <1>6, AddressSpaces DEF RunCommand, HoldingReadFrame
    <2>2. address .. address + 1 - 1 = {address}
      <3> HIDE DEF address
      <3> QED BY <1>5
    <2>3. WrittenBy(frame) = {address}
      BY <1>6, WrittenCases
    <2> HIDE DEF address
    <2>4. flags' = [a \in HoldingAddress |-> flags[a] \/ a \in WrittenBy(frame)]
      BY <1>4, <2>1, <2>2, <2>3, Zenon DEF SetFlags
    <2> QED BY <1>2, <1>3, <2>4
  <1>7. CASE frame.function = 16
    <2>1. flags' = SetFlags(flags, address, count)
      BY <1>7, AddressSpaces DEF RunCommand, HoldingReadFrame
    <2>2. WrittenBy(frame) = address .. address + count - 1
      BY <1>7, WrittenCases
    <2> HIDE DEF address, count
    <2>3. flags' = [a \in HoldingAddress |-> flags[a] \/ a \in WrittenBy(frame)]
      BY <1>4, <2>1, <2>2, Zenon DEF SetFlags
    <2> QED BY <1>2, <1>3, <2>3
  <1>8. CASE frame.function \in {3, 4}
    <2>1. flags' = flags
      BY <1>8, AddressSpaces DEF RunCommand, HoldingReadFrame
    <2>2. WrittenBy(frame) = {}
      BY <1>8, WrittenCases
    <2>3. flags = [a \in HoldingAddress |-> flags[a] \/ a \in WrittenBy(frame)]
      BY <2>2 DEF FlagsInv
    <2> QED BY <1>2, <1>3, <2>1, <2>3
  <1> QED BY <1>1, <1>6, <1>7, <1>8 DEF ImplementedFunctions

(* ProtocolRtuSlave::ProcessMessage, whatever it decides. *)
LEMMA ProcessMessageFlags ==
  ASSUME FlagsInv, NEW filter \in BOOLEAN, ProcessMessage(filter)
  PROVE  FlagsInv'
  <1>1. PacketReceived /\ UNCHANGED <<state, bytes_to_read, frame>>
    BY DEF ProcessMessage
  <1>2. CASE UNCHANGED <<faults, flags, unseen>>
    <2>1. FramingInv'
      BY <1>1, <1>2 DEF FlagsInv, FramingInv, CtxTypeOK, CountdownInv
    <2> QED BY <1>2, <2>1 DEF FlagsInv, FlagsExact
  <1>3. CASE ValidateMessage(frame) = kAck /\ RunCommand(frame)
    <2>1. /\ flags' = [a \in HoldingAddress |-> flags[a] \/ a \in WrittenBy(frame)]
          /\ unseen' = unseen \cup WrittenBy(frame)
          /\ faults \subseteq faults' /\ faults' \subseteq FaultKind
      BY <1>1, <1>3, RunCommandFlags
    <2>2. WrittenBy(frame) \subseteq HoldingAddress
      BY <1>1, <1>3, WrittenInStore DEF FlagsInv
    <2>3. FramingInv'
      BY <1>1, <2>1, FaultsGrow DEF FlagsInv
    <2>4. flags' \in [HoldingAddress -> BOOLEAN]
      BY <2>1
    <2>5. unseen' \in SUBSET HoldingAddress
      BY <2>1, <2>2 DEF FlagsInv
    <2>6. FlagsExact'
      BY <2>1 DEF FlagsInv, FlagsExact
    <2> QED BY <2>3, <2>4, <2>5, <2>6 DEF FlagsInv
  <1> QED BY <1>2, <1>3, ProcessCases DEF SendErrorResponse

(* clear_new_data_flags and the history of what the application saw. *)
LEMMA ClearFlagsFlags ==
  ASSUME FlagsInv, ClearFlags
  PROVE  FlagsInv'
  <1>1. FramingInv'
    BY DEF FlagsInv, ClearFlags, ctxVars, FramingInv, CtxTypeOK, CountdownInv
  <1>2. DOMAIN flags = HoldingAddress
    BY DEF FlagsInv
  <1>3. flags' = [a \in HoldingAddress |->
                     IF a + 1 \in HoldingAddress THEN FALSE ELSE flags[a]]
    BY <1>2, Zenon DEF ClearFlags, ClearNewDataFlags
  <1>4. flags' \in [HoldingAddress -> BOOLEAN]
    BY <1>3 DEF FlagsInv
  <1>5. unseen' = {}
    BY DEF ClearFlags
  <1>6. FlagsExact'
    BY <1>3, <1>5 DEF FlagsExact
  <1> QED BY <1>1, <1>4, <1>5, <1>6 DEF FlagsInv

(* A step that touches neither the receiver nor the flags. *)
LEMMA OthersKeepFlags ==
  ASSUME FlagsInv, UNCHANGED <<ctxVars, flags, unseen>>
  PROVE  FlagsInv'
  <1>1. FramingInv'
    BY DEF FlagsInv, ctxVars, FramingInv, CtxTypeOK, CountdownInv
  <1> QED BY <1>1 DEF FlagsInv, FlagsExact

(* The new-data flags of UpdatingRegisterDataStore say which registers the *)
(* master wrote since the application last cleared them, and the           *)
(* application is told of new data exactly when there is some outside the  *)
(* last register, in every behaviour of the slave.                         *)
THEOREM NewDataCorrect == SlaveSpec => [](FlagsTrackWrites /\ NewDataReported)
  <1>1. SlaveInit => FlagsInv
    <2> SUFFICES ASSUME SlaveInit PROVE FlagsInv
      OBVIOUS
    <2>1. FramingInv
      BY FramingInit DEF SlaveInit
    <2> QED BY <2>1 DEF SlaveInit, FlagsInv, FlagsExact
  <1>2. FlagsInv /\ [SlaveNext]_slaveVars => FlagsInv'
    <2> SUFFICES ASSUME FlagsInv, [SlaveNext]_slaveVars PROVE FlagsInv'
      OBVIOUS
    <2>1. ASSUME NEW pt \in Byte, ReceiveCharacter(pt) PROVE FlagsInv'
      <3>1. FramingInv'
        BY <2>1, ProcessCharacterInv DEF FlagsInv, ReceiveCharacter
      <3> QED BY <2>1, <3>1 DEF FlagsInv, FlagsExact, ReceiveCharacter, storeVars
    <2>2. ASSUME NEW filter \in BOOLEAN, ProcessMessage(filter) PROVE FlagsInv'
      BY <2>2, ProcessMessageFlags
    <2>3. ASSUME NEW filter \in BOOLEAN, ProcessOversized(filter) PROVE FlagsInv'
      <3>1. faults \subseteq faults' /\ faults' \subseteq FaultKind
        BY <2>3 DEF ProcessOversized, FlagsInv, FramingInv, CtxTypeOK, FaultKind
      <3>2. FramingInv'
        BY <2>3, <3>1, FaultsGrow DEF ProcessOversized, FlagsInv
      <3> QED BY <2>3, <3>2 DEF FlagsInv, FlagsExact, ProcessOversized, storeVars
    <2>4. CASE Reset
      <3>1. FramingInv'
        BY <2>4, ResetReadInv DEF Reset, FlagsInv
      <3> QED BY <2>4, <3>1 DEF FlagsInv, FlagsExact, Reset, storeVars
    <2>5. CASE ClearFlags
      BY <2>5, ClearFlagsFlags
    <2>6. ASSUME NEW address \in Byte, SetAddress(address) PROVE FlagsInv'
      BY <2>6, OthersKeepFlags DEF SetAddress, storeVars
    <2>7. ASSUME NEW address \in HoldingAddress, NEW value \in Word,
                 WriteHolding(address, value)
          PROVE  FlagsInv'
      BY <2>7, OthersKeepFlags DEF WriteHolding
    <2>8. ASSUME NEW address \in InputAddress, NEW value \in Word,
                 WriteInput(address, value)
          PROVE  FlagsInv'
      BY <2>8, OthersKeepFlags DEF WriteInput
    <2>9. CASE UNCHANGED slaveVars
      BY <2>9, OthersKeepFlags DEF slaveVars, storeVars
    <2> QED BY <2>1, <2>2, <2>3, <2>4, <2>5, <2>6, <2>7, <2>8, <2>9 DEF SlaveNext
  <1>3. FlagsInv => FlagsTrackWrites /\ NewDataReported
    <2> SUFFICES ASSUME FlagsInv PROVE NewDataReported
      BY DEF FlagsInv, FlagsExact, FlagsTrackWrites
    <2>1. HoldingCount \in Nat /\ unseen \subseteq HoldingAddress
            /\ DOMAIN flags = HoldingAddress
      BY CountAssumption DEF FlagsInv
    <2>2. \A a \in HoldingAddress : a + 1 \in HoldingAddress <=> a # HoldingCount - 1
      BY <2>1 DEF HoldingAddress
    <2>3. \A a \in HoldingAddress :
             a # HoldingCount - 1 => (a \in unseen <=> flags[a])
      BY <2>2 DEF FlagsInv, FlagsExact
    <2>4. NewDataAvailable(flags) <=>
             \E a \in HoldingAddress : a # HoldingCount - 1 /\ flags[a]
      BY <2>1, <2>2, Zenon DEF NewDataAvailable
    <2>5. unseen \ {HoldingCount - 1} # {} <=>
             \E a \in HoldingAddress : a # HoldingCount - 1 /\ a \in unseen
      BY <2>1, Zenon
    <2> QED BY <2>3, <2>4, <2>5, Zenon DEF NewDataReported
  <1> QED BY <1>1, <1>2, <1>3, PTL DEF SlaveSpec

(* A register's new-data flag follows the master's writes, for stores of   *)
(* every size.                                                             *)
THEOREM FlagsCorrect == SlaveSpec => []FlagsTrackWrites
  BY NewDataCorrect, PTL

-----------------------------------------------------------------------------
(* What the slave answers and what a command does to the registers.        *)

USE DEF Byte, kHeaderLength, kFooterLength, kMaxFrameLength,
        kReadMultipleHoldingRegisters, kReadInputRegisters,
        kWriteSingleHoldingRegister, kWriteMultipleHoldingRegisters

(* The function pointer the library is given returns a uint16_t. *)
CrcIsWord == \A bytes \in Seq(Byte) : Crc(bytes) \in Word

(* No read of more registers than the protocol lets a master ask for at    *)
(* once, 125, gets as far as being served.                                 *)
ReadsFit ==
    Accepted(FALSE) /\ ValidateMessage(frame) = kAck /\ frame.function \in {3, 4} =>
        ReadRegisterCount(frame.data) <= 125

(* No store is larger than such a read. *)
StoresFitReply == HoldingCount <= 125 /\ InputCount <= 125

(* A function on 1 .. n is a sequence. *)
LEMMA FunctionIsSeq ==
  ASSUME NEW S, NEW n \in Nat, NEW s \in [1 .. n -> S]
  PROVE  s \in Seq(S) /\ Len(s) = n
  <1>1. s \in Seq(S)
    BY SeqDef
  <1>2. DOMAIN s = 1 .. Len(s) /\ Len(s) \in Nat
    BY <1>1, LenProperties
  <1>3. 1 .. n = 1 .. Len(s)
    BY <1>2
  <1> QED BY <1>1, <1>2, <1>3

(* A byte of a word is a byte, and its two bytes make it up. *)
LEMMA WordBytesExact ==
  ASSUME NEW w \in Word
  PROVE  /\ GetByte(w, 0) \in Byte /\ GetByte(w, 1) \in Byte
         /\ MakeMSB(GetByte(w, 1), GetByte(w, 0)) = w
  <1>1. w \in Nat /\ w < 65536
    BY SMTT(30) DEF Word, kMaxWord
  <1>2. GetByte(w, 0) = w % 256 /\ GetByte(w, 1) = (w \div 256) % 256
    BY DEF GetByte
  <1>3. w \div 256 \in 0 .. 255
    BY <1>1
  <1>4. (w \div 256) % 256 = w \div 256
    BY <1>3
  <1>5. w % 256 \in 0 .. 255 /\ 256 * (w \div 256) + (w % 256) = w
    BY <1>1
  <1>6. MakeMSB(GetByte(w, 1), GetByte(w, 0)) = 256 * (w \div 256) + (w % 256)
    BY <1>2, <1>4, Zenon DEF MakeMSB
  <1>7. GetByte(w, 0) \in 0 .. 255 /\ GetByte(w, 1) \in 0 .. 255
    BY <1>2, <1>3, <1>4, <1>5, ZenonT(40)
  <1> QED BY <1>5, <1>6, <1>7

(* SetLength and the two CRC bytes behind a response that fills at most    *)
(* 254 bytes: nothing of it is disturbed and the array is not left.        *)
LEMMA FrameResponseShape ==
  ASSUME CrcIsWord,
         NEW packet, packet.address \in Byte, packet.function \in Byte,
         NEW body \in Seq(Byte), NEW n \in 2 .. 254, Len(body) = n
  PROVE  \E data \in Seq(Byte) :
             /\ FrameResponse(packet, [length |-> n, data |-> body])
                    = [length |-> n + 2, data |-> data]
             /\ Len(data) = n + 2
             /\ data[1] = packet.address /\ data[2] = packet.function
             /\ \A i \in 3 .. n : data[i] = body[i]
             /\ BufferCrcIsValid(data)
  <1>0. PICK a \in Byte, b \in Byte : a = packet.address /\ b = packet.function
    OBVIOUS
  <1> DEFINE headed == [body EXCEPT ![1] = a, ![2] = b]
             high   == GetByte(Crc(headed), 1)
             low    == GetByte(Crc(headed), 0)
             grown  == SetLength(headed, n + 2)
             data   == [grown EXCEPT ![Slot(n) + 1] = high, ![Slot(n + 1) + 1] = low]
  <1>1. n \in Nat /\ n >= 2 /\ n <= 254
    OBVIOUS
  <1>2. /\ headed \in Seq(Byte) /\ Len(headed) = n
        /\ headed[1] = a /\ headed[2] = b
        /\ \A i \in 3 .. n : headed[i] = body[i]
    <2>1. body \in [1 .. n -> Byte]
      BY LenProperties, ZenonT(40)
    <2>2. headed \in [1 .. n -> Byte]
      BY <2>1
    <2>3. headed \in Seq(Byte) /\ Len(headed) = n
      BY <1>1, <2>2, FunctionIsSeq
    <2>4. headed[1] = a /\ headed[2] = b /\ \A i \in 3 .. n : headed[i] = body[i]
      BY <2>1
    <2> QED BY <2>3, <2>4
  <1>3. FrameResponse(packet, [length |-> n, data |-> body])
            = [length |-> n + 2, data |-> data]
    BY <1>0 DEF FrameResponse, CrcBytes
  <1> HIDE DEF headed
  <1>4. Crc(headed) \in Word
    BY <1>2 DEF CrcIsWord
  <1>5. high \in Byte /\ low \in Byte /\ MakeMSB(high, low) = Crc(headed)
    BY <1>4, WordBytesExact
  <1> HIDE DEF high, low
  <1>6. grown = [i \in 1 .. n + 2 |-> IF i <= n THEN headed[i] ELSE 0]
    BY <1>1, <1>2 DEF SetLength
  <1>7. Slot(n) + 1 = n + 1 /\ Slot(n + 1) + 1 = n + 2
    BY <1>1 DEF Slot
  <1> HIDE DEF grown
  <1>8. data = [grown EXCEPT ![n + 1] = high, ![n + 2] = low]
    BY <1>7, Zenon
  <1> HIDE DEF data
  <1>9. \A i \in 1 .. n : headed[i] \in Byte
    <2>1. \A i \in 1 .. Len(headed) : headed[i] \in Byte
      BY <1>2, ByteAt
    <2> QED BY <1>2, <2>1
  <1>10. /\ data \in [1 .. n + 2 -> Byte]
         /\ \A i \in 1 .. n : data[i] = headed[i]
         /\ data[n + 1] = high /\ data[n + 2] = low
    <2>1. /\ DOMAIN grown = 1 .. n + 2
          /\ \A i \in 1 .. n : grown[i] = headed[i]
          /\ \A i \in 1 .. n + 2 : grown[i] \in Byte
      BY <1>1, <1>6, <1>9
    <2>2. DOMAIN data = 1 .. n + 2
      BY <1>8, <2>1
    <2>3. /\ \A i \in 1 .. n : data[i] = grown[i]
          /\ data[n + 1] = high /\ data[n + 2] = low
      BY <1>1, <1>8, <2>1
    <2>4. \A i \in 1 .. n + 2 : data[i] \in Byte
      <3> SUFFICES ASSUME NEW i \in 1 .. n + 2 PROVE data[i] \in Byte
        OBVIOUS
      <3>1. CASE i \in 1 .. n
        BY <2>1, <2>3, <3>1
      <3>2. CASE i = n + 1 \/ i = n + 2
        BY <1>5, <2>3, <3>2
      <3> QED BY <1>1, <3>1, <3>2
    <2>5. data \in [1 .. n + 2 -> Byte]
      <3>1. data = [i \in DOMAIN data |-> data[i]]
        BY <1>8
      <3> QED BY <2>2, <2>4, <3>1
    <2> QED BY <2>1, <2>3, <2>5
  <1>11. data \in Seq(Byte) /\ Len(data) = n + 2
    BY <1>1, <1>10, FunctionIsSeq
  <1>12. SubSeq(data, 1, n) = headed
    <2>1. /\ SubSeq(data, 1, n) \in Seq(Byte)
          /\ Len(SubSeq(data, 1, n)) = n
          /\ \A i \in 1 .. n : SubSeq(data, 1, n)[i] = data[i]
      BY <1>1, <1>9, <1>10, SubSeqProperties
    <2> QED BY <1>2, <1>10, <2>1, SeqEqual
  <1>13. BufferCrcIsValid(data)
    <2>1. Len(data) - 1 = n + 1 /\ Len(data) = n + 2 /\ Len(data) - 2 = n
      BY <1>1, <1>11
    <2>2. MakeMSB(data[n + 1], data[n + 2]) = Crc(SubSeq(data, 1, n))
      BY <1>5, <1>10, <1>12, Zenon
    <2> QED BY <2>1, <2>2, Zenon DEF BufferCrcIsValid
  <1>14. /\ data[1] = a /\ data[2] = b
         /\ \A i \in 3 .. n : data[i] = body[i]
    BY <1>1, <1>2, <1>10
  <1> QED BY <1>0, <1>3, <1>11, <1>13, <1>14

-----------------------------------------------------------------------------
(* A complete frame of an implemented function holds the bytes of its      *)
(* fields, its data and its CRC.                                           *)
LEMMA CompleteFrame ==
  ASSUME FramingInv, PacketReceived, frame.function \in ImplementedFunctions
  PROVE  /\ frame.address \in Byte /\ frame.data \in Seq(Byte)
         /\ Len(frame.data) \in Nat /\ Len(frame.data) >= 6
         /\ \A i \in 1 .. Len(frame.data) : frame.data[i] \in Byte
         /\ frame.function = 16 => Len(frame.data) >= 7 + frame.data[5]
  <1>1. frame \in FrameType /\ frame.address \in Byte /\ frame.data \in Seq(Byte)
    BY DEF FramingInv, CtxTypeOK, FrameType
  <1>2. Len(frame.data) \in Nat /\ \A i \in 1 .. Len(frame.data) : frame.data[i] \in Byte
    BY <1>1, ByteAt
  <1>3. PICK n \in 3 .. 262 : n = RequestLength(frame)
    BY <1>1, RequestLengthBound
  <1>4. Len(frame.data) >= n
    <2>1. Len(frame.data) + bytes_to_read >= n /\ bytes_to_read = 0
      BY <1>3 DEF FramingInv, CountdownInv, PacketReceived
    <2> QED BY <1>2, <2>1
  <1>5. CASE frame.function = 16
    <2>1. CASE Len(frame.data) < 5
      <3>1. n = 7
        BY <1>3, <1>5, <2>1 DEF RequestLength
      <3> QED BY <1>2, <1>4, <2>1, <3>1
    <2>2. CASE ~(Len(frame.data) < 5)
      <3>0. 5 \in 1 .. Len(frame.data)
        BY <1>2, <2>2
      <3>1. PICK m \in Byte : m = frame.data[5]
        BY <1>2, <3>0, Zenon
      <3>2. n = 7 + m
        BY <1>3, <1>5, <2>2, <3>1 DEF RequestLength
      <3>3. Len(frame.data) >= 6 /\ Len(frame.data) >= 7 + m
        BY <1>2, <1>4, <3>2
      <3> QED BY <1>1, <1>2, <3>1, <3>3
    <2> QED BY <2>1, <2>2
  <1>6. CASE frame.function # 16
    <2>1. n = 6
      BY <1>3, <1>6 DEF RequestLength, ImplementedFunctions
    <2>2. Len(frame.data) >= 6
      BY <1>2, <1>4, <2>1
    <2> QED BY <1>1, <1>2, <1>6, <2>2
  <1> QED BY <1>5, <1>6

(* The bytes of its header and of its address and count fields. *)
LEMMA FieldBytes ==
  ASSUME FramingInv, PacketReceived, frame.function \in ImplementedFunctions
  PROVE  /\ frame.address \in Byte /\ frame.function \in Byte
         /\ frame.data[1] \in Byte /\ frame.data[2] \in Byte
         /\ frame.data[3] \in Byte /\ frame.data[4] \in Byte
  <1>1. frame.address \in Byte /\ frame.function \in Byte
    BY CompleteFrame DEF ImplementedFunctions
  <1>2. \A i \in 1 .. Len(frame.data) : frame.data[i] \in Byte
    BY CompleteFrame
  <1>3. /\ 1 \in 1 .. Len(frame.data) /\ 2 \in 1 .. Len(frame.data)
        /\ 3 \in 1 .. Len(frame.data) /\ 4 \in 1 .. Len(frame.data)
    BY CompleteFrame
  <1> QED BY <1>1, <1>2, <1>3, Zenon

(* Validation in size_t arithmetic gives every complete frame the verdict  *)
(* its range and byte count have in plain integers.                        *)
LEMMA VerdictExact ==
  ASSUME FramingInv, PacketReceived
  PROVE  ValidateMessage(frame) = Verdict(frame)
  <1>1. CASE frame.function \notin ImplementedFunctions
    BY <1>1 DEF ValidateMessage, Verdict, ImplementedFunctions
  <1>2. CASE frame.function \in ImplementedFunctions
    <2> DEFINE address == ReadAddressStart(frame.data)
               count   == ReadRegisterCount(frame.data)
    <2>0. 1 \in Word
      BY DEF Word, kMaxWord
    <2>1. address \in Word /\ count \in Word /\ 1 \in Word
      BY <1>2, <2>0, FieldsAreWords, Zenon
    <2>2. HoldingCount \in Nat /\ InputCount \in Nat
      BY CountAssumption
    <2>3. \A size \in Nat :
             /\ ReadLocationValid(size, address, count) <=> InRange(size, address, count)
             /\ ReadLocationValid(size, address, 1) <=> InRange(size, address, 1)
      BY <2>1, RangeCheckExact
    <2>4. InRange(HoldingCount, address, 1) <=> address < HoldingCount
      BY <2>1, <2>2, MaxWordNat DEF InRange, Word
    <2>5. CASE frame.function = 6
      <3>1. ValidateMessage(frame) = ValidateWriteSingleHoldingRegister(frame.data)
        BY <1>2, <2>5, AddressSpaces DEF ValidateMessage, HoldingValidateFrame
      <3>2. Verdict(frame) = IF address < HoldingCount THEN kAck ELSE kIllegalDataAddress
        BY <1>2, <2>5 DEF Verdict
      <3>3. ValidateWriteSingleHoldingRegister(frame.data)
               = IF address < HoldingCount THEN kAck ELSE kIllegalDataAddress
        BY <2>2, <2>3, <2>4, Zenon DEF ValidateWriteSingleHoldingRegister
      <3> QED BY <3>1, <3>2, <3>3, Zenon
    <2>6. CASE frame.function = 16
      <3>1. ValidateMessage(frame) = ValidateWriteMultipleHoldingRegisters(frame.data)
        BY <1>2, <2>6, AddressSpaces DEF ValidateMessage, HoldingValidateFrame
      <3>2. Verdict(frame) = IF ~InRange(HoldingCount, address, count)
                             THEN kIllegalDataAddress
                             ELSE IF ReadDataByteCount(frame.data) # 2 * count
                             THEN kIllegalDataValue ELSE kAck
        BY <1>2, <2>6 DEF Verdict
      <3>3. count * 2 = 2 * count
        BY <2>1, MaxWordNat DEF Word
      <3>4. ValidateWriteMultipleHoldingRegisters(frame.data)
               = IF ~InRange(HoldingCount, address, count)
                 THEN kIllegalDataAddress
                 ELSE IF ReadDataByteCount(frame.data) # 2 * count
                 THEN kIllegalDataValue ELSE kAck
        BY <2>2, <2>3, <3>3, Zenon DEF ValidateWriteMultipleHoldingRegisters
      <3> QED BY <3>1, <3>2, <3>4, Zenon
    <2>7. CASE frame.function = 3
      <3>1. ValidateMessage(frame) = ValidateReadMultiple(HoldingCount, frame.data)
        BY <1>2, <2>7, AddressSpaces DEF ValidateMessage, HoldingValidateFrame
      <3>2. Verdict(frame) = IF InRange(HoldingCount, address, count)
                             THEN kAck ELSE kIllegalDataAddress
        BY <1>2, <2>7 DEF Verdict
      <3>3. ValidateReadMultiple(HoldingCount, frame.data)
               = IF InRange(HoldingCount, address, count)
                 THEN kAck ELSE kIllegalDataAddress
        BY <2>2, <2>3, Zenon DEF ValidateReadMultiple
      <3> QED BY <3>1, <3>2, <3>3, Zenon
    <2>8. CASE frame.function = 4
      <3>1. ValidateMessage(frame) = ValidateReadMultiple(InputCount, frame.data)
        BY <1>2, <2>8, AddressSpaces DEF ValidateMessage, InputValidateFrame
      <3>2. Verdict(frame) = IF InRange(InputCount, address, count)
                             THEN kAck ELSE kIllegalDataAddress
        BY <1>2, <2>8 DEF Verdict
      <3>3. ValidateReadMultiple(InputCount, frame.data)
               = IF InRange(InputCount, address, count)
                 THEN kAck ELSE kIllegalDataAddress
        BY <2>2, <2>3, Zenon DEF ValidateReadMultiple
      <3> QED BY <3>1, <3>2, <3>3, Zenon
    <2> QED BY <1>2, <2>5, <2>6, <2>7, <2>8 DEF ImplementedFunctions
  <1> QED BY <1>1, <1>2

-----------------------------------------------------------------------------
(* A byte is its own remainder. *)
LEMMA ByteMod == ASSUME NEW m \in Byte PROVE m % 256 = m
  OBVIOUS

(* The words a master encodes come back in the same bytes. *)
LEMMA BytesOfWord ==
  ASSUME NEW high \in Byte, NEW low \in Byte
  PROVE  GetByte(MakeMSB(high, low), 1) = high /\ GetByte(MakeMSB(high, low), 0) = low
  <1>1. (256 * high + low) % 256 = low /\ (256 * high + low) \div 256 = high
    OBVIOUS
  <1>2. high % 256 = high
    OBVIOUS
  <1>3. /\ GetByte(256 * high + low, 1) = ((256 * high + low) \div 256) % 256
        /\ GetByte(256 * high + low, 0) = (256 * high + low) % 256
    BY DEF GetByte
  <1>4. GetByte(256 * high + low, 1) = high /\ GetByte(256 * high + low, 0) = low
    BY <1>1, <1>2, <1>3
  <1> QED BY <1>4, Zenon DEF MakeMSB

(* The two words of an acknowledgement. *)
LEMMA EchoWords ==
  ASSUME NEW d1 \in Byte, NEW d2 \in Byte
  PROVE  WordBytes(MakeMSB(d1, d2)) = <<d1, d2>>
  BY BytesOfWord DEF WordBytes

(* Two bytes per register, the high one first. *)
Encodes(bytes, values, address, count) ==
    /\ bytes \in Seq(Byte) /\ Len(bytes) = 2 * count
    /\ \A k \in 0 .. count - 1 :
          MakeMSB(bytes[2 * k + 1], bytes[2 * k + 2]) = values[address + k]

(* GetRegisters encodes the registers of a range that lies in the store. *)
LEMMA RegisterBytes ==
  ASSUME NEW size \in Nat, NEW values \in [0 .. size - 1 -> Word],
         NEW address \in Nat, NEW count \in Nat, InRange(size, address, count)
  PROVE  Encodes(GetRegisters(values, address, count), values, address, count)
  <1> DEFINE bytes == GetRegisters(values, address, count)
  <1>1. bytes = [i \in 1 .. 2 * count |->
                    GetByte(values[address + ((i - 1) \div 2)], i % 2)]
    BY DEF GetRegisters
  <1> HIDE DEF bytes
  <1>2. \A k \in 0 .. count - 1 : values[address + k] \in Word
    BY DEF InRange
  <1>3. \A i \in 1 .. 2 * count : bytes[i] \in Byte
    <2> SUFFICES ASSUME NEW i \in 1 .. 2 * count PROVE bytes[i] \in Byte
      OBVIOUS
    <2>1. (i - 1) \div 2 \in 0 .. count - 1 /\ (i % 2 = 0 \/ i % 2 = 1)
      OBVIOUS
    <2>2. PICK w \in Word : w = values[address + ((i - 1) \div 2)]
      BY <1>2, <2>1
    <2>3. bytes[i] = GetByte(w, i % 2)
      BY <1>1, <2>2
    <2>4. GetByte(w, 0) \in Byte /\ GetByte(w, 1) \in Byte
      BY WordBytesExact
    <2> QED BY <2>1, <2>3, <2>4, ZenonT(40)
  <1>4. bytes \in [1 .. 2 * count -> Byte]
    BY <1>1, <1>3
  <1>5. bytes \in Seq(Byte) /\ Len(bytes) = 2 * count
    BY <1>4, FunctionIsSeq
  <1>6. ASSUME NEW k \in 0 .. count - 1
        PROVE  MakeMSB(bytes[2 * k + 1], bytes[2 * k + 2]) = values[address + k]
    <2>1. 2 * k + 1 \in 1 .. 2 * count /\ 2 * k + 2 \in 1 .. 2 * count
      OBVIOUS
    <2>2. /\ ((2 * k + 1) - 1) \div 2 = k /\ (2 * k + 1) % 2 = 1
          /\ ((2 * k + 2) - 1) \div 2 = k /\ (2 * k + 2) % 2 = 0
      OBVIOUS
    <2>3. PICK w \in Word : w = values[address + k]
      BY <1>2
    <2>4. bytes[2 * k + 1] = GetByte(w, 1) /\ bytes[2 * k + 2] = GetByte(w, 0)
      BY <1>1, <2>1, <2>2, <2>3
    <2> QED BY <2>3, <2>4, WordBytesExact
  <1> QED BY <1>5, <1>6 DEF bytes, Encodes

-----------------------------------------------------------------------------
(* A framed reply to the frame in the receiver. *)
FramedAnswer(data) ==
    /\ data \in Seq(Byte)
    /\ data[1] = frame.address /\ data[2] = frame.function
    /\ BufferCrcIsValid(data)

(* An acknowledged write: the reply echoes the first four data bytes. *)
LEMMA WriteReply ==
  ASSUME CrcIsWord, FramingInv, PacketReceived, RunCommand(frame),
         frame.function \in {6, 16}
  PROVE  /\ response_valid' = TRUE /\ faults' = faults
         /\ \E data : /\ FramedAnswer(data)
                      /\ response' = [length |-> 8, data |-> data]
                      /\ Len(data) = 8
                      /\ \A i \in 1 .. 4 : data[i + 2] = frame.data[i]
  <1>1. frame.function \in ImplementedFunctions
    BY DEF ImplementedFunctions
  <1>2. PICK a \in Byte, b \in Byte, d1 \in Byte, d2 \in Byte, d3 \in Byte, d4 \in Byte :
           /\ a = frame.address /\ b = frame.function
           /\ d1 = frame.data[1] /\ d2 = frame.data[2]
           /\ d3 = frame.data[3] /\ d4 = frame.data[4]
    BY <1>1, FieldBytes, ZenonT(40)
  <1> DEFINE body == <<a, b>> \o <<d1, d2>> \o <<d3, d4>>
             sent == [length |-> 6, data |-> body]
  <1>3. ReadAddressStart(frame.data) = MakeMSB(d1, d2)
          /\ ReadSetting(frame.data) = MakeMSB(d3, d4)
          /\ ReadRegisterCount(frame.data) = MakeMSB(d3, d4)
    BY <1>2, Zenon DEF ReadAddressStart, ReadSetting, ReadRegisterCount
  <1>4. WordBytes(MakeMSB(d1, d2)) = <<d1, d2>> /\ WordBytes(MakeMSB(d3, d4)) = <<d3, d4>>
    BY <1>2, EchoWords, ZenonT(40)
  <1>5. GetAddressSpaceFromFunction(frame.function) = "kHoldingRegister"
    BY AddressSpaces
  <1>6. /\ HoldingReadFrame(frame, holding, flags).code = 0
        /\ HoldingReadFrame(frame, holding, flags).response = sent
    <2>1. CASE frame.function = 6
      <3>1. sent = FillResponseWriteSingle(frame.address, ReadAddressStart(frame.data),
                                           ReadSetting(frame.data))
        BY <1>2, <1>3, <1>4, <2>1, Zenon DEF FillResponseWriteSingle
      <3> QED BY <2>1, <3>1 DEF HoldingReadFrame
    <2>2. CASE frame.function = 16
      <3>1. sent = FillResponseWriteMultiple(frame.address, ReadAddressStart(frame.data),
                                             ReadRegisterCount(frame.data))
        BY <1>2, <1>3, <1>4, <2>2, Zenon DEF FillResponseWriteMultiple
      <3> QED BY <2>2, <3>1 DEF HoldingReadFrame
    <2> QED BY <2>1, <2>2
  <1>7. ~FrameResponseAsserts(sent)
    BY DEF FrameResponseAsserts
  <1>8. /\ response' = FrameResponse(frame, sent)
        /\ response_valid' = TRUE /\ faults' = faults
    <2> HIDE DEF sent
    <2> QED BY <1>5, <1>6, <1>7, ZenonT(40) DEF RunCommand
  <1>9. /\ body \in Seq(Byte) /\ Len(body) = 6
        /\ body[3] = d1 /\ body[4] = d2 /\ body[5] = d3 /\ body[6] = d4
    <2>2. /\ Len(body) = 6
          /\ body[3] = d1 /\ body[4] = d2 /\ body[5] = d3 /\ body[6] = d4
      OBVIOUS
    <2>3. <<a, b>> \in Seq(Byte) /\ <<d1, d2>> \in Seq(Byte) /\ <<d3, d4>> \in Seq(Byte)
      BY <1>2
    <2>4. <<a, b>> \o <<d1, d2>> \in Seq(Byte)
      BY <2>3, ConcatProperties, ZenonT(40)
    <2>5. body \in Seq(Byte)
      BY <2>3, <2>4, ConcatProperties, ZenonT(40)
    <2> QED BY <2>2, <2>5
  <1> HIDE DEF body
  <1>10. PICK data \in Seq(Byte) :
            /\ FrameResponse(frame, sent) = [length |-> 6 + 2, data |-> data]
            /\ Len(data) = 6 + 2
            /\ data[1] = frame.address /\ data[2] = frame.function
            /\ \A i \in 3 .. 6 : data[i] = body[i]
            /\ BufferCrcIsValid(data)
    <2>1. 6 \in 2 .. 254
      OBVIOUS
    <2>2. frame.address \in Byte /\ frame.function \in Byte
      BY <1>1, FieldBytes
    <2> QED BY <1>2, <1>9, <2>1, <2>2, FrameResponseShape, ZenonT(40)
  <1>11. \A i \in 1 .. 4 : data[i + 2] = frame.data[i]
    <2>1. data[3] = d1 /\ data[4] = d2 /\ data[5] = d3 /\ data[6] = d4
      BY <1>9, <1>10
    <2> QED BY <1>2, <2>1
  <1>12. FramedAnswer(data) /\ response' = [length |-> 8, data |-> data] /\ Len(data) = 8
    BY <1>2, <1>8, <1>10 DEF FramedAnswer
  <1> QED BY <1>8, <1>11, <1>12

(* The registers a read command is about: where, how many and their store. *)
First == ReadAddressStart(frame.data)
Count == ReadRegisterCount(frame.data)
ReadValues == IF frame.function = kReadInputRegisters THEN inputs ELSE holding

(* An accepted read hands FrameResponse the bytes of the registers it      *)
(* names, whatever the size of the store, when they fit its array.         *)
LEMMA ReadSent ==
  ASSUME FramingInv, PacketReceived, ValidateMessage(frame) = kAck, RunCommand(frame),
         frame.function \in {3, 4}, FitsResponse(frame),
         holding \in [HoldingAddress -> Word], inputs \in [InputAddress -> Word]
  PROVE  /\ response_valid' = TRUE /\ faults' = faults
         /\ UNCHANGED <<holding, flags>>
         /\ Count \in Nat /\ Count <= 126
         /\ \E body \in Seq(Byte) :
               /\ response' = FrameResponse(frame, [length |-> 3 + 2 * Count, data |-> body])
               /\ Len(body) = 3 + 2 * Count
               /\ body[3] = 2 * Count
               /\ \A k \in 0 .. Count - 1 :
                     MakeMSB(body[2 * k + 4], body[2 * k + 5]) = ReadValues[First + k]
  <1>1. frame.function \in ImplementedFunctions
    BY DEF ImplementedFunctions
  <1>2. First \in Word /\ Count \in Word /\ First \in Nat /\ Count \in Nat
    <2>1. First \in Word /\ Count \in Word
      BY <1>1, FieldsAreWords DEF First, Count
    <2> QED BY <2>1, MaxWordNat DEF Word
  <1>3. PICK size \in Nat : size = IF frame.function = 4 THEN InputCount ELSE HoldingCount
    BY CountAssumption
  <1>4. ReadValues \in [0 .. size - 1 -> Word]
    <2>1. CASE frame.function = 4
      BY <1>3, <2>1 DEF ReadValues, InputAddress
    <2>2. CASE frame.function # 4
      BY <1>3, <2>2 DEF ReadValues, HoldingAddress
    <2> QED BY <2>1, <2>2
  <1>5. InRange(size, First, Count)
    <2>1. Verdict(frame) = kAck
      BY VerdictExact
    <2>2. Verdict(frame) = IF InRange(size, First, Count) THEN kAck
                                                            ELSE kIllegalDataAddress
      <3>1. CASE frame.function = 4
        BY <1>1, <1>3, <3>1 DEF Verdict, First, Count
      <3>2. CASE frame.function = 3
        BY <1>1, <1>3, <3>2 DEF Verdict, First, Count
      <3> QED BY <3>1, <3>2
    <2> QED BY <2>1, <2>2 DEF kAck, kIllegalDataAddress
  <1>6. Count <= 126
    <2>1. 3 + 2 * Count <= 256
      BY DEF FitsResponse, Count
    <2> QED BY <1>2, <2>1
  <1> DEFINE bytes == GetRegisters(ReadValues, First, Count)
  <1>7. ReadRegisters(size, ReadValues, First, Count) = bytes
    BY <1>2, <1>3, <1>5, RangeCheckExact DEF ReadRegisters
  <1>8. /\ bytes \in Seq(Byte) /\ Len(bytes) = 2 * Count
        /\ \A k \in 0 .. Count - 1 :
              MakeMSB(bytes[2 * k + 1], bytes[2 * k + 2]) = ReadValues[First + k]
    <2>1. size \in Nat /\ First \in Nat /\ Count \in Nat
      BY <1>2, <1>3
    <2>2. Encodes(bytes, ReadValues, First, Count)
      BY <1>4, <1>5, <2>1, RegisterBytes, Zenon
    <2> HIDE DEF bytes
    <2> QED BY <2>2 DEF Encodes
  <1> HIDE DEF bytes
  <1>9. PICK m \in Byte : m = 2 * Count /\ m % 256 = m
    <2>1. 2 * Count \in Byte
      BY <1>2, <1>6
    <2> QED BY <2>1, ByteMod
  <1>10. PICK a \in Byte, b \in Byte : a = frame.address /\ b = frame.function
    BY <1>1, FieldBytes
  <1> DEFINE body == <<a, b, m>> \o bytes
             sent == [length |-> 3 + 2 * Count, data |-> body]
  <1>11. sent = FillResponseRead(frame.address, frame.function, Count, bytes)
    BY <1>9, <1>10, Zenon DEF FillResponseRead
  <1>12. ~FrameResponseAsserts(sent)
    <2>1. sent.length = 3 + 2 * Count
      OBVIOUS
    <2> QED BY <1>2, <1>6, <2>1 DEF FrameResponseAsserts
  <1>13. /\ response' = FrameResponse(frame, sent) /\ response_valid' = TRUE
         /\ faults' = faults /\ UNCHANGED <<holding, flags>>
    <2> HIDE DEF sent
    <2>1. CASE frame.function = 4
      <3>1. /\ InputReadFrame(frame, inputs).code = 0
            /\ InputReadFrame(frame, inputs).response = sent
        BY <1>3, <1>7, <1>11, <2>1 DEF InputReadFrame, ReadValues, First, Count
      <3>2. GetAddressSpaceFromFunction(frame.function) = "kInputRegister"
        BY <2>1, AddressSpaces
      <3> QED BY <1>12, <3>1, <3>2, ZenonT(40) DEF RunCommand
    <2>2. CASE frame.function = 3
      <3>1. /\ HoldingReadFrame(frame, holding, flags).code = 0
            /\ HoldingReadFrame(frame, holding, flags).response = sent
            /\ HoldingReadFrame(frame, holding, flags).values = holding
            /\ HoldingReadFrame(frame, holding, flags).flags = flags
        BY <1>3, <1>7, <1>11, <2>2 DEF HoldingReadFrame, ReadValues, First, Count
      <3>2. GetAddressSpaceFromFunction(frame.function) = "kHoldingRegister"
        BY <2>2, AddressSpaces
      <3> QED BY <1>12, <3>1, <3>2, ZenonT(40) DEF RunCommand
    <2> QED BY <2>1, <2>2
  <1>14. /\ body \in Seq(Byte) /\ Len(body) = 3 + m /\ body[3] = m
         /\ \A i \in 1 .. m : body[i + 3] = bytes[i]
    <2>1. bytes \in Seq(Byte) /\ Len(bytes) = m /\ m \in Nat
      BY <1>8, <1>9
    <2>2. <<a, b, m>> \in Seq(Byte)
      BY <1>9, <1>10
    <2>3. body \in Seq(Byte)
      BY <2>1, <2>2, ConcatProperties, Zenon
    <2>4. /\ Len(body) = 3 + m /\ body[3] = m
          /\ \A i \in 1 .. m : body[i + 3] = bytes[i]
      BY <2>1
    <2> QED BY <2>3, <2>4
  <1> HIDE DEF body
  <1>15. ASSUME NEW k \in 0 .. Count - 1
         PROVE  MakeMSB(body[2 * k + 4], body[2 * k + 5]) = ReadValues[First + k]
    <2>1. 2 * k + 1 \in 1 .. m /\ 2 * k + 2 \in 1 .. m
      BY <1>2, <1>9
    <2>2. (2 * k + 1) + 3 = 2 * k + 4 /\ (2 * k + 2) + 3 = 2 * k + 5
      OBVIOUS
    <2>3. body[2 * k + 4] = bytes[2 * k + 1] /\ body[2 * k + 5] = bytes[2 * k + 2]
      BY <1>14, <2>1, <2>2, Zenon
    <2> QED BY <1>8, <2>3, Zenon
  <1>16. Len(body) = 3 + 2 * Count /\ body[3] = 2 * Count
    BY <1>9, <1>14
  <1> QED BY <1>2, <1>6, <1>13, <1>14, <1>15, <1>16

(* The reply to an accepted read. *)
LEMMA ReadReply ==
  ASSUME CrcIsWord, Count <= 125,
         FramingInv, PacketReceived, ValidateMessage(frame) = kAck, RunCommand(frame),
         frame.function \in {3, 4},
         holding \in [HoldingAddress -> Word], inputs \in [InputAddress -> Word]
  PROVE  /\ Count \in 0 .. 125
         /\ \E data : /\ FramedAnswer(data)
                      /\ response' = [length |-> 5 + 2 * Count, data |-> data]
                      /\ Len(data) = 5 + 2 * Count
                      /\ data[3] = 2 * Count
                      /\ \A k \in 0 .. Count - 1 :
                            MakeMSB(data[2 * k + 4], data[2 * k + 5])
                                = ReadValues[First + k]
  <1>0. FitsResponse(frame)
    <2>1. Count \in Word
      BY FieldsAreWords DEF Count, ImplementedFunctions
    <2>2. Count \in Nat
      BY <2>1, MaxWordNat DEF Word
    <2>3. 3 + 2 * Count <= 256
      BY <2>2
    <2> QED BY <2>3 DEF FitsResponse, Count
  <1>1. PICK body \in Seq(Byte) :
           /\ response' = FrameResponse(frame, [length |-> 3 + 2 * Count, data |-> body])
           /\ Len(body) = 3 + 2 * Count
           /\ body[3] = 2 * Count
           /\ \A k \in 0 .. Count - 1 :
                 MakeMSB(body[2 * k + 4], body[2 * k + 5]) = ReadValues[First + k]
    BY <1>0, ReadSent
  <1>2. Count \in Nat /\ Count <= 125
    BY <1>0, ReadSent
  <1>3. PICK n \in 2 .. 254 : n = 3 + 2 * Count
    BY <1>2
  <1>4. frame.address \in Byte /\ frame.function \in Byte
    BY FieldBytes DEF ImplementedFunctions
  <1>5. Len(body) = n
    BY <1>1, <1>3
  <1>6. PICK data \in Seq(Byte) :
           /\ FrameResponse(frame, [length |-> n, data |-> body])
                  = [length |-> n + 2, data |-> data]
           /\ Len(data) = n + 2
           /\ data[1] = frame.address /\ data[2] = frame.function
           /\ \A i \in 3 .. n : data[i] = body[i]
           /\ BufferCrcIsValid(data)
    BY <1>1, <1>3, <1>4, <1>5, FrameResponseShape, ZenonT(40)
  <1>7. FramedAnswer(data)
    BY <1>6 DEF FramedAnswer
  <1>8. n + 2 = 5 + 2 * Count
    BY <1>2, <1>3
  <1>9. response' = [length |-> 5 + 2 * Count, data |-> data] /\ Len(data) = 5 + 2 * Count
    BY <1>1, <1>3, <1>6, <1>8
  <1>10. data[3] = 2 * Count
    BY <1>1, <1>2, <1>3, <1>6
  <1>11. ASSUME NEW k \in 0 .. Count - 1
         PROVE  MakeMSB(data[2 * k + 4], data[2 * k + 5]) = ReadValues[First + k]
    <2>1. 2 * k + 4 \in 3 .. n /\ 2 * k + 5 \in 3 .. n
      BY <1>2, <1>3
    <2>2. data[2 * k + 4] = body[2 * k + 4] /\ data[2 * k + 5] = body[2 * k + 5]
      BY <1>6, <2>1
    <2> QED BY <1>1, <2>2, Zenon
  <1>12. Count \in 0 .. 125
    BY <1>2
  <1> QED BY <1>7, <1>9, <1>10, <1>11, <1>12

(* A refusal carries the function with the error bit and the exception. *)
LEMMA RefusalReply ==
  ASSUME CrcIsWord, FramingInv, PacketReceived, NEW e \in Byte,
         SendErrorResponse(frame, e)
  PROVE  \E data \in Seq(Byte) :
            /\ response' = [length |-> 5, data |-> data]
            /\ Len(data) = 5
            /\ data[1] = frame.address
            /\ data[2] = frame.function + kStatusResponseAddValue
            /\ data[3] = e
            /\ BufferCrcIsValid(data)
  <1>1. frame.address \in Byte /\ frame.function \in ValidFunctions
    BY DEF FramingInv, CtxTypeOK, FrameType, CountdownInv, PacketReceived
  <1>2. PICK b \in Byte : b = frame.function + 128 /\ GetErrorFunction(frame.function) = b
    BY <1>1 DEF ValidFunctions, GetErrorFunction, kStatusResponseAddValue
  <1> DEFINE packet == [address |-> frame.address, function |-> b]
             body   == <<0, 0, e>>
  <1>3. response' = FrameResponse(packet, [length |-> 3, data |-> body])
    BY <1>2 DEF SendErrorResponse
  <1>4. body \in Seq(Byte) /\ Len(body) = 3 /\ body[3] = e
    OBVIOUS
  <1>5. packet.address \in Byte /\ packet.function \in Byte
          /\ packet.address = frame.address /\ packet.function = b
    BY <1>1, <1>2
  <1> HIDE DEF packet, body
  <1>6. PICK data \in Seq(Byte) :
           /\ FrameResponse(packet, [length |-> 3, data |-> body])
                  = [length |-> 3 + 2, data |-> data]
           /\ Len(data) = 3 + 2
           /\ data[1] = packet.address /\ data[2] = packet.function
           /\ \A i \in 3 .. 3 : data[i] = body[i]
           /\ BufferCrcIsValid(data)
    <2>1. 3 \in 2 .. 254
      OBVIOUS
    <2> QED BY <1>4, <1>5, <2>1, FrameResponseShape, ZenonT(40)
  <1>7. data[3] = e
    BY <1>4, <1>6
  <1>8. response' = [length |-> 5, data |-> data] /\ Len(data) = 5
    BY <1>3, <1>6
  <1>9. data[1] = frame.address /\ data[2] = frame.function + kStatusResponseAddValue
    BY <1>2, <1>5, <1>6 DEF kStatusResponseAddValue
  <1> QED BY <1>6, <1>7, <1>8, <1>9

-----------------------------------------------------------------------------
(* An accepted write gives the registers it names the words the master     *)
(* encoded and leaves the others: the copy of the data bytes is the one    *)
(* the byte count announced, all of it received.                           *)
LEMMA WriteStores ==
  ASSUME FramingInv, PacketReceived, ValidateMessage(frame) = kAck, RunCommand(frame),
         frame.function \in {6, 16}, holding \in [HoldingAddress -> Word]
  PROVE  /\ holding' = [a \in HoldingAddress |->
                           IF a \in WrittenBy(frame) THEN ValueFor(frame, a) ELSE holding[a]]
         /\ \A a \in WrittenBy(frame) : ValueFor(frame, a) \in Word
  <1>1. frame.function \in ImplementedFunctions
    BY DEF ImplementedFunctions
  <1>2. First \in Nat /\ Count \in Nat
    <2>1. First \in Word /\ Count \in Word
      BY <1>1, FieldsAreWords DEF First, Count
    <2> QED BY <2>1, MaxWordNat DEF Word
  <1>3. GetAddressSpaceFromFunction(frame.function) = "kHoldingRegister"
    BY AddressSpaces
  <1>4. holding' = HoldingReadFrame(frame, holding, flags).values
    BY <1>3 DEF RunCommand
  <1>5. DOMAIN holding = HoldingAddress
    OBVIOUS
  <1>6. CASE frame.function = 6
    <2> DEFINE value == ReadSetting(frame.data)
    <2>1. holding' = SetRegister(holding, First, value)
      BY <1>4, <1>6 DEF HoldingReadFrame, First
    <2>2. WrittenBy(frame) = {First}
      BY <1>6, WrittenCases DEF First
    <2>3. \A a : ValueFor(frame, a) = value
      BY <1>6 DEF ValueFor, ReadSetting, MakeMSB
    <2>4. value \in Word
      BY <1>1, FieldsAreWords DEF ReadSetting, ReadRegisterCount
    <2> HIDE DEF value
    <2>5. holding' = [a \in HoldingAddress |-> IF a = First THEN value ELSE holding[a]]
      BY <2>1 DEF SetRegister
    <2>6. [a \in HoldingAddress |-> IF a = First THEN value ELSE holding[a]]
            = [a \in HoldingAddress |->
                  IF a \in WrittenBy(frame) THEN ValueFor(frame, a) ELSE holding[a]]
      BY <2>2, <2>3
    <2> QED BY <2>3, <2>4, <2>5, <2>6
  <1>7. CASE frame.function = 16
    <2> DEFINE sub == SubSeq(frame.data, 6, 5 + 2 * Count)
    <2>1. holding' = SetRegisters(holding, First, Count, sub)
      BY <1>4, <1>7 DEF HoldingReadFrame, First, Count
    <2>2. WrittenBy(frame) = First .. First + Count - 1
      BY <1>7, WrittenCases DEF First, Count
    <2>3. frame.data[5] = 2 * Count
      <3>1. Verdict(frame) = kAck
        BY VerdictExact
      <3>2. Verdict(frame) = IF ~InRange(HoldingCount, First, Count)
                             THEN kIllegalDataAddress
                             ELSE IF frame.data[5] # 2 * Count
                             THEN kIllegalDataValue ELSE kAck
        BY <1>1, <1>7 DEF Verdict, First, Count, ReadDataByteCount
      <3> QED BY <3>1, <3>2 DEF kAck, kIllegalDataAddress, kIllegalDataValue
    <2>4. \A i \in 6 .. 5 + 2 * Count : frame.data[i] \in Byte
      <3>1. /\ Len(frame.data) \in Nat /\ Len(frame.data) >= 7 + frame.data[5]
            /\ \A i \in 1 .. Len(frame.data) : frame.data[i] \in Byte
        BY <1>1, <1>7, CompleteFrame
      <3>2. 6 .. 5 + 2 * Count \subseteq 1 .. Len(frame.data)
        BY <1>2, <2>3, <3>1
      <3> QED BY <3>1, <3>2, ZenonT(40)
    <2>5. \A j \in 1 .. 2 * Count : sub[j] = frame.data[j + 5] /\ sub[j] \in Byte
      <3>1. 6 \in Int /\ 5 + 2 * Count \in Int /\ (5 + 2 * Count) - 6 + 1 = 2 * Count
        BY <1>2
      <3>2. \A j \in 1 .. (5 + 2 * Count) - 6 + 1 : sub[j] = frame.data[6 + j - 1]
        BY <2>4, <3>1, SubSeqProperties
      <3> HIDE DEF sub
      <3>3. \A j \in 1 .. 2 * Count : 6 + j - 1 = j + 5 /\ j + 5 \in 6 .. 5 + 2 * Count
        BY <1>2
      <3> QED BY <2>4, <3>1, <3>2, <3>3
    <2> HIDE DEF sub
    <2>6. ASSUME NEW a \in First .. First + Count - 1
          PROVE  /\ MakeMSB(sub[2 * (a - First) + 1], sub[2 * (a - First) + 2])
                        = ValueFor(frame, a)
                 /\ ValueFor(frame, a) \in Word
      <3>1. PICK k \in 0 .. Count - 1 : k = a - First
        BY <1>2
      <3>2. 2 * k + 1 \in 1 .. 2 * Count /\ 2 * k + 2 \in 1 .. 2 * Count
        BY <1>2, <3>1
      <3>3. (2 * k + 1) + 5 = 6 + 2 * k /\ (2 * k + 2) + 5 = (6 + 2 * k) + 1
        BY <3>1
      <3>4. /\ sub[2 * k + 1] = frame.data[6 + 2 * k] /\ sub[2 * k + 1] \in Byte
            /\ sub[2 * k + 2] = frame.data[(6 + 2 * k) + 1] /\ sub[2 * k + 2] \in Byte
        BY <2>5, <3>2, <3>3
      <3>5. ValueFor(frame, a) = 256 * frame.data[6 + 2 * k] + frame.data[(6 + 2 * k) + 1]
        BY <1>7, <3>1 DEF ValueFor, First
      <3>6. ValueFor(frame, a) = MakeMSB(sub[2 * k + 1], sub[2 * k + 2])
        BY <3>4, <3>5, Zenon DEF MakeMSB
      <3>7. ValueFor(frame, a) \in Word
        BY <3>4, <3>6, WordOfBytes
      <3> QED BY <3>1, <3>6, <3>7
    <2>7. holding' = [a \in HoldingAddress |->
                         IF a \in First .. First + Count - 1
                         THEN MakeMSB(sub[2 * (a - First) + 1], sub[2 * (a - First) + 2])
                         ELSE holding[a]]
      BY <1>5, <2>1, Zenon DEF SetRegisters
    <2>8. holding' = [a \in HoldingAddress |->
                         IF a \in WrittenBy(frame) THEN ValueFor(frame, a) ELSE holding[a]]
      BY <2>2, <2>6, <2>7
    <2> QED BY <2>2, <2>6, <2>8
  <1> QED BY <1>6, <1>7

-----------------------------------------------------------------------------
(* Even the reply that overwrites its own address byte, the one of 255     *)
(* bytes and a CRC, stays a byte sequence in the array and keeps its       *)
(* function.                                                               *)
LEMMA FrameResponseTyped ==
  ASSUME CrcIsWord,
         NEW packet, packet.address \in Byte, packet.function \in Byte,
         NEW body \in Seq(Byte), NEW n \in 2 .. 255, Len(body) = n
  PROVE  /\ FrameResponse(packet, [length |-> n, data |-> body]) \in ResponseType
         /\ FrameResponse(packet, [length |-> n, data |-> body]).data[2] = packet.function
         /\ FrameResponse(packet, [length |-> n, data |-> body]).length = n + 2
         /\ Len(FrameResponse(packet, [length |-> n, data |-> body]).data) <= 256
         /\ Len(FrameResponse(packet, [length |-> n, data |-> body]).data) <= n + 2
  <1>0. PICK a \in Byte, b \in Byte : a = packet.address /\ b = packet.function
    OBVIOUS
  <1> DEFINE headed == [body EXCEPT ![1] = a, ![2] = b]
             high   == GetByte(Crc(headed), 1)
             low    == GetByte(Crc(headed), 0)
             grown  == SetLength(headed, n + 2)
             data   == [grown EXCEPT ![Slot(n) + 1] = high, ![Slot(n + 1) + 1] = low]
  <1>1. FrameResponse(packet, [length |-> n, data |-> body])
            = [length |-> n + 2, data |-> data]
    BY <1>0 DEF FrameResponse, CrcBytes
  <1>2. /\ headed \in Seq(Byte) /\ Len(headed) = n /\ headed[2] = b
        /\ \A i \in 1 .. n : headed[i] \in Byte
    <2>1. body \in [1 .. n -> Byte]
      BY LenProperties, ZenonT(40)
    <2>2. headed \in [1 .. n -> Byte]
      BY <1>0, <2>1
    <2>3. headed \in Seq(Byte) /\ Len(headed) = n
      BY <2>2, FunctionIsSeq
    <2>4. \A i \in 1 .. n : headed[i] \in Byte
      BY <2>2
    <2>5. headed[2] = b
      BY <2>1
    <2> QED BY <2>3, <2>4, <2>5
  <1> HIDE DEF headed
  <1>3. Crc(headed) \in Word
    BY <1>2 DEF CrcIsWord
  <1>4. high \in Byte /\ low \in Byte
    BY <1>3, WordBytesExact
  <1> HIDE DEF high, low
  <1>5. PICK m \in Nat : m = (IF n + 2 < 256 THEN n + 2 ELSE 256)
    OBVIOUS
  <1>6. grown \in [1 .. m -> Byte] /\ grown[2] = b
    <2>1. grown = [i \in 1 .. m |-> IF i <= n THEN headed[i] ELSE 0]
      BY <1>2, <1>5 DEF SetLength
    <2>2. \A i \in 1 .. m : (IF i <= n THEN headed[i] ELSE 0) \in Byte
      BY <1>2
    <2>3. 2 \in 1 .. m /\ 2 <= n
      BY <1>5
    <2>4. grown[2] = b
      BY <1>2, <2>1, <2>3
    <2>5. grown \in [1 .. m -> Byte]
      BY <2>1, <2>2, ZenonT(40)
    <2> QED BY <2>4, <2>5
  <1> HIDE DEF grown
  <1>7. data \in [1 .. m -> Byte]
    BY <1>4, <1>6
  <1>8. data[2] = b
    <2>1. Slot(n) + 1 # 2 /\ Slot(n + 1) + 1 # 2 /\ 2 \in 1 .. m
      BY <1>5 DEF Slot
    <2> QED BY <1>6, <2>1
  <1> HIDE DEF data
  <1>9. data \in Seq(Byte) /\ Len(data) <= 256 /\ Len(data) <= n + 2
    <2>1. data \in Seq(Byte) /\ Len(data) = m
      BY <1>7, FunctionIsSeq
    <2> QED BY <1>5, <2>1
  <1>10. /\ [length |-> n + 2, data |-> data].data = data
         /\ [length |-> n + 2, data |-> data].length = n + 2
    OBVIOUS
  <1>11. [length |-> n + 2, data |-> data] \in ResponseType
    BY <1>9 DEF ResponseType
  <1> QED BY <1>0, <1>1, <1>8, <1>9, <1>10, <1>11, Zenon

(* The inductive invariant of the slave's types. *)
SlaveInv == SlaveTypeOK /\ FramingInv

(* The response after a command that was validated. *)
LEMMA RunCommandTyped ==
  ASSUME CrcIsWord, SlaveInv, PacketReceived, ValidateMessage(frame) = kAck,
         RunCommand(frame), FitsResponse(frame)
  PROVE  /\ response' \in ResponseType /\ response_valid' = TRUE /\ faults' = faults
         /\ response'.data[2] = frame.function
         /\ response'.length <= 257 /\ Len(response'.data) <= response'.length
         /\ holding' \in [HoldingAddress -> Word]
         /\ flags' \in [HoldingAddress -> BOOLEAN]
         /\ unseen' \in SUBSET HoldingAddress
  <1>1. frame.function \in ImplementedFunctions
    BY DEF ValidateMessage, kAck, kIllegalFunction
  <1>2. /\ FramingInv /\ holding \in [HoldingAddress -> Word]
        /\ inputs \in [InputAddress -> Word] /\ flags \in [HoldingAddress -> BOOLEAN]
        /\ unseen \in SUBSET HoldingAddress
    BY DEF SlaveInv, SlaveTypeOK
  <1>3. unseen' \in SUBSET HoldingAddress
    <2>1. WrittenBy(frame) \subseteq HoldingAddress
      BY <1>2, WrittenInStore
    <2> QED BY <1>2, <2>1 DEF RunCommand
  <1>4. CASE frame.function \in {6, 16}
    <2>1. /\ response' \in ResponseType /\ response_valid' = TRUE /\ faults' = faults
          /\ response'.data[2] = frame.function
          /\ response'.length <= 257 /\ Len(response'.data) <= response'.length
      <3>1. PICK data : /\ FramedAnswer(data) /\ response' = [length |-> 8, data |-> data]
                        /\ Len(data) = 8
        BY <1>2, <1>4, WriteReply
      <3>2. data \in Seq(Byte) /\ data[2] = frame.function
        BY <3>1 DEF FramedAnswer
      <3>3. response' \in ResponseType /\ response'.data[2] = frame.function
        BY <3>1, <3>2 DEF ResponseType
      <3>4. response'.data = data /\ response'.length = 8
        BY <3>1
      <3>5. response'.length <= 257 /\ Len(response'.data) <= response'.length
        <4>1. Len(response'.data) = 8
          BY <3>1, <3>4, Zenon
        <4> QED BY <3>4, <4>1
      <3> QED BY <1>2, <1>4, <3>3, <3>5, WriteReply
    <2>2. holding' \in [HoldingAddress -> Word]
      BY <1>2, <1>4, WriteStores
    <2>3. flags' \in [HoldingAddress -> BOOLEAN]
      <3>1. GetAddressSpaceFromFunction(frame.function) = "kHoldingRegister"
        BY <1>4, AddressSpaces
      <3>2. flags' = HoldingReadFrame(frame, holding, flags).flags
        BY <3>1 DEF RunCommand
      <3>3. \A address, count :
               SetFlags(flags, address, count) \in [HoldingAddress -> BOOLEAN]
        BY <1>2 DEF SetFlags
      <3> QED BY <1>4, <3>2, <3>3 DEF HoldingReadFrame
    <2> QED BY <1>3, <2>1, <2>2, <2>3
  <1>5. CASE frame.function \in {3, 4}
    <2>1. /\ response_valid' = TRUE /\ faults' = faults
          /\ UNCHANGED <<holding, flags>>
          /\ Count \in Nat /\ Count <= 126
      BY <1>2, <1>5, ReadSent
    <2>2. PICK body \in Seq(Byte) :
             /\ response' = FrameResponse(frame, [length |-> 3 + 2 * Count, data |-> body])
             /\ Len(body) = 3 + 2 * Count
      BY <1>2, <1>5, ReadSent
    <2>3. PICK n \in 2 .. 255 : n = 3 + 2 * Count
      BY <2>1
    <2>4. frame.address \in Byte /\ frame.function \in Byte
      BY <1>1, <1>2, FieldBytes
    <2>5. /\ FrameResponse(frame, [length |-> n, data |-> body]) \in ResponseType
          /\ FrameResponse(frame, [length |-> n, data |-> body]).data[2] = frame.function
          /\ FrameResponse(frame, [length |-> n, data |-> body]).length = n + 2
          /\ Len(FrameResponse(frame, [length |-> n, data |-> body]).data) <= n + 2
      BY <2>2, <2>3, <2>4, FrameResponseTyped, ZenonT(40)
    <2>6. response' = FrameResponse(frame, [length |-> n, data |-> body])
      BY <2>2, <2>3
    <2>7. n + 2 <= 257
      OBVIOUS
    <2>8. /\ response' \in ResponseType /\ response'.data[2] = frame.function
          /\ response'.length <= 257 /\ Len(response'.data) <= response'.length
      BY <2>5, <2>6, <2>7, ZenonT(40)
    <2> QED BY <1>2, <1>3, <2>1, <2>8
  <1> QED BY <1>1, <1>4, <1>5 DEF ImplementedFunctions

(* ProtocolRtuSlave::ProcessMessage, whatever it decides. *)
LEMMA ProcessMessageTyped ==
  ASSUME CrcIsWord, SlaveInv, NEW filter \in BOOLEAN, ProcessMessage(filter)
  PROVE  SlaveInv'
  <1>1. /\ PacketReceived
        /\ UNCHANGED <<state, bytes_to_read, frame, slave_address, inputs>>
    BY DEF ProcessMessage
  <1>2. CASE UNCHANGED <<response, response_valid, faults, holding, flags, unseen>>
    BY <1>1, <1>2 DEF SlaveInv, SlaveTypeOK, FramingInv, CtxTypeOK, CountdownInv
  <1>3. CASE ValidateMessage(frame) = kAck /\ RunCommand(frame) /\ FitsResponse(frame)
    <2>1. /\ response' \in ResponseType /\ response_valid' = TRUE /\ faults' = faults
          /\ holding' \in [HoldingAddress -> Word]
          /\ flags' \in [HoldingAddress -> BOOLEAN]
          /\ unseen' \in SUBSET HoldingAddress
      BY <1>1, <1>3, RunCommandTyped
    <2>2. FramingInv'
      BY <1>1, <2>1 DEF SlaveInv, FramingInv, CtxTypeOK, CountdownInv
    <2> QED BY <1>1, <2>1, <2>2 DEF SlaveInv, SlaveTypeOK, FramingInv
  <1>4. CASE SendErrorResponse(frame, ValidateMessage(frame)) /\ ValidateMessage(frame) # kAck
    <2>1. ValidateMessage(frame) \in Byte
      <3>1. ValidateMessage(frame) = Verdict(frame)
        BY <1>1, VerdictExact DEF SlaveInv
      <3>2. Verdict(frame) \in {1, 2, 3, 5}
        BY DEF Verdict, kAck, kIllegalFunction, kIllegalDataAddress, kIllegalDataValue
      <3> QED BY <3>1, <3>2
    <2>2. PICK data \in Seq(Byte) : response' = [length |-> 5, data |-> data]
      BY <1>1, <1>4, <2>1, RefusalReply, ZenonT(40) DEF SlaveInv
    <2>3. response' \in ResponseType
      BY <2>2 DEF ResponseType
    <2>4. response_valid' = TRUE /\ UNCHANGED <<faults, holding, flags, unseen>>
      BY <1>4 DEF SendErrorResponse
    <2>5. FramingInv'
      BY <1>1, <2>4 DEF SlaveInv, FramingInv, CtxTypeOK, CountdownInv
    <2> QED BY <1>1, <2>3, <2>4, <2>5 DEF SlaveInv, SlaveTypeOK, FramingInv
  <1> QED BY <1>2, <1>3, <1>4, ProcessCases

(* The other operations of the slave. *)
LEMMA SlaveInvStep ==
  ASSUME CrcIsWord, SlaveInv, [SlaveNext]_slaveVars
  PROVE  SlaveInv'
  <1>1. ASSUME NEW pt \in Byte, ReceiveCharacter(pt) PROVE SlaveInv'
    <2>1. FramingInv'
      BY <1>1, ProcessCharacterInv DEF SlaveInv, ReceiveCharacter
    <2> QED BY <1>1, <2>1 DEF SlaveInv, SlaveTypeOK, FramingInv, ReceiveCharacter, storeVars
  <1>2. ASSUME NEW filter \in BOOLEAN, ProcessMessage(filter) PROVE SlaveInv'
    BY <1>2, ProcessMessageTyped
  <1>3. ASSUME NEW filter \in BOOLEAN, ProcessOversized(filter) PROVE SlaveInv'
    <2>1. faults \subseteq faults' /\ faults' \subseteq FaultKind
      BY <1>3 DEF ProcessOversized, SlaveInv, FramingInv, CtxTypeOK, FaultKind
    <2>2. FramingInv'
      BY <1>3, <2>1, FaultsGrow DEF ProcessOversized, SlaveInv
    <2> QED BY <1>3, <2>2 DEF SlaveInv, SlaveTypeOK, FramingInv, ProcessOversized, storeVars
  <1>4. CASE Reset
    <2>1. FramingInv'
      BY <1>4, ResetReadInv DEF Reset, SlaveInv
    <2>2. EmptyResponse \in ResponseType
      BY EmptySeq DEF EmptyResponse, ResponseType
    <2> QED BY <1>4, <2>1, <2>2 DEF SlaveInv, SlaveTypeOK, FramingInv, Reset, storeVars
  <1>5. CASE ClearFlags
    <2>1. flags' \in [HoldingAddress -> BOOLEAN]
      BY <1>5 DEF ClearFlags, ClearNewDataFlags, SlaveInv, SlaveTypeOK
    <2>2. FramingInv'
      BY <1>5 DEF ClearFlags, ctxVars, SlaveInv, FramingInv, CtxTypeOK, CountdownInv
    <2> QED BY <1>5, <2>1, <2>2 DEF ClearFlags, SlaveInv, SlaveTypeOK, FramingInv
  <1>6. ASSUME NEW address \in Byte, SetAddress(address) PROVE SlaveInv'
    BY <1>6 DEF SetAddress, ctxVars, storeVars, SlaveInv, SlaveTypeOK, FramingInv,
                CtxTypeOK, CountdownInv
  <1>7. ASSUME NEW address \in HoldingAddress, NEW value \in Word,
               WriteHolding(address, value)
        PROVE  SlaveInv'
    <2>1. holding' \in [HoldingAddress -> Word]
      BY <1>7 DEF WriteHolding, SetRegister, SlaveInv, SlaveTypeOK
    <2> QED BY <1>7, <2>1 DEF WriteHolding, ctxVars, SlaveInv, SlaveTypeOK, FramingInv,
                              CtxTypeOK, CountdownInv
  <1>8. ASSUME NEW address \in InputAddress, NEW value \in Word, WriteInput(address, value)
        PROVE  SlaveInv'
    <2>1. inputs' \in [InputAddress -> Word]
      BY <1>8 DEF WriteInput, SetRegister, SlaveInv, SlaveTypeOK
    <2> QED BY <1>8, <2>1 DEF WriteInput, ctxVars, SlaveInv, SlaveTypeOK, FramingInv,
                              CtxTypeOK, CountdownInv
  <1>9. CASE UNCHANGED slaveVars
    BY <1>9 DEF slaveVars, storeVars, ctxVars, SlaveInv, SlaveTypeOK, FramingInv,
                CtxTypeOK, CountdownInv
  <1> QED BY <1>1, <1>2, <1>3, <1>4, <1>5, <1>6, <1>7, <1>8, <1>9 DEF SlaveNext

(* The slave starts with empty buffers and zeroed stores. *)
LEMMA SlaveInvInit == SlaveInit => SlaveInv
  <1> SUFFICES ASSUME SlaveInit PROVE SlaveInv
    OBVIOUS
  <1>1. FramingInv
    BY FramingInit DEF SlaveInit
  <1>2. EmptyResponse \in ResponseType
    BY EmptySeq DEF EmptyResponse, ResponseType
  <1>3. 0 \in Word
    BY DEF Word, kMaxWord
  <1> QED BY <1>1, <1>2, <1>3 DEF SlaveInit, SlaveInv, SlaveTypeOK, FramingInv

(* Every variable of SlaveProtocolBase and ProtocolRtuSlave keeps its type *)
(* and the stores their size, whatever bytes, commands and calls come, for *)
(* stores of every size and every 16-bit CRC function.            *)
THEOREM SlaveTypeCorrect == CrcIsWord => (SlaveSpec => []SlaveTypeOK)
  <1> SUFFICES ASSUME CrcIsWord PROVE SlaveSpec => []SlaveTypeOK
    OBVIOUS
  <1>1. SlaveInv /\ [SlaveNext]_slaveVars => SlaveInv'
    BY SlaveInvStep
  <1>2. SlaveInv => SlaveTypeOK
    BY DEF SlaveInv
  <1> QED BY <1>1, <1>2, SlaveInvInit, PTL DEF SlaveSpec

-----------------------------------------------------------------------------
(* What a step has to leave in the response buffer. *)
LEMMA ReplyFrom ==
  ASSUME NEW n \in 5 .. kMaxFrameLength, NEW data \in Seq(Byte), Len(data) = n,
         response' = [length |-> n, data |-> data], PacketReceived',
         data[1] = frame'.address,
         \/ data[2] = frame'.function
         \/ /\ data[2] = frame'.function + kStatusResponseAddValue
            /\ n = 5
            /\ data[3] \in {kIllegalFunction, kIllegalDataAddress, kIllegalDataValue},
         BufferCrcIsValid(data)
  PROVE  ReplyMatchesRequest'
  <1>1. response'.length = n /\ response'.data = data
    OBVIOUS
  <1> QED BY <1>1, Zenon DEF ReplyMatchesRequest

(* A step that leaves receiver and response alone. *)
LEMMA ReplyKept ==
  ASSUME ReplyMatchesRequest, UNCHANGED <<ctxVars, response, response_valid>>
  PROVE  ReplyMatchesRequest'
  BY DEF ReplyMatchesRequest, PacketReceived, ctxVars

(* A byte after a reply is ready fails the assertion of the receiver. *)
LEMMA CharacterKeepsReply ==
  ASSUME ReplyMatchesRequest, NEW pt \in Byte, ReceiveCharacter(pt)
  PROVE  ReplyMatchesRequest'
  <1>1. response_valid' = response_valid
    BY DEF ReceiveCharacter
  <1>2. faults \subseteq faults'
    BY DEF ReceiveCharacter, ProcessCharacter, AddressByte, FunctionByte, MetaByte,
           DataByte, DoneByte, Store
  <1>3. state = "kDone" => faults' # {}
    BY DEF ReceiveCharacter, ProcessCharacter, AddressByte, FunctionByte, MetaByte,
           DataByte, DoneByte
  <1>4. response_valid /\ faults = {} => state = "kDone"
    BY DEF ReplyMatchesRequest, PacketReceived
  <1>5. ~(response_valid' /\ faults' = {})
    BY <1>1, <1>2, <1>3, <1>4
  <1> QED BY <1>5 DEF ReplyMatchesRequest

(* The reply that ProcessMessage leaves. *)
LEMMA ProcessMessageReply ==
  ASSUME CrcIsWord, ReadsFit, SlaveInv, ReplyMatchesRequest,
         NEW filter \in BOOLEAN, ProcessMessage(filter)
  PROVE  ReplyMatchesRequest'
  <1>1. /\ PacketReceived /\ PacketReceived'
        /\ UNCHANGED <<state, bytes_to_read, frame, slave_address, inputs>>
    BY DEF ProcessMessage, PacketReceived
  <1>2. /\ FramingInv /\ holding \in [HoldingAddress -> Word]
        /\ inputs \in [InputAddress -> Word]
    BY DEF SlaveInv, SlaveTypeOK
  <1>3. CASE UNCHANGED <<response, response_valid, faults, holding, flags, unseen>>
    BY <1>1, <1>3, ReplyKept DEF ctxVars
  <1>4. CASE ValidateMessage(frame) = kAck /\ RunCommand(frame) /\ Accepted(FALSE)
    <2>1. CASE frame.function \in {6, 16}
      <3>1. PICK data : /\ FramedAnswer(data) /\ Len(data) = 8
                        /\ response' = [length |-> 8, data |-> data]
        BY <1>1, <1>2, <1>4, <2>1, WriteReply
      <3>2. PICK n \in 5 .. kMaxFrameLength : n = 8
        OBVIOUS
      <3> QED BY <1>1, <3>1, <3>2, ReplyFrom DEF FramedAnswer
    <2>2. CASE frame.function \in {3, 4}
      <3>0. Count <= 125
        BY <1>4, <2>2 DEF ReadsFit, Count
      <3>1. PICK data : /\ FramedAnswer(data) /\ Len(data) = 5 + 2 * Count
                        /\ response' = [length |-> 5 + 2 * Count, data |-> data]
        BY <1>1, <1>2, <1>4, <2>2, <3>0, ReadReply
      <3>2. Count \in 0 .. 125
        BY <1>1, <1>2, <1>4, <2>2, <3>0, ReadReply
      <3>3. PICK n \in 5 .. kMaxFrameLength : n = 5 + 2 * Count
        BY <3>2
      <3> QED BY <1>1, <3>1, <3>3, ReplyFrom DEF FramedAnswer
    <2>3. frame.function \in ImplementedFunctions
      BY <1>4 DEF ValidateMessage, kAck, kIllegalFunction
    <2> QED BY <2>1, <2>2, <2>3 DEF ImplementedFunctions
  <1>5. CASE SendErrorResponse(frame, ValidateMessage(frame)) /\ ValidateMessage(frame) # kAck
    <2>1. ValidateMessage(frame) \in {1, 2, 3}
      <3>1. ValidateMessage(frame) = Verdict(frame)
        BY <1>1, <1>2, VerdictExact
      <3>2. Verdict(frame) \in {1, 2, 3, 5}
        BY DEF Verdict, kAck, kIllegalFunction, kIllegalDataAddress, kIllegalDataValue
      <3> QED BY <1>5, <3>1, <3>2 DEF kAck
    <2>2. PICK e \in Byte : e = ValidateMessage(frame)
      BY <2>1
    <2>3. PICK data \in Seq(Byte) :
             /\ response' = [length |-> 5, data |-> data] /\ Len(data) = 5
             /\ data[1] = frame.address
             /\ data[2] = frame.function + kStatusResponseAddValue
             /\ data[3] = e
             /\ BufferCrcIsValid(data)
      BY <1>1, <1>2, <1>5, <2>2, RefusalReply
    <2>4. data[3] \in {kIllegalFunction, kIllegalDataAddress, kIllegalDataValue}
      BY <2>1, <2>2, <2>3 DEF kIllegalFunction, kIllegalDataAddress, kIllegalDataValue
    <2>5. PICK n \in 5 .. kMaxFrameLength : n = 5
      OBVIOUS
    <2> QED BY <1>1, <2>3, <2>4, <2>5, ReplyFrom
  <1> QED BY <1>3, <1>4, <1>5, ProcessCases

(* Whatever is ready to send answers the frame in the receiver, is framed  *)
(* in the response array and passes the master's CRC check, in every       *)
(* behaviour of a slave, with stores of any size, that is never asked for  *)
(* more than 125 registers at once.  With one register more it fails, as   *)
(* the run with 126 registers shows.                                       *)
THEOREM ReplyCorrect == CrcIsWord => (SlaveSpec /\ []ReadsFit => []ReplyMatchesRequest)
  <1> SUFFICES ASSUME CrcIsWord PROVE SlaveSpec /\ []ReadsFit => []ReplyMatchesRequest
    OBVIOUS
  <1>1. SlaveInit => SlaveInv /\ ReplyMatchesRequest
    BY SlaveInvInit DEF SlaveInit, ReplyMatchesRequest
  <1>2. SlaveInv /\ ReplyMatchesRequest /\ ReadsFit /\ [SlaveNext]_slaveVars
           => SlaveInv' /\ ReplyMatchesRequest'
    <2> SUFFICES ASSUME SlaveInv, ReplyMatchesRequest, ReadsFit, [SlaveNext]_slaveVars
                 PROVE  ReplyMatchesRequest'
      BY SlaveInvStep
    <2>1. ASSUME NEW pt \in Byte, ReceiveCharacter(pt) PROVE ReplyMatchesRequest'
      BY <2>1, CharacterKeepsReply
    <2>2. ASSUME NEW filter \in BOOLEAN, ProcessMessage(filter) PROVE ReplyMatchesRequest'
      BY <2>2, ProcessMessageReply
    <2>3. ASSUME NEW filter \in BOOLEAN, ProcessOversized(filter)
          PROVE  ReplyMatchesRequest'
      BY <2>3 DEF ProcessOversized, ReplyMatchesRequest
    <2>4. CASE Reset
      BY <2>4 DEF Reset, ReplyMatchesRequest
    <2>5. CASE ClearFlags
      BY <2>5, ReplyKept DEF ClearFlags
    <2>6. ASSUME NEW address \in Byte, SetAddress(address) PROVE ReplyMatchesRequest'
      BY <2>6, ReplyKept DEF SetAddress
    <2>7. ASSUME NEW address \in HoldingAddress, NEW value \in Word,
                 WriteHolding(address, value)
          PROVE  ReplyMatchesRequest'
      BY <2>7, ReplyKept DEF WriteHolding
    <2>8. ASSUME NEW address \in InputAddress, NEW value \in Word,
                 WriteInput(address, value)
          PROVE  ReplyMatchesRequest'
      BY <2>8, ReplyKept DEF WriteInput
    <2>9. CASE UNCHANGED slaveVars
      BY <2>9, ReplyKept DEF slaveVars
    <2> QED BY <2>1, <2>2, <2>3, <2>4, <2>5, <2>6, <2>7, <2>8, <2>9 DEF SlaveNext
  <1> QED BY <1>1, <1>2, PTL DEF SlaveSpec

(* A read that passes the range check of a small store is small. *)
LEMMA ReadInStore ==
  ASSUME StoresFitReply, FramingInv
  PROVE  ReadsFit
  <1> SUFFICES ASSUME Accepted(FALSE), ValidateMessage(frame) = kAck,
                      frame.function \in {3, 4}
               PROVE  Count <= 125
    BY DEF ReadsFit, Count
  <1>1. PacketReceived /\ frame.function \in ImplementedFunctions
    BY DEF Accepted, ImplementedFunctions
  <1>2. First \in Nat /\ Count \in Nat
    <2>1. First \in Word /\ Count \in Word
      BY <1>1, FieldsAreWords DEF First, Count
    <2> QED BY <2>1, MaxWordNat DEF Word
  <1>3. PICK size \in Nat : /\ size <= 125
                            /\ size = IF frame.function = 4 THEN InputCount ELSE HoldingCount
    BY CountAssumption DEF StoresFitReply
  <1>4. Verdict(frame) = kAck
    BY <1>1, VerdictExact
  <1>5. Verdict(frame) = IF InRange(size, First, Count) THEN kAck ELSE kIllegalDataAddress
    <2>1. CASE frame.function = 4
      BY <1>1, <1>3, <2>1 DEF Verdict, First, Count
    <2>2. CASE frame.function = 3
      BY <1>1, <1>3, <2>2 DEF Verdict, First, Count
    <2> QED BY <2>1, <2>2
  <1>6. InRange(size, First, Count)
    BY <1>4, <1>5 DEF kAck, kIllegalDataAddress
  <1>7. First + Count <= size
    BY <1>6, Zenon DEF InRange
  <1>8. size \in Nat /\ size <= 125
    BY <1>3, Zenon
  <1> QED BY <1>2, <1>7, <1>8

(* With stores of at most 125 registers there is nothing to assume about   *)
(* the requests: the range check refuses every longer read.                *)
THEOREM SmallStoresReply ==
  CrcIsWord /\ StoresFitReply => (SlaveSpec => []ReplyMatchesRequest)
  <1> SUFFICES ASSUME CrcIsWord, StoresFitReply PROVE SlaveSpec => []ReplyMatchesRequest
    OBVIOUS
  <1>1. SlaveInv /\ [SlaveNext]_slaveVars => SlaveInv'
    BY SlaveInvStep
  <1>2. SlaveInv => ReadsFit
    BY ReadInStore DEF SlaveInv
  <1> QED BY <1>1, <1>2, SlaveInvInit, ReplyCorrect, PTL DEF SlaveSpec
=============================================================================
