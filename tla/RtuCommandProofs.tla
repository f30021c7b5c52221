-------------------------- MODULE RtuCommandProofs --------------------------
(***************************************************************************)
(* What one step of the slave may and must do: the action properties of    *)
(* RtuSlave, for stores of every size and every sequence of bytes,         *)
(* commands and application calls.                                         *)
(***************************************************************************)
EXTENDS RtuSlaveProofs, RtuServer

USE DEF Byte, kHeaderLength, kFooterLength, kMaxFrameLength,
        kReadMultipleHoldingRegisters, kReadInputRegisters,
        kWriteSingleHoldingRegister, kWriteMultipleHoldingRegisters

(* SlaveInv holds in every behaviour. *)
LEMMA SlaveInvAlways == ASSUME CrcIsWord PROVE SlaveSpec => []SlaveInv
  <1>1. SlaveInv /\ [SlaveNext]_slaveVars => SlaveInv'
    BY SlaveInvStep
  <1> QED BY <1>1, SlaveInvInit, PTL DEF SlaveSpec

(* The frames the slave acts on are the ones it does not ignore. *)
LEMMA AcceptedNotIgnored ==
  ASSUME NEW filter \in BOOLEAN, ProcessMessage(filter)
  PROVE  Accepted(filter) <=> ~Ignored(filter)
  BY DEF ProcessMessage, LeavesArray, Accepted, Ignored, FrameCrcIsValid

(* What ProcessMessage does with the verdict on an accepted frame. *)
LEMMA AcceptedIsRunOrRefused ==
  ASSUME SlaveInv, NEW filter \in BOOLEAN, ProcessMessage(filter), Accepted(filter)
  PROVE  /\ Verdict(frame) = kAck =>
               ValidateMessage(frame) = kAck /\ RunCommand(frame) /\ FitsResponse(frame)
         /\ Verdict(frame) # kAck => SendErrorResponse(frame, Verdict(frame))
         /\ Verdict(frame) \in {1, 2, 3, 5}
         /\ PacketReceived
  <1>1. PacketReceived /\ ~Ignored(filter)
    BY AcceptedNotIgnored DEF ProcessMessage
  <1>2. ValidateMessage(frame) = Verdict(frame)
    BY <1>1, VerdictExact DEF SlaveInv
  <1>3. Verdict(frame) \in {1, 2, 3, 5}
    BY DEF Verdict, kAck, kIllegalFunction, kIllegalDataAddress, kIllegalDataValue
  <1>4. ValidateMessage(frame) = kAck => FitsResponse(frame)
    BY <1>1 DEF ProcessMessage, LeavesArray, Ignored
  <1> QED BY <1>1, <1>2, <1>3, <1>4 DEF ProcessMessage

-----------------------------------------------------------------------------
(* A frame for another slave, one with a bad CRC and a refused command     *)
(* change no register and no flag, in every behaviour.                     *)
THEOREM RejectedCorrect == CrcIsWord => (SlaveSpec => RejectedHasNoEffect)
  <1> SUFFICES ASSUME CrcIsWord PROVE SlaveSpec => RejectedHasNoEffect
    OBVIOUS
  <1>1. SlaveInv => RejectStep
    <2> SUFFICES ASSUME SlaveInv, NEW filter \in BOOLEAN, ProcessMessage(filter),
                        ~Accepted(filter) \/ Verdict(frame) # kAck
                 PROVE  /\ UNCHANGED <<holding, flags, inputs>>
                        /\ ~Accepted(filter) => UNCHANGED <<response, response_valid>>
      BY DEF RejectStep
    <2>1. UNCHANGED inputs
      BY DEF ProcessMessage
    <2>2. CASE ~Accepted(filter)
      BY <2>1, <2>2, AcceptedNotIgnored DEF ProcessMessage
    <2>3. CASE Accepted(filter)
      BY <2>1, <2>3, AcceptedIsRunOrRefused DEF SendErrorResponse
    <2> QED BY <2>2, <2>3
  <1> QED BY <1>1, SlaveInvAlways, PTL DEF RejectedHasNoEffect

(* Every complete frame with a good CRC for this slave is answered at      *)
(* once, with the exception its range and byte count deserve in plain      *)
(* integers or without one, in every behaviour up to an overrun.           *)
THEOREM AnsweredCorrect == CrcIsWord => (SlaveSpec => AnsweredByVerdict)
  <1> SUFFICES ASSUME CrcIsWord PROVE SlaveSpec => AnsweredByVerdict
    OBVIOUS
  <1>1. SlaveInv => AnswerStep
    <2> SUFFICES ASSUME SlaveInv, NEW filter \in BOOLEAN, ProcessMessage(filter),
                        Accepted(filter)
                 PROVE  /\ response_valid'
                        /\ IF Verdict(frame) = kAck
                           THEN response'.data[2] = frame.function
                           ELSE /\ response'.data[2]
                                      = frame.function + kStatusResponseAddValue
                                /\ response'.data[3] = Verdict(frame)
      BY DEF AnswerStep
    <2>1. CASE Verdict(frame) = kAck
      <3>1. /\ PacketReceived /\ ValidateMessage(frame) = kAck /\ RunCommand(frame)
            /\ FitsResponse(frame)
        BY <2>1, AcceptedIsRunOrRefused
      <3>2. response_valid' = TRUE /\ response'.data[2] = frame.function
        BY <3>1, RunCommandTyped
      <3> QED BY <2>1, <3>2
    <2>2. CASE Verdict(frame) # kAck
      <3>1. PICK e \in Byte : e = Verdict(frame)
        BY AcceptedIsRunOrRefused
      <3>2. PacketReceived /\ SendErrorResponse(frame, e)
        BY <2>2, <3>1, AcceptedIsRunOrRefused
      <3>3. PICK data \in Seq(Byte) :
               /\ response' = [length |-> 5, data |-> data]
               /\ data[2] = frame.function + kStatusResponseAddValue
               /\ data[3] = e
        BY <3>1, <3>2, RefusalReply, ZenonT(40) DEF SlaveInv
      <3>4. response'.data = data /\ response_valid' = TRUE
        BY <3>2, <3>3 DEF SendErrorResponse
      <3> QED BY <2>2, <3>1, <3>3, <3>4
    <2> QED BY <2>1, <2>2
  <1> QED BY <1>1, SlaveInvAlways, PTL DEF AnsweredByVerdict

(* An accepted write gives the registers it names the values the master    *)
(* encoded, leaves all others and is acknowledged with its own address and *)
(* count or value.                                                         *)
THEOREM WriteCorrect == CrcIsWord => (SlaveSpec => WriteTakesEffect)
  <1> SUFFICES ASSUME CrcIsWord PROVE SlaveSpec => WriteTakesEffect
    OBVIOUS
  <1>1. SlaveInv => WriteStep
    <2> SUFFICES ASSUME SlaveInv, NEW filter \in BOOLEAN, Serves(filter, {6, 16})
                 PROVE  /\ \A a \in HoldingAddress :
                              holding'[a] = IF a \in WrittenBy(frame) THEN ValueFor(frame, a)
                                                                      ELSE holding[a]
                        /\ SubSeq(response'.data, 3, 6) = SubSeq(frame.data, 1, 4)
      BY DEF WriteStep
    <2>1. /\ FramingInv /\ holding \in [HoldingAddress -> Word]
          /\ frame.function \in {6, 16}
          /\ PacketReceived /\ ValidateMessage(frame) = kAck /\ RunCommand(frame)
      BY AcceptedIsRunOrRefused DEF Serves, SlaveInv, SlaveTypeOK
    <2>2. holding' = [a \in HoldingAddress |->
                         IF a \in WrittenBy(frame) THEN ValueFor(frame, a) ELSE holding[a]]
      BY <2>1, WriteStores
    <2>3. PICK data : /\ FramedAnswer(data)
                      /\ response' = [length |-> 8, data |-> data]
                      /\ Len(data) = 8
                      /\ \A i \in 1 .. 4 : data[i + 2] = frame.data[i]
      BY <2>1, WriteReply
    <2>4. \A i \in 1 .. 4 : frame.data[i] \in Byte
      BY <2>1, FieldBytes DEF ImplementedFunctions
    <2>5. /\ SubSeq(frame.data, 1, 4) \in Seq(Byte) /\ Len(SubSeq(frame.data, 1, 4)) = 4
          /\ \A i \in 1 .. 4 : SubSeq(frame.data, 1, 4)[i] = frame.data[i]
      BY <2>4, SubSeqProperties
    <2>6. \A i \in 3 .. 6 : data[i] \in Byte /\ data[i] = frame.data[i - 2]
      <3> SUFFICES ASSUME NEW i \in 3 .. 6
                   PROVE  data[i] \in Byte /\ data[i] = frame.data[i - 2]
        OBVIOUS
      <3>1. i - 2 \in 1 .. 4 /\ (i - 2) + 2 = i
        OBVIOUS
      <3> QED BY <2>3, <2>4, <3>1
    <2>7. /\ SubSeq(data, 3, 6) \in Seq(Byte) /\ Len(SubSeq(data, 3, 6)) = 4
          /\ \A i \in 1 .. 4 : SubSeq(data, 3, 6)[i] = data[3 + i - 1]
      BY <2>6, SubSeqProperties
    <2>8. \A i \in 1 .. 4 : SubSeq(data, 3, 6)[i] = SubSeq(frame.data, 1, 4)[i]
      BY <2>3, <2>5, <2>7
    <2>9. SubSeq(data, 3, 6) = SubSeq(frame.data, 1, 4)
      BY <2>5, <2>7, <2>8, SeqEqual
    <2>10. response'.data = data
      BY <2>3
    <2> QED BY <2>2, <2>9, <2>10
  <1> QED BY <1>1, SlaveInvAlways, PTL DEF WriteTakesEffect

(* A master that decodes the reply to an accepted read finds the values    *)
(* the registers have at that moment, for stores of every size, as long as *)
(* no master reads more registers at once than the protocol lets it.       *)
THEOREM ReadCorrect == CrcIsWord => (SlaveSpec /\ []ReadsFit => ReadDecodes)
  <1> SUFFICES ASSUME CrcIsWord PROVE SlaveSpec /\ []ReadsFit => ReadDecodes
    OBVIOUS
  <1>1. SlaveInv /\ ReadsFit => ReadStep
    <2> SUFFICES ASSUME SlaveInv, ReadsFit, NEW filter \in BOOLEAN, Serves(filter, {3, 4})
                 PROVE  /\ ReadFrame(response'.data).data[1] = 2 * Count
                        /\ Len(ReadFrame(response'.data).data) = 1 + 2 * Count
                        /\ \A k \in 0 .. Count - 1 :
                              MakeMSB(ReadFrame(response'.data).data[2 * k + 2],
                                      ReadFrame(response'.data).data[2 * k + 3])
                                  = ReadValues[First + k]
      BY DEF ReadStep, First, Count, ReadValues
    <2>1. /\ FramingInv /\ holding \in [HoldingAddress -> Word]
          /\ inputs \in [InputAddress -> Word]
          /\ frame.function \in {3, 4}
          /\ PacketReceived /\ ValidateMessage(frame) = kAck /\ RunCommand(frame)
      BY AcceptedIsRunOrRefused DEF Serves, SlaveInv, SlaveTypeOK
    <2>2. Count <= 125 /\ Count \in 0 .. 125
      <3>1. Accepted(FALSE)
        BY DEF Serves, Accepted
      <3>2. Count <= 125
        BY <2>1, <3>1 DEF ReadsFit, Count
      <3> QED BY <2>1, <3>2, ReadReply
    <2>3. PICK data : /\ FramedAnswer(data)
                      /\ response' = [length |-> 5 + 2 * Count, data |-> data]
                      /\ Len(data) = 5 + 2 * Count
                      /\ data[3] = 2 * Count
                      /\ \A k \in 0 .. Count - 1 :
                            MakeMSB(data[2 * k + 4], data[2 * k + 5])
                                = ReadValues[First + k]
      BY <2>1, <2>2, ReadReply
    <2>4. PICK n \in Nat : n = 3 + 2 * Count /\ Len(data) = n + 2 /\ n >= 3
      BY <2>2, <2>3
    <2> DEFINE payload == SubSeq(data, 3, n)
    <2>5. ReadFrame(response'.data).data = payload
      <3>1. response'.data = data
        BY <2>3
      <3>2. Len(data) - 2 = n
        BY <2>4
      <3> QED BY <3>1, <3>2 DEF ReadFrame
    <2>6. \A i \in 3 .. n : data[i] \in Byte
      <3>1. data \in Seq(Byte)
        BY <2>3 DEF FramedAnswer
      <3>2. \A i \in 1 .. Len(data) : data[i] \in Byte
        BY <3>1, ByteAt
      <3>3. 3 .. n \subseteq 1 .. Len(data)
        BY <2>4
      <3> QED BY <3>2, <3>3
    <2>7. Len(payload) = n - 3 + 1 /\ \A i \in 1 .. n - 3 + 1 : payload[i] = data[3 + i - 1]
      BY <2>4, <2>6, SubSeqProperties
    <2> HIDE DEF payload
    <2>8. Len(payload) = 1 + 2 * Count /\ payload[1] = 2 * Count
      BY <2>2, <2>3, <2>4, <2>7
    <2>9. ASSUME NEW k \in 0 .. Count - 1
          PROVE  MakeMSB(payload[2 * k + 2], payload[2 * k + 3]) = ReadValues[First + k]
      <3>1. /\ 2 * k + 2 \in 1 .. n - 3 + 1 /\ 2 * k + 3 \in 1 .. n - 3 + 1
            /\ 3 + (2 * k + 2) - 1 = 2 * k + 4 /\ 3 + (2 * k + 3) - 1 = 2 * k + 5
        BY <2>2, <2>4
      <3>2. payload[2 * k + 2] = data[2 * k + 4] /\ payload[2 * k + 3] = data[2 * k + 5]
        BY <2>7, <3>1
      <3> QED BY <2>3, <3>2, Zenon
    <2> QED BY <2>5, <2>8, <2>9
  <1> QED BY <1>1, SlaveInvAlways, PTL DEF ReadDecodes

-----------------------------------------------------------------------------
(* A word a master finds in a byte sequence. *)
LEMMA WordAt ==
  ASSUME NEW s \in Seq(Byte), NEW k \in Nat, k >= 1, 2 * k <= Len(s)
  PROVE  Words(s)[k] = MakeMSB(s[2 * k - 1], s[2 * k])
  <1>1. PICK n \in Nat : n = Len(s)
    BY LenProperties
  <1>2. k \in 1 .. n \div 2
    BY <1>1
  <1> QED BY <1>1, <1>2 DEF Words, MakeMSB

(* The bytes between two positions of a byte sequence. *)
LEMMA Part ==
  ASSUME NEW s \in Seq(Byte), NEW m \in Nat, NEW n \in Nat, 1 <= m, n <= Len(s), m <= n + 1
  PROVE  /\ SubSeq(s, m, n) \in Seq(Byte) /\ Len(SubSeq(s, m, n)) = n - m + 1
         /\ \A i \in 1 .. n - m + 1 : SubSeq(s, m, n)[i] = s[m + i - 1]
  <1>1. PICK l \in Nat : l = Len(s)
    BY LenProperties
  <1>2. \A i \in m .. n : s[i] \in Byte
    <2>1. \A i \in 1 .. Len(s) : s[i] \in Byte
      BY ByteAt
    <2>2. m .. n \subseteq 1 .. l
      BY <1>1
    <2> QED BY <1>1, <2>1, <2>2
  <1>3. m \in Int /\ n \in Int
    OBVIOUS
  <1>4. \A i \in m .. n : s[i] \in Byte
    BY <1>2
  <1> QED BY <1>3, <1>4, SubSeqProperties

(* The request in a complete frame of an implemented function, field by    *)
(* field.                                                                  *)
LEMMA RequestFields ==
  ASSUME FramingInv, PacketReceived, frame.function \in ImplementedFunctions
  PROVE  /\ frame.function = 6 =>
                RequestOf(frame) = [function |-> 6, address |-> First, count |-> 1,
                                    bytes |-> 2, values |-> <<Count>>]
         /\ frame.function = 16 =>
                RequestOf(frame) =
                    [function |-> 16, address |-> First, count |-> Count,
                     bytes |-> frame.data[5],
                     values |-> Words(SubSeq(frame.data, 6, Len(frame.data) - 2))]
         /\ frame.function \in {3, 4} =>
                RequestOf(frame) = [function |-> frame.function, address |-> First,
                                    count |-> Count, bytes |-> 0, values |-> << >>]
         /\ First \in Word /\ Count \in Word
  <1>1. frame.data \in Seq(Byte) /\ Len(frame.data) >= 6 /\ Len(frame.data) \in Nat
    BY CompleteFrame
  <1> DEFINE head == SubSeq(frame.data, 1, 4)
  <1>2. /\ head \in Seq(Byte) /\ Len(head) = 4
        /\ head[1] = frame.data[1] /\ head[2] = frame.data[2]
        /\ head[3] = frame.data[3] /\ head[4] = frame.data[4]
    <2>1. 1 \in Nat /\ 4 \in Nat /\ 1 <= 1 /\ 4 <= Len(frame.data) /\ 1 <= 4 + 1
      BY <1>1
    <2>2. /\ head \in Seq(Byte) /\ Len(head) = 4 - 1 + 1
          /\ \A i \in 1 .. 4 - 1 + 1 : head[i] = frame.data[1 + i - 1]
      BY <1>1, <2>1, Part, ZenonT(40)
    <2> QED BY <2>2
  <1> HIDE DEF head
  <1>3. Words(head)[1] = First
    <2>1. Words(head)[1] = MakeMSB(head[2 * 1 - 1], head[2 * 1])
      BY <1>2, WordAt
    <2>2. 2 * 1 - 1 = 1 /\ 2 * 1 = 2
      OBVIOUS
    <2> QED BY <1>2, <2>1, <2>2, Zenon DEF First, ReadAddressStart
  <1>4. Words(head)[2] = Count
    <2>0. 2 \in Nat /\ 2 >= 1 /\ 2 * 2 <= Len(head)
      BY <1>2
    <2>1. Words(head)[2] = MakeMSB(head[2 * 2 - 1], head[2 * 2])
      BY <1>2, <2>0, WordAt, Zenon
    <2>2. 2 * 2 - 1 = 3 /\ 2 * 2 = 4
      OBVIOUS
    <2> QED BY <1>2, <2>1, <2>2, Zenon DEF Count, ReadRegisterCount
  <1>5. First \in Word /\ Count \in Word
    BY FieldsAreWords DEF First, Count
  <1>6. CASE frame.function = 6
    BY <1>3, <1>4, <1>5, <1>6 DEF RequestOf, head
  <1>7. CASE frame.function = 16
    BY <1>3, <1>4, <1>5, <1>7 DEF RequestOf, head
  <1>8. CASE frame.function \in {3, 4}
    BY <1>3, <1>4, <1>5, <1>8 DEF RequestOf, head
  <1> QED BY <1>6, <1>7, <1>8 DEF ImplementedFunctions

(* Only a step that leaves an array records a fault of processing. *)
LEMMA ProcessKeepsFaults ==
  ASSUME CrcIsWord, SlaveInv, NEW filter \in BOOLEAN, ProcessMessage(filter)
  PROVE  faults' = faults
  <1>1. CASE UNCHANGED <<response, response_valid, faults, holding, flags, unseen>>
    BY <1>1
  <1>2. CASE ValidateMessage(frame) = kAck /\ RunCommand(frame) /\ FitsResponse(frame)
    <2>1. PacketReceived
      BY DEF ProcessMessage
    <2> QED BY <1>2, <2>1, RunCommandTyped
  <1>3. CASE SendErrorResponse(frame, ValidateMessage(frame))
    BY <1>3 DEF SendErrorResponse
  <1> QED BY <1>1, <1>2, <1>3, ProcessCases

(* A fault is never forgotten. *)
LEMMA FaultsStay ==
  ASSUME [SlaveNext]_slaveVars
  PROVE  faults \subseteq faults'
  <1>1. ASSUME NEW pt \in Byte, ReceiveCharacter(pt) PROVE faults \subseteq faults'
    BY <1>1 DEF ReceiveCharacter, ProcessCharacter, AddressByte, FunctionByte, MetaByte,
                DataByte, DoneByte, Store
  <1>2. ASSUME NEW filter \in BOOLEAN, ProcessMessage(filter) \/ ProcessOversized(filter)
        PROVE  faults \subseteq faults'
    BY <1>2 DEF ProcessMessage, ProcessOversized, RunCommand, SendErrorResponse
  <1> QED BY <1>1, <1>2 DEF SlaveNext, Reset, ResetRead, SetAddress, WriteHolding, WriteInput,
                            ClearFlags, slaveVars, ctxVars

(* A request of n bytes after its function byte that is longer than any    *)
(* command but a long write.                                               *)
LEMMA LongRequest ==
  ASSUME SlaveInv, NEW n \in Nat, n = RequestLength(frame), n >= 255
  PROVE  frame.function = 16 /\ frame.data[5] >= 248
  <1>1. frame \in FrameType
    BY DEF SlaveInv, FramingInv, CtxTypeOK
  <1>2. frame.function = 16 /\ frame.data[5] = n - 7
    BY <1>1, RequestLengthBound
  <1> QED BY <1>2

(* While no fault was met, the frame in the receiver and the bytes still   *)
(* expected are one request.                                               *)
LEMMA StoredAndExpected ==
  ASSUME SlaveInv, faults = {}
  PROVE  /\ Len(frame.data) \in Nat /\ RequestLength(frame) \in Nat
         /\ bytes_to_read \in Nat
         /\ state = "kMeta" => Len(frame.data) <= 5
         /\ state \in {"kData", "kDone"} =>
               Len(frame.data) + bytes_to_read = RequestLength(frame)
         /\ state = "kDone" => bytes_to_read = 0
  <1>1. frame \in FrameType /\ frame.data \in Seq(Byte) /\ bytes_to_read \in Nat
    BY DEF SlaveInv, FramingInv, CtxTypeOK, FrameType
  <1>2. Len(frame.data) \in Nat
    BY <1>1, ByteAt
  <1>3. RequestLength(frame) \in Nat
    <2>1. PICK n \in 3 .. 262 : n = RequestLength(frame)
      BY <1>1, RequestLengthBound
    <2> QED BY <2>1
  <1>4. state = "kMeta" => Len(frame.data) <= 5
    <2>1. PICK meta \in 0 .. 5 : meta = CalculateMetaDataBytesRemaining(frame.function)
      BY DEF CalculateMetaDataBytesRemaining
    <2>2. state = "kMeta" => Len(frame.data) < meta \/ Len(frame.data) = 0
      BY <2>1 DEF SlaveInv, FramingInv, CountdownInv
    <2> QED BY <1>2, <2>1, <2>2
  <1>5. /\ state \in {"kData", "kDone"} =>
               Len(frame.data) + bytes_to_read = RequestLength(frame)
        /\ state = "kDone" => bytes_to_read = 0
    BY DEF SlaveInv, FramingInv, CountdownInv
  <1> QED BY <1>1, <1>2, <1>3, <1>4, <1>5

(* No command, however malformed, makes the slave leave the frame array,   *)
(* the array of its CRC check or the response array, except a write of     *)
(* several registers that announces at least 248 data bytes and a read of  *)
(* at least 127 registers.                                                 *)
THEOREM OverrunCorrect == CrcIsWord => (SlaveSpec => OverrunOnlyByLongRequest)
  <1> SUFFICES ASSUME CrcIsWord PROVE SlaveSpec => OverrunOnlyByLongRequest
    OBVIOUS
  <1>1. SlaveInv /\ [SlaveNext]_slaveVars => [OverrunStep]_slaveVars
    <2> DEFINE LongRead == frame.function \in {3, 4} /\ ReadRegisterCount(frame.data) >= 127
    <2> SUFFICES ASSUME SlaveInv, [SlaveNext]_slaveVars, faults = {}, "overrun" \in faults'
                 PROVE  (frame.function = 16 /\ frame.data[5] >= 248) \/ LongRead
      BY DEF OverrunStep
    <2>1. PICK n \in Nat : n = RequestLength(frame)
      BY StoredAndExpected
    <2>2. ASSUME NEW pt \in Byte, ReceiveCharacter(pt) PROVE n >= 255
      <3>1. CASE (MetaByte(pt) \/ DataByte(pt)) /\ Len(frame.data) >= 256
        <4>1. state = "kData"
          BY <3>1, StoredAndExpected DEF MetaByte, DataByte
        <4> QED BY <2>1, <3>1, <4>1, StoredAndExpected
      <3>2. CASE (MetaByte(pt) \/ DataByte(pt)) /\ ~(Len(frame.data) >= 256)
        BY <3>2 DEF MetaByte, DataByte, Store
      <3>3. CASE AddressByte(pt) \/ FunctionByte(pt) \/ DoneByte(pt)
        BY <3>3 DEF AddressByte, FunctionByte, DoneByte
      <3> QED BY <2>2, <3>1, <3>2, <3>3 DEF ReceiveCharacter, ProcessCharacter
    <2>3. ASSUME NEW filter \in BOOLEAN, ProcessMessage(filter) PROVE FALSE
      <3>1. UNCHANGED faults
        BY <2>3, ProcessKeepsFaults
      <3> QED BY <3>1
    <2>4. ASSUME NEW filter \in BOOLEAN, ProcessOversized(filter) PROVE n >= 255 \/ LongRead
      <3>1. state = "kDone" /\ LeavesArray(filter)
        BY <2>4 DEF ProcessOversized, PacketReceived
      <3>2. CASE ~FitsCrcBuffer(frame)
        <4>1. ~(Len(frame.data) + 2 <= 256)
          BY <3>2 DEF FitsCrcBuffer
        <4> QED BY <2>1, <3>1, <4>1, StoredAndExpected
      <3>3. CASE FitsCrcBuffer(frame)
        <4>1. ValidateMessage(frame) = kAck /\ ~FitsResponse(frame)
          BY <3>1, <3>3 DEF LeavesArray
        <4>2. frame.function \in {3, 4} /\ ~(3 + 2 * Count <= 256)
          BY <4>1 DEF FitsResponse, Count
        <4>3. Count \in Nat
          <5>1. Count \in Word
            BY <3>1, <4>2, RequestFields DEF SlaveInv, PacketReceived, ImplementedFunctions
          <5> QED BY <5>1, MaxWordNat DEF Word
        <4>4. Count >= 127
          BY <4>2, <4>3
        <4> QED BY <4>2, <4>4 DEF Count
      <3> QED BY <3>2, <3>3
    <2>5. CASE UNCHANGED faults
      BY <2>5
    <2>6. \/ \E pt \in Byte : ReceiveCharacter(pt)
          \/ \E filter \in BOOLEAN : ProcessMessage(filter) \/ ProcessOversized(filter)
          \/ UNCHANGED faults
      BY DEF SlaveNext, Reset, ResetRead, SetAddress, WriteHolding, WriteInput, ClearFlags,
             slaveVars, ctxVars
    <2> HIDE DEF LongRead
    <2>7. n >= 255 \/ LongRead
      BY <2>2, <2>3, <2>4, <2>5, <2>6
    <2>8. CASE n >= 255
      BY <2>1, <2>8, LongRequest
    <2> QED BY <2>7, <2>8
  <1> QED BY <1>1, SlaveInvAlways, PTL DEF OverrunOnlyByLongRequest, SlaveSpec

-----------------------------------------------------------------------------
(* A complete frame is a request of its function. *)
LEMMA RequestFunction ==
  ASSUME FramingInv, PacketReceived
  PROVE  RequestOf(frame).function = frame.function /\ RequestOf(frame) # Server!NoRequest
  <1>1. RequestOf(frame).function = frame.function
    <2>1. CASE frame.function \in ImplementedFunctions
      BY <2>1, RequestFields DEF ImplementedFunctions
    <2>2. CASE frame.function \notin ImplementedFunctions
      BY <2>2 DEF RequestOf
    <2> QED BY <2>1, <2>2
  <1>2. frame.function # 255
    <2>1. frame.function \in ValidFunctions
      BY DEF FramingInv, CtxTypeOK, FrameType, CountdownInv, PacketReceived
    <2>2. 255 \notin ValidFunctions
      BY DEF ValidFunctions
    <2> QED BY <2>1, <2>2
  <1>3. Server!NoRequest.function = 255
    BY DEF Server!NoRequest, Server!kNone
  <1> QED BY <1>1, <1>2, <1>3

(* The server judges the request as the code judges the frame. *)
LEMMA JudgeExact ==
  ASSUME FramingInv, PacketReceived
  PROVE  Server!Judge(RequestOf(frame)) = Verdict(frame)
  <1> DEFINE r == RequestOf(frame)
  <1> USE DEF Server!Judge, Server!IsRead, Server!IsWrite, Server!Size,
              Server!kReadInputRegisters, Server!kReadMultipleHoldingRegisters,
              Server!kWriteSingleHoldingRegister, Server!kWriteMultipleHoldingRegisters,
              Server!kAck, Server!kIllegalFunction, Server!kIllegalDataAddress,
              Server!kIllegalDataValue, kAck, kIllegalFunction, kIllegalDataAddress,
              kIllegalDataValue
  <1>1. CASE frame.function \notin ImplementedFunctions
    <2>1. r.function = frame.function
      BY RequestFunction
    <2> HIDE DEF r
    <2>2. Server!Judge(r) = 1
      BY <1>1, <2>1 DEF ImplementedFunctions
    <2>3. Verdict(frame) = 1
      BY <1>1 DEF Verdict, ImplementedFunctions
    <2> QED BY <2>2, <2>3 DEF r
  <1>2. CASE frame.function \in ImplementedFunctions
    <2>1. First \in Nat /\ Count \in Nat /\ HoldingCount \in Nat /\ InputCount \in Nat
      <3>1. First \in Word /\ Count \in Word
        BY <1>2, RequestFields
      <3> QED BY <3>1, CountAssumption, MaxWordNat DEF Word
    <2>2. CASE frame.function = 6
      <3>1. /\ r.function = 6 /\ r.address = First /\ r.count = 1 /\ r.bytes = 2
        BY <1>2, <2>2, RequestFields
      <3> HIDE DEF r
      <3>2. Server!Judge(r) = IF First < HoldingCount THEN 5 ELSE 2
        BY <2>1, <3>1
      <3>3. Verdict(frame) = IF First < HoldingCount THEN 5 ELSE 2
        BY <2>2 DEF Verdict, First, ImplementedFunctions
      <3> QED BY <3>2, <3>3 DEF r
    <2>3. CASE frame.function = 16
      <3>1. /\ r.function = 16 /\ r.address = First /\ r.count = Count
            /\ r.bytes = frame.data[5]
        BY <1>2, <2>3, RequestFields
      <3> HIDE DEF r
      <3>2. Server!Judge(r) = IF ~(First < HoldingCount /\ First + Count <= HoldingCount)
                              THEN 2
                              ELSE IF frame.data[5] # 2 * Count THEN 3 ELSE 5
        BY <2>1, <3>1
      <3>3. Verdict(frame) = IF ~(First < HoldingCount /\ First + Count <= HoldingCount)
                              THEN 2
                              ELSE IF frame.data[5] # 2 * Count THEN 3 ELSE 5
        BY <2>3 DEF Verdict, First, Count, ImplementedFunctions, InRange, ReadDataByteCount
      <3> QED BY <3>2, <3>3 DEF r
    <2>4. CASE frame.function \in {3, 4}
      <3> DEFINE size == IF frame.function = 4 THEN InputCount ELSE HoldingCount
      <3>1. /\ r.function = frame.function /\ r.address = First /\ r.count = Count
        BY <1>2, <2>4, RequestFields
      <3> HIDE DEF r
      <3>2. Server!Judge(r) = IF First < size /\ First + Count <= size THEN 5 ELSE 2
        BY <2>1, <2>4, <3>1
      <3>3. Verdict(frame) = IF First < size /\ First + Count <= size THEN 5 ELSE 2
        BY <2>4 DEF Verdict, First, Count, ImplementedFunctions, InRange
      <3> QED BY <3>2, <3>3 DEF r
    <2> QED BY <1>2, <2>2, <2>3, <2>4 DEF ImplementedFunctions
  <1> QED BY <1>1, <1>2

-----------------------------------------------------------------------------
(* What a master finds in 2 n bytes. *)
LEMMA WordsOf ==
  ASSUME NEW s \in Seq(Byte), NEW n \in Nat, Len(s) = 2 * n
  PROVE  Words(s) = [k \in 1 .. n |-> MakeMSB(s[2 * k - 1], s[2 * k])]
  <1>1. Len(s) \div 2 = n
    OBVIOUS
  <1> QED BY <1>1, Zenon DEF Words, MakeMSB

(* The two words a write is acknowledged with. *)
LEMMA TwoWords ==
  ASSUME NEW s \in Seq(Byte), Len(s) = 4, NEW v, NEW w,
         MakeMSB(s[1], s[2]) = v, MakeMSB(s[3], s[4]) = w
  PROVE  Words(s) = <<v, w>>
  <1>1. Words(s) = [k \in 1 .. 2 |-> MakeMSB(s[2 * k - 1], s[2 * k])]
    <2>1. 2 \in Nat /\ Len(s) = 2 * 2
      OBVIOUS
    <2> QED BY <2>1, WordsOf, Zenon
  <1>2. \A k \in 1 .. 2 : MakeMSB(s[2 * k - 1], s[2 * k]) = <<v, w>>[k]
    <2> SUFFICES ASSUME NEW k \in 1 .. 2
                 PROVE  MakeMSB(s[2 * k - 1], s[2 * k]) = <<v, w>>[k]
      OBVIOUS
    <2>1. CASE k = 1
      <3>1. 2 * k - 1 = 1 /\ 2 * k = 2 /\ <<v, w>>[k] = v
        BY <2>1
      <3> QED BY <3>1, Zenon
    <2>2. CASE k = 2
      <3>1. 2 * k - 1 = 3 /\ 2 * k = 4 /\ <<v, w>>[k] = w
        BY <2>2
      <3> QED BY <3>1, Zenon
    <2> QED BY <2>1, <2>2
  <1>3. <<v, w>> = [k \in 1 .. 2 |-> <<v, w>>[k]]
    OBVIOUS
  <1> QED BY <1>1, <1>2, <1>3

(* A master reads the exception in a refusal. *)
LEMMA RefusalRead ==
  ASSUME CrcIsWord, FramingInv, PacketReceived, Verdict(frame) # kAck,
         SendErrorResponse(frame, Verdict(frame))
  PROVE  ReplyOf(response'.data) = Server!Refusal(RequestOf(frame))
  <1>1. PICK e \in Byte : e = Verdict(frame)
    BY DEF Verdict, kAck, kIllegalFunction, kIllegalDataAddress, kIllegalDataValue
  <1>2. PICK data \in Seq(Byte) :
           /\ response' = [length |-> 5, data |-> data]
           /\ Len(data) = 5
           /\ data[2] = frame.function + kStatusResponseAddValue
           /\ data[3] = e
    BY <1>1, RefusalReply, ZenonT(40)
  <1>3. PICK function \in Nat : function = frame.function
    BY DEF FramingInv, CtxTypeOK, FrameType
  <1>4. SubSeq(data, 3, Len(data) - kFooterLength)[1] = e
    <2>1. Len(data) - kFooterLength = 3
      BY <1>2
    <2>2. 3 \in Nat /\ 1 <= 3 /\ 3 <= Len(data) /\ 3 <= 3 + 1
      BY <1>2
    <2>3. \A i \in 1 .. 3 - 3 + 1 : SubSeq(data, 3, 3)[i] = data[3 + i - 1]
      BY <1>2, <2>2, Part, Zenon
    <2>4. 1 \in 1 .. 3 - 3 + 1 /\ 3 + 1 - 1 = 3
      OBVIOUS
    <2> QED BY <1>2, <2>1, <2>3, <2>4
  <1>5. data[2] >= kStatusResponseAddValue /\ data[2] - kStatusResponseAddValue = function
    BY <1>2, <1>3 DEF kStatusResponseAddValue
  <1>6. ReplyOf(data) = [function |-> function, exception |-> e, words |-> << >>]
    BY <1>4, <1>5 DEF ReplyOf
  <1>7. Server!Refusal(RequestOf(frame))
           = [function |-> function, exception |-> e, words |-> << >>]
    BY <1>1, <1>3, JudgeExact, RequestFunction DEF Server!Refusal
  <1>8. response'.data = data
    BY <1>2
  <1> QED BY <1>6, <1>7, <1>8

(* A master reads in the acknowledgement what was written ... *)
LEMMA WriteRead ==
  ASSUME CrcIsWord, FramingInv, PacketReceived, RunCommand(frame),
         frame.function \in {6, 16}
  PROVE  ReplyOf(response'.data) = Server!Answer(RequestOf(frame))
  <1>1. PICK data : /\ FramedAnswer(data)
                    /\ response' = [length |-> 8, data |-> data]
                    /\ Len(data) = 8
                    /\ \A i \in 1 .. 4 : data[i + 2] = frame.data[i]
    BY WriteReply
  <1>2. data \in Seq(Byte) /\ data[2] = frame.function
    BY <1>1 DEF FramedAnswer
  <1>3. /\ data[3] = frame.data[1] /\ data[4] = frame.data[2]
        /\ data[5] = frame.data[3] /\ data[6] = frame.data[4]
    BY <1>1
  <1> DEFINE body == SubSeq(data, 3, Len(data) - kFooterLength)
  <1>4. /\ body \in Seq(Byte) /\ Len(body) = 4
        /\ body[1] = data[3] /\ body[2] = data[4] /\ body[3] = data[5] /\ body[4] = data[6]
    <2>1. Len(data) - kFooterLength = 6
      BY <1>1
    <2>2. 3 \in Nat /\ 6 \in Nat /\ 1 <= 3 /\ 6 <= Len(data) /\ 3 <= 6 + 1
      BY <1>1
    <2>3. /\ SubSeq(data, 3, 6) \in Seq(Byte) /\ Len(SubSeq(data, 3, 6)) = 6 - 3 + 1
          /\ \A i \in 1 .. 6 - 3 + 1 : SubSeq(data, 3, 6)[i] = data[3 + i - 1]
      BY <1>2, <2>2, Part, ZenonT(40)
    <2> HIDE DEF body
    <2>4. body = SubSeq(data, 3, 6)
      BY <2>1 DEF body
    <2> QED BY <2>3, <2>4
  <1> HIDE DEF body
  <1>5. MakeMSB(body[1], body[2]) = First /\ MakeMSB(body[3], body[4]) = Count
    BY <1>3, <1>4, Zenon DEF First, Count, ReadAddressStart, ReadRegisterCount
  <1>6. Words(body) = <<First, Count>>
    BY <1>4, <1>5, TwoWords
  <1>7. ReplyOf(data) = [function |-> frame.function, exception |-> 5,
                         words |-> <<First, Count>>]
    <2>1. /\ ~(data[2] >= kStatusResponseAddValue)
          /\ data[2] \notin {kReadMultipleHoldingRegisters, kReadInputRegisters}
      BY <1>2 DEF kStatusResponseAddValue
    <2> QED BY <1>2, <1>6, <2>1, Zenon DEF ReplyOf, body, kAck
  <1>8. frame.function \in ImplementedFunctions
    BY DEF ImplementedFunctions
  <1>9. Server!Answer(RequestOf(frame))
           = [function |-> frame.function, exception |-> 5, words |-> <<First, Count>>]
    <2> DEFINE r == RequestOf(frame)
    <2>1. r.function = frame.function /\ r.address = First
      BY <1>8, RequestFields DEF ImplementedFunctions
    <2>2. frame.function = 6 => r.values[1] = Count
      BY <1>8, RequestFields
    <2>3. frame.function = 16 => r.count = Count
      BY <1>8, RequestFields
    <2> HIDE DEF r
    <2>4. Server!Answer(r)
             = [function |-> frame.function, exception |-> 5, words |-> <<First, Count>>]
      BY <2>1, <2>2, <2>3 DEF Server!Answer, Server!IsRead, Server!kAck,
         Server!kReadInputRegisters, Server!kReadMultipleHoldingRegisters,
         Server!kWriteSingleHoldingRegister
    <2> QED BY <2>4 DEF r
  <1>10. response'.data = data
    BY <1>1
  <1> QED BY <1>7, <1>9, <1>10

(* ... and in the reply to a read the registers as they are. *)
LEMMA ReadRead ==
  ASSUME CrcIsWord, Count <= 125,
         FramingInv, PacketReceived, ValidateMessage(frame) = kAck, RunCommand(frame),
         frame.function \in {3, 4},
         holding \in [HoldingAddress -> Word], inputs \in [InputAddress -> Word]
  PROVE  ReplyOf(response'.data) = Server!Answer(RequestOf(frame))
  <1>1. Count \in Nat
    <2>1. Count \in 0 .. 125
      BY ReadReply
    <2> QED BY <2>1
  <1>2. PICK data : /\ FramedAnswer(data)
                    /\ response' = [length |-> 5 + 2 * Count, data |-> data]
                    /\ Len(data) = 5 + 2 * Count
                    /\ \A k \in 0 .. Count - 1 :
                          MakeMSB(data[2 * k + 4], data[2 * k + 5]) = ReadValues[First + k]
    BY ReadReply
  <1>3. data \in Seq(Byte) /\ data[2] = frame.function
    BY <1>2 DEF FramedAnswer
  <1>4. PICK n \in Nat : n = 3 + 2 * Count
    BY <1>1
  <1> DEFINE body == SubSeq(data, 3, Len(data) - kFooterLength)
  <1>5. /\ body \in Seq(Byte) /\ Len(body) = 1 + 2 * Count
        /\ \A i \in 1 .. 1 + 2 * Count : body[i] = data[i + 2]
    <2>1. Len(data) - kFooterLength = n
      BY <1>1, <1>2, <1>4
    <2>2. 3 \in Nat /\ 1 <= 3 /\ n <= Len(data) /\ 3 <= n + 1
      BY <1>1, <1>2, <1>4
    <2>3. /\ SubSeq(data, 3, n) \in Seq(Byte) /\ Len(SubSeq(data, 3, n)) = n - 3 + 1
          /\ \A i \in 1 .. n - 3 + 1 : SubSeq(data, 3, n)[i] = data[3 + i - 1]
      BY <1>3, <1>4, <2>2, Part, ZenonT(40)
    <2>4. body = SubSeq(data, 3, n)
      BY <2>1
    <2> HIDE DEF body
    <2>5. n - 3 + 1 = 1 + 2 * Count /\ \A i \in 1 .. 1 + 2 * Count : 3 + i - 1 = i + 2
      BY <1>1, <1>4
    <2> QED BY <2>3, <2>4, <2>5
  <1> HIDE DEF body
  <1> DEFINE values == Tail(body)
  <1>6. /\ values \in Seq(Byte) /\ Len(values) = 2 * Count
        /\ \A i \in 1 .. 2 * Count : values[i] = body[i + 1]
    <2>1. body # << >>
      BY <1>1, <1>5
    <2>2. /\ values \in Seq(Byte) /\ Len(values) = Len(body) - 1
          /\ \A i \in 1 .. Len(values) : values[i] = body[i + 1]
      BY <1>5, <2>1, HeadTailProperties
    <2>3. Len(body) - 1 = 2 * Count
      BY <1>1, <1>5
    <2> QED BY <2>2, <2>3
  <1> HIDE DEF values
  <1>7. ASSUME NEW k \in 1 .. Count
        PROVE  MakeMSB(values[2 * k - 1], values[2 * k]) = ReadValues[First + k - 1]
    <2>1. PICK j \in 0 .. Count - 1 : j = k - 1
      BY <1>1
    <2>2. /\ 2 * k - 1 \in 1 .. 2 * Count /\ 2 * k \in 1 .. 2 * Count
          /\ (2 * k - 1) + 1 \in 1 .. 1 + 2 * Count /\ 2 * k + 1 \in 1 .. 1 + 2 * Count
          /\ ((2 * k - 1) + 1) + 2 = 2 * j + 4 /\ (2 * k + 1) + 2 = 2 * j + 5
      BY <1>1, <2>1
    <2>3. values[2 * k - 1] = data[2 * j + 4] /\ values[2 * k] = data[2 * j + 5]
      BY <1>5, <1>6, <2>2
    <2>4. MakeMSB(data[2 * j + 4], data[2 * j + 5]) = ReadValues[First + j]
      BY <1>2
    <2>5. First + j = First + k - 1
      <3>1. First \in Word
        BY RequestFields DEF ImplementedFunctions
      <3> QED BY <2>1, <3>1 DEF Word
    <2> QED BY <2>3, <2>4, <2>5, Zenon
  <1>8. Words(values) = [k \in 1 .. Count |-> ReadValues[First + k - 1]]
    <2>1. Words(values) = [k \in 1 .. Count |-> MakeMSB(values[2 * k - 1], values[2 * k])]
      BY <1>1, <1>6, WordsOf
    <2> QED BY <1>7, <2>1, Zenon
  <1>9. ReplyOf(data) = [function |-> frame.function, exception |-> 5,
                         words |-> [k \in 1 .. Count |-> ReadValues[First + k - 1]]]
    <2>1. /\ ~(data[2] >= kStatusResponseAddValue)
          /\ data[2] \in {kReadMultipleHoldingRegisters, kReadInputRegisters}
      BY <1>3 DEF kStatusResponseAddValue
    <2> QED BY <1>3, <1>8, <2>1, Zenon DEF ReplyOf, body, values, kAck
  <1>10. Server!Answer(RequestOf(frame))
           = [function |-> frame.function, exception |-> 5,
              words |-> [k \in 1 .. Count |-> ReadValues[First + k - 1]]]
    <2> DEFINE r == RequestOf(frame)
    <2>1. r.function = frame.function /\ r.address = First /\ r.count = Count
      BY RequestFields DEF ImplementedFunctions
    <2> HIDE DEF r
    <2>2. Server!IsRead(r)
      BY <2>1 DEF Server!IsRead, Server!kReadInputRegisters,
                  Server!kReadMultipleHoldingRegisters
    <2>3. Server!Registers(r) = ReadValues
      BY <2>1 DEF Server!Registers, Server!kReadInputRegisters, ReadValues
    <2>4. Server!Answer(r)
            = [function |-> frame.function, exception |-> 5,
               words |-> [k \in 1 .. Count |-> ReadValues[First + k - 1]]]
      BY <2>1, <2>2, <2>3, Zenon DEF Server!Answer, Server!kAck
    <2> QED BY <2>4 DEF r
  <1>11. response'.data = data
    BY <1>2
  <1> QED BY <1>9, <1>10, <1>11

(* The registers after a write are the ones the server writes. *)
LEMMA WriteWritten ==
  ASSUME FramingInv, PacketReceived, ValidateMessage(frame) = kAck, RunCommand(frame),
         frame.function \in {6, 16}, holding \in [HoldingAddress -> Word]
  PROVE  holding' = Server!Written(RequestOf(frame))
  <1> DEFINE r == RequestOf(frame)
  <1>1. frame.function \in ImplementedFunctions
    BY DEF ImplementedFunctions
  <1>2. First \in Nat /\ Count \in Nat
    <2>1. First \in Word /\ Count \in Word
      BY <1>1, RequestFields
    <2> QED BY <2>1, MaxWordNat DEF Word
  <1>3. holding' = [a \in HoldingAddress |->
                       IF a \in WrittenBy(frame) THEN ValueFor(frame, a) ELSE holding[a]]
    BY WriteStores
  <1>4. Server!Written(r)
          = [a \in HoldingAddress |->
                IF a \in r.address .. r.address + r.count - 1
                THEN r.values[a - r.address + 1] ELSE holding[a]]
    <2>1. DOMAIN holding = HoldingAddress
      OBVIOUS
    <2> QED BY <2>1, Zenon DEF Server!Written
  <1>5. CASE frame.function = 6
    <2>1. r.address = First /\ r.count = 1 /\ r.values = <<Count>>
      BY <1>1, <1>5, RequestFields
    <2> HIDE DEF r
    <2>2. r.address .. r.address + r.count - 1 = {First}
      BY <1>2, <2>1
    <2>3. WrittenBy(frame) = {First}
      BY <1>5, WrittenCases DEF First
    <2>4. \A a : ValueFor(frame, a) = Count
      BY <1>5 DEF ValueFor, Count, ReadRegisterCount, MakeMSB
    <2>5. r.values[First - r.address + 1] = Count
      <3>1. First - r.address + 1 = 1
        BY <1>2, <2>1
      <3> QED BY <2>1, <3>1
    <2> QED BY <1>3, <1>4, <2>2, <2>3, <2>4, <2>5 DEF r
  <1>6. CASE frame.function = 16
    <2> DEFINE carried == SubSeq(frame.data, 6, Len(frame.data) - 2)
    <2>1. r.address = First /\ r.count = Count /\ r.values = Words(carried)
      BY <1>1, <1>6, RequestFields
    <2>2. WrittenBy(frame) = First .. First + Count - 1
      BY <1>6, WrittenCases DEF First, Count
    <2>3. frame.data[5] = 2 * Count
      <3>1. Verdict(frame) = kAck
        BY VerdictExact
      <3>2. Verdict(frame) = IF ~InRange(HoldingCount, First, Count)
                             THEN kIllegalDataAddress
                             ELSE IF frame.data[5] # 2 * Count
                             THEN kIllegalDataValue ELSE kAck
        BY <1>1, <1>6 DEF Verdict, First, Count, ReadDataByteCount
      <3> QED BY <3>1, <3>2 DEF kAck, kIllegalDataAddress, kIllegalDataValue
    <2>4. PICK n \in Nat : /\ n = Len(frame.data) - 2
                           /\ n >= 5 + 2 * Count /\ n <= Len(frame.data)
      <3>1. Len(frame.data) \in Nat /\ Len(frame.data) >= 7 + frame.data[5]
        BY <1>1, <1>6, CompleteFrame
      <3>2. PICK l \in Nat : l = Len(frame.data)
        BY <3>1
      <3>3. l >= 7 + 2 * Count
        BY <2>3, <3>1, <3>2
      <3>4. l - 2 \in Nat /\ l - 2 >= 5 + 2 * Count /\ l - 2 <= l
        BY <1>2, <3>3
      <3> QED BY <3>2, <3>4
    <2>5. /\ carried \in Seq(Byte) /\ Len(carried) = n - 6 + 1
          /\ \A i \in 1 .. n - 6 + 1 : carried[i] = frame.data[6 + i - 1]
      <3>1. frame.data \in Seq(Byte)
        BY <1>1, CompleteFrame
      <3>2. 6 \in Nat /\ 1 <= 6 /\ 6 <= n + 1
        BY <1>2, <2>4
      <3>3. carried = SubSeq(frame.data, 6, n)
        BY <2>4
      <3> HIDE DEF carried
      <3>4. n \in Nat /\ n <= Len(frame.data)
        BY <2>4
      <3>5. /\ SubSeq(frame.data, 6, n) \in Seq(Byte)
            /\ Len(SubSeq(frame.data, 6, n)) = n - 6 + 1
            /\ \A i \in 1 .. n - 6 + 1 : SubSeq(frame.data, 6, n)[i] = frame.data[6 + i - 1]
        <4>1. PICK d \in Seq(Byte) : d = frame.data
          BY <3>1
        <4>2. n <= Len(d)
          BY <3>4, <4>1
        <4>3. /\ SubSeq(d, 6, n) \in Seq(Byte) /\ Len(SubSeq(d, 6, n)) = n - 6 + 1
              /\ \A i \in 1 .. n - 6 + 1 : SubSeq(d, 6, n)[i] = d[6 + i - 1]
          BY <3>2, <3>4, <4>2, Part, ZenonT(40)
        <4> QED BY <4>1, <4>3, Zenon
      <3> QED BY <3>3, <3>5, Zenon
    <2> HIDE DEF carried
    <2>6. ASSUME NEW a \in First .. First + Count - 1
          PROVE  Words(carried)[a - First + 1] = ValueFor(frame, a)
      <3>1. PICK k \in Nat : k = a - First + 1 /\ k >= 1 /\ k <= Count
        BY <1>2
      <3>2. /\ 2 * k - 1 \in 1 .. n - 6 + 1 /\ 2 * k \in 1 .. n - 6 + 1
            /\ 6 + (2 * k - 1) - 1 = 6 + 2 * (a - First)
            /\ 6 + 2 * k - 1 = 6 + 2 * (a - First) + 1
            /\ 2 * k <= Len(carried)
        BY <1>2, <2>4, <2>5, <3>1
      <3>3. Words(carried)[k] = MakeMSB(carried[2 * k - 1], carried[2 * k])
        BY <2>5, <3>1, <3>2, WordAt
      <3>4. /\ carried[2 * k - 1] = frame.data[6 + 2 * (a - First)]
            /\ carried[2 * k] = frame.data[6 + 2 * (a - First) + 1]
        BY <2>5, <3>2
      <3>5. ValueFor(frame, a)
               = MakeMSB(frame.data[6 + 2 * (a - First)], frame.data[6 + 2 * (a - First) + 1])
        BY <1>6 DEF ValueFor, First, MakeMSB
      <3> QED BY <3>1, <3>3, <3>4, <3>5, Zenon
    <2>7. Server!Written(r) = [a \in HoldingAddress |->
             IF a \in First .. First + Count - 1
             THEN Words(carried)[a - First + 1] ELSE holding[a]]
      BY <1>4, <2>1, Zenon
    <2> HIDE DEF r
    <2> QED BY <1>3, <2>2, <2>6, <2>7, Zenon DEF r
  <1> QED BY <1>5, <1>6

-----------------------------------------------------------------------------
(* A read leaves the registers as they are. *)
LEMMA ReadLeavesStore ==
  ASSUME RunCommand(frame), frame.function \in {3, 4}
  PROVE  holding' = holding
  <1>1. CASE frame.function = 3
    BY <1>1, AddressSpaces DEF RunCommand, HoldingReadFrame
  <1>2. CASE frame.function = 4
    BY <1>2, AddressSpaces DEF RunCommand
  <1> QED BY <1>1, <1>2

(* Processing a good request for this slave is one step of the server. *)
LEMMA ServedAtOnce ==
  ASSUME CrcIsWord, ReadsFit, SlaveInv, NEW filter \in BOOLEAN,
         ProcessMessage(filter), Accepted(filter)
  PROVE  Server!Serve
  <1>1. /\ FramingInv /\ PacketReceived
        /\ holding \in [HoldingAddress -> Word] /\ inputs \in [InputAddress -> Word]
    BY DEF SlaveInv, SlaveTypeOK, ProcessMessage
  <1>2. /\ Verdict(frame) = kAck =>
              ValidateMessage(frame) = kAck /\ RunCommand(frame) /\ FitsResponse(frame)
        /\ Verdict(frame) # kAck => SendErrorResponse(frame, Verdict(frame))
    BY AcceptedIsRunOrRefused
  <1>3. /\ frame' = frame /\ state' = state /\ bytes_to_read' = bytes_to_read
        /\ inputs' = inputs /\ (faults # {})' = (faults # {})
    <2>1. faults' = faults
      BY ProcessKeepsFaults
    <2> QED BY <2>1 DEF ProcessMessage
  <1>4. RequestAtHand = RequestOf(frame) /\ RequestAtHand' = RequestOf(frame)
    <2>1. PacketReceived /\ FitsCrcBuffer(frame) /\ FrameCrcIsValid(frame)
      BY DEF Accepted, FrameCrcIsValid
    <2>2. PacketReceived' /\ FitsCrcBuffer(frame)' /\ FrameCrcIsValid(frame)'
            /\ RequestOf(frame)' = RequestOf(frame)
      BY <1>3, <2>1 DEF PacketReceived
    <2> QED BY <2>1, <2>2, Zenon DEF RequestAtHand
  <1>5. RequestAtHand # Server!NoRequest /\ RequestAtHand.function = frame.function
    BY <1>1, <1>4, RequestFunction
  <1>6. Server!Judge(RequestAtHand) = Verdict(frame)
    BY <1>1, <1>4, JudgeExact
  <1>7. response_valid' = TRUE
    <2>1. CASE Verdict(frame) = kAck
      BY <1>1, <1>2, <2>1, RunCommandTyped
    <2>2. CASE Verdict(frame) # kAck
      BY <1>2, <2>2 DEF SendErrorResponse
    <2> QED BY <2>1, <2>2
  <1>8. ReplyReady' = ReplyOf(response'.data)
    BY <1>7 DEF ReplyReady
  <1>9. CASE Verdict(frame) # kAck
    <2>1. ReplyReady' = Server!Refusal(RequestAtHand)
      BY <1>1, <1>2, <1>4, <1>8, <1>9, RefusalRead
    <2>2. holding' = holding
      BY <1>2, <1>9 DEF SendErrorResponse
    <2> QED BY <1>3, <1>4, <1>5, <1>6, <1>9, <2>1, <2>2
            DEF Server!Serve, Server!kAck, kAck
  <1>10. CASE Verdict(frame) = kAck
    <2>1. frame.function \in ImplementedFunctions
      <3>1. frame.function \notin ImplementedFunctions => Verdict(frame) = 1
        BY DEF Verdict, ImplementedFunctions, kIllegalFunction
      <3> QED BY <1>10, <3>1 DEF kAck
    <2>2. CASE frame.function \in {6, 16}
      <3>1. ReplyReady' = Server!Answer(RequestAtHand)
        BY <1>1, <1>2, <1>4, <1>8, <1>10, <2>2, WriteRead
      <3>2. holding' = Server!Written(RequestAtHand)
        BY <1>1, <1>2, <1>4, <1>10, <2>2, WriteWritten
      <3>3. Server!IsWrite(RequestAtHand)
        BY <1>5, <2>2 DEF Server!IsWrite, Server!kWriteSingleHoldingRegister,
                          Server!kWriteMultipleHoldingRegisters
      <3> QED BY <1>3, <1>4, <1>5, <1>6, <1>10, <3>1, <3>2, <3>3
              DEF Server!Serve, Server!kAck, kAck
    <2>3. CASE frame.function \in {3, 4}
      <3>1. ReplyReady' = Server!Answer(RequestAtHand)
        <4>1. Accepted(FALSE)
          BY DEF Accepted
        <4>2. Count <= 125
          BY <1>2, <1>10, <2>3, <4>1 DEF ReadsFit, Count
        <4> QED BY <1>1, <1>2, <1>4, <1>8, <1>10, <2>3, <4>2, ReadRead
      <3>2. holding' = holding
        BY <1>2, <1>10, <2>3, ReadLeavesStore
      <3>3. ~Server!IsWrite(RequestAtHand)
        BY <1>5, <2>3 DEF Server!IsWrite, Server!kWriteSingleHoldingRegister,
                          Server!kWriteMultipleHoldingRegisters
      <3> QED BY <1>3, <1>4, <1>5, <1>6, <1>10, <3>1, <3>2, <3>3
              DEF Server!Serve, Server!kAck, kAck
    <2> QED BY <2>1, <2>2, <2>3 DEF ImplementedFunctions
  <1> QED BY <1>9, <1>10

(* A byte is either nothing to the server or completes a request. *)
LEMMA CharacterArrives ==
  ASSUME faults = {}, faults' = {}, NEW pt \in Byte, ReceiveCharacter(pt)
  PROVE  Server!Arrive \/ UNCHANGED Server!serverVars
  <1>1. ~PacketReceived
    <2>1. state = "kDone" => DoneByte(pt)
      BY DEF ReceiveCharacter, ProcessCharacter, AddressByte, FunctionByte, MetaByte, DataByte
    <2>2. ~DoneByte(pt)
      BY DEF DoneByte
    <2> QED BY <2>1, <2>2 DEF PacketReceived
  <1>2. RequestAtHand = Server!NoRequest
    BY <1>1 DEF RequestAtHand, Server!NoRequest, kNone, Server!kNone
  <1>3. /\ holding' = holding /\ inputs' = inputs /\ response' = response
        /\ response_valid' = response_valid /\ (faults # {})' = (faults # {})
    BY DEF ReceiveCharacter, storeVars
  <1>4. ReplyReady' = ReplyReady
    BY <1>3 DEF ReplyReady
  <1>5. CASE RequestAtHand' = Server!NoRequest
    <2>1. RequestAtHand' = RequestAtHand
      BY <1>2, <1>5
    <2> QED BY <1>3, <1>4, <2>1 DEF Server!serverVars
  <1>6. CASE RequestAtHand' # Server!NoRequest
    BY <1>2, <1>3, <1>4, <1>6 DEF Server!Arrive, Server!NoRequest, Server!kNone
  <1> QED BY <1>5, <1>6

(* A step that changes neither the frame, the reply nor the registers is   *)
(* none of the server's.                                                   *)
LEMMA ServerStutters ==
  ASSUME UNCHANGED <<state, frame, bytes_to_read, response, response_valid>>
  PROVE  UNCHANGED RequestAtHand /\ UNCHANGED ReplyReady
  <1>1. /\ state' = state /\ frame' = frame /\ bytes_to_read' = bytes_to_read
        /\ response' = response /\ response_valid' = response_valid
    OBVIOUS
  <1>2. UNCHANGED ReplyReady
    BY <1>1 DEF ReplyReady
  <1>3. PacketReceived' = PacketReceived
    BY <1>1 DEF PacketReceived
  <1>4. UNCHANGED RequestAtHand
    BY <1>1, <1>3 DEF RequestAtHand
  <1> QED BY <1>2, <1>4

(* The slave implements the register server up to its first fault, for     *)
(* stores of every size and whatever bytes, commands, resets and           *)
(* application calls come in whatever order, as long as no master reads    *)
(* more registers at once than the protocol lets it.                       *)
THEOREM ServesCorrect ==
  CrcIsWord => (SlaveSpec /\ []ReadsFit => ServesRegisters)
  <1> SUFFICES ASSUME CrcIsWord
               PROVE  SlaveSpec /\ []ReadsFit => ServesRegisters
    OBVIOUS
  <1>1. SlaveInit => Server!ServerInit
    <2> SUFFICES ASSUME SlaveInit PROVE Server!ServerInit
      OBVIOUS
    <2>1. ~PacketReceived /\ ~response_valid
      BY DEF SlaveInit, CtxInit, PacketReceived
    <2>2. RequestAtHand = Server!NoRequest /\ ReplyReady = Server!NoReply
      BY <2>1 DEF RequestAtHand, ReplyReady, Server!NoRequest, Server!NoReply, kNone,
                  Server!kNone
    <2>3. (faults # {}) = FALSE
      BY DEF SlaveInit, CtxInit
    <2> QED BY <2>2, <2>3 DEF SlaveInit, Server!ServerInit, HoldingAddress, InputAddress
  <1>2. SlaveInv /\ ReadsFit /\ [SlaveNext]_slaveVars
          => [Server!ServerNext]_(Server!serverVars)
    <2> SUFFICES ASSUME SlaveInv, ReadsFit, [SlaveNext]_slaveVars
                 PROVE  Server!ServerNext \/ UNCHANGED Server!serverVars
      OBVIOUS
    <2>9. CASE faults' # {}
      <3>1. (faults # {})' = TRUE
        BY <2>9
      <3> QED BY <3>1 DEF Server!ServerNext, Server!Break
    <2> SUFFICES ASSUME faults' = {}
                 PROVE  Server!ServerNext \/ UNCHANGED Server!serverVars
      BY <2>9
    <2>10. faults = {} /\ (faults # {})' = (faults # {})
      BY FaultsStay
    <2>1. ASSUME NEW pt \in Byte, ReceiveCharacter(pt)
          PROVE  Server!ServerNext \/ UNCHANGED Server!serverVars
      BY <2>10, <2>1, CharacterArrives DEF Server!ServerNext
    <2>2. ASSUME NEW filter \in BOOLEAN, ProcessMessage(filter)
          PROVE  Server!ServerNext \/ UNCHANGED Server!serverVars
      <3>1. CASE Accepted(filter)
        BY <2>2, <3>1, ServedAtOnce DEF Server!ServerNext
      <3>2. CASE ~Accepted(filter)
        <4>1. UNCHANGED <<state, frame, bytes_to_read, response, response_valid,
                          holding, inputs>>
          BY <2>2, <3>2, AcceptedNotIgnored DEF ProcessMessage
        <4> QED BY <2>10, <4>1, ServerStutters DEF Server!serverVars
      <3> QED BY <3>1, <3>2
    <2>3. ASSUME NEW filter \in BOOLEAN, ProcessOversized(filter)
          PROVE  FALSE
      BY <2>3 DEF ProcessOversized
    <2>4. CASE Reset
      <3>1. state' = "kAddress" /\ response_valid' = FALSE
              /\ holding' = holding /\ inputs' = inputs
        BY <2>4 DEF Reset, ResetRead, storeVars
      <3>2. ~PacketReceived'
        BY <3>1 DEF PacketReceived
      <3>3. RequestAtHand' = Server!NoRequest /\ ReplyReady' = Server!NoReply
        BY <3>1, <3>2 DEF RequestAtHand, ReplyReady, Server!NoRequest, Server!NoReply,
                          kNone, Server!kNone
      <3> QED BY <2>10, <3>1, <3>3 DEF Server!ServerNext, Server!Leave, Server!NoRequest,
                                Server!NoReply, Server!kNone
    <2>5. CASE ClearFlags \/ (\E address \in Byte : SetAddress(address))
      BY <2>10, <2>5, ServerStutters DEF ClearFlags, SetAddress, ctxVars, storeVars,
                                  Server!serverVars
    <2>6. ASSUME NEW address \in HoldingAddress, NEW value \in Word,
                 WriteHolding(address, value)
          PROVE  Server!SetHolding
      <3>1. UNCHANGED <<inputs, RequestAtHand, ReplyReady>>
        BY <2>6, ServerStutters DEF WriteHolding, ctxVars
      <3>2. holding \in [HoldingAddress -> Word] /\ DOMAIN holding = HoldingAddress
        BY DEF SlaveInv, SlaveTypeOK
      <3>3. holding' = [holding EXCEPT ![address] = value]
        BY <2>6 DEF WriteHolding, SetRegister
      <3>4. holding' = [holding EXCEPT ![address] = holding'[address]]
        BY <3>2, <3>3
      <3> QED BY <2>10, <3>1, <3>2, <3>4, Zenon DEF Server!SetHolding
    <2>7. ASSUME NEW address \in InputAddress, NEW value \in Word,
                 WriteInput(address, value)
          PROVE  Server!SetInput
      <3>1. UNCHANGED <<holding, RequestAtHand, ReplyReady>>
        BY <2>7, ServerStutters DEF WriteInput, ctxVars
      <3>2. inputs \in [InputAddress -> Word] /\ DOMAIN inputs = InputAddress
        BY DEF SlaveInv, SlaveTypeOK
      <3>3. inputs' = [inputs EXCEPT ![address] = value]
        BY <2>7 DEF WriteInput, SetRegister
      <3>4. inputs' = [inputs EXCEPT ![address] = inputs'[address]]
        BY <3>2, <3>3
      <3> QED BY <2>10, <3>1, <3>2, <3>4, Zenon DEF Server!SetInput
    <2>8. CASE UNCHANGED slaveVars
      BY <2>10, <2>8, ServerStutters DEF slaveVars, ctxVars, storeVars, Server!serverVars
    <2> QED BY <2>1, <2>2, <2>3, <2>4, <2>5, <2>6, <2>7, <2>8
            DEF SlaveNext, Server!ServerNext
  <1>3. SlaveSpec => []SlaveInv
    BY SlaveInvAlways
  <1> QED BY <1>1, <1>2, <1>3, PTL DEF SlaveSpec, ServesRegisters, Server!ServerSpec
=============================================================================
