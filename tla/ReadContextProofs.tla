-------------------------- MODULE ReadContextProofs --------------------------
(***************************************************************************)
(* The receiver's properties for every sequence of bytes and resets.  The  *)
(* inductive invariant is the type invariant with CountdownInv: a frame's  *)
(* end is decided by the countdown alone, so FrameBoundary needs to know   *)
(* what the countdown was in the states before.                            *)
(***************************************************************************)
EXTENDS ReadContext, SequenceTheorems, TLAPS

FramingInv == CtxTypeOK /\ CountdownInv

USE DEF Byte, kNone, kHeaderLength, kFooterLength, kMaxFrameLength,
        kReadMultipleHoldingRegisters, kReadInputRegisters,
        kWriteSingleHoldingRegister, kWriteMultipleHoldingRegisters

(* Initially nothing is stored and three bytes are expected. *)
LEMMA FramingInit == CtxInit => FramingInv
  BY DEF CtxInit, FramingInv, CtxTypeOK, CountdownInv, PacketState, FaultKind,
         EmptyFrame, FrameType

(* Every position of a byte sequence holds a byte. *)
LEMMA ByteAt ==
  ASSUME NEW s \in Seq(Byte)
  PROVE  Len(s) \in Nat /\ \A i \in 1 .. Len(s) : s[i] \in Byte
  BY ElementOfSeq, LenProperties

(* Storing a byte extends the data by that byte and keeps the rest. *)
LEMMA StoreAppends ==
  ASSUME CtxTypeOK, NEW pt \in Byte, Store(pt)
  PROVE  /\ frame' \in FrameType
         /\ frame'.data \in Seq(Byte)
         /\ frame'.address = frame.address
         /\ frame'.function = frame.function
         /\ Len(frame'.data) = Len(frame.data) + 1
         /\ \A i \in 1 .. Len(frame.data) : frame'.data[i] = frame.data[i]
         /\ frame'.data[Len(frame.data) + 1] = pt
         /\ faults' \in SUBSET FaultKind
         /\ ("assert" \in faults') = ("assert" \in faults)
  <1>1. frame' = [frame EXCEPT !.data = Append(frame.data, pt)]
    BY DEF Store
  <1>2. frame \in FrameType /\ frame.data \in Seq(Byte)
    BY DEF CtxTypeOK, FrameType
  <1>3. Append(frame.data, pt) \in Seq(Byte)
    BY <1>2
  <1>4. frame' \in FrameType /\ frame'.data = Append(frame.data, pt)
    BY <1>1, <1>2, <1>3 DEF FrameType
  <1>4a. frame'.data \in Seq(Byte)
    BY <1>3, <1>4
  <1>5. frame'.address = frame.address /\ frame'.function = frame.function
    BY <1>1, <1>2 DEF FrameType
  <1>6. faults' \in SUBSET FaultKind /\ (("assert" \in faults') = ("assert" \in faults))
    BY DEF CtxTypeOK, Store, FaultKind
  <1> QED
    BY <1>2, <1>4, <1>4a, <1>5, <1>6

(* No request is shorter than 3 or longer than 262 bytes after its         *)
(* function byte, and only a long write exceeds 7.                         *)
LEMMA RequestLengthBound ==
  ASSUME NEW f \in FrameType
  PROVE  /\ RequestLength(f) \in 3 .. 262
         /\ RequestLength(f) > 7 =>
                /\ f.function = kWriteMultipleHoldingRegisters
                /\ Len(f.data) >= 5
                /\ f.data[5] = RequestLength(f) - 7
  <1>1. f.data \in Seq(Byte)
    BY DEF FrameType
  <1>2. Len(f.data) \in Nat /\ (Len(f.data) >= 5 => f.data[5] \in Byte)
    BY <1>1, ByteAt
  <1>3. CASE f.function = kWriteMultipleHoldingRegisters
    <2>1. CASE Len(f.data) < 5
      BY <1>3, <2>1 DEF RequestLength
    <2>2. CASE Len(f.data) >= 5
      <3>1. PICK count \in Byte : count = f.data[5]
        BY <1>2, <2>2
      <3>2. RequestLength(f) = 7 + count
        BY <1>2, <1>3, <2>2, <3>1 DEF RequestLength
      <3>3. 7 + count \in 3 .. 262 /\ count = (7 + count) - 7
        OBVIOUS
      <3> QED BY <1>3, <2>2, <3>1, <3>2, <3>3
    <2> QED BY <1>2, <2>1, <2>2
  <1>4. CASE f.function # kWriteMultipleHoldingRegisters
    BY <1>4 DEF RequestLength
  <1> QED BY <1>3, <1>4

(* The first byte of a frame. *)
LEMMA AddressByteInv ==
  ASSUME FramingInv, NEW pt \in Byte, AddressByte(pt)
  PROVE  FramingInv'
  <1>1. frame' \in FrameType /\ frame'.function = frame.function /\ frame'.data = frame.data
    BY DEF FramingInv, CtxTypeOK, AddressByte, FrameType
  <1>2. state = "kAddress" /\ state' = "kFunction" /\ bytes_to_read' = 2 /\ faults' = faults
    BY DEF FramingInv, CountdownInv, AddressByte
  <1>3. CtxTypeOK'
    BY <1>1, <1>2 DEF FramingInv, CtxTypeOK, PacketState
  <1>4. CountdownInv'
    BY <1>1, <1>2 DEF FramingInv, CountdownInv
  <1> QED BY <1>3, <1>4 DEF FramingInv

(* The function byte, known or not. *)
LEMMA FunctionByteInv ==
  ASSUME FramingInv, NEW pt \in Byte, FunctionByte(pt)
  PROVE  FramingInv'
  <1>1. CASE FunctionCodeIsValid(pt)
    <2>1. GetFunction(pt) = pt /\ pt \in ValidFunctions
      BY <1>1 DEF FunctionCodeIsValid, GetFunction
    <2>2. /\ state = "kFunction" /\ state' = "kMeta" /\ faults' = faults
          /\ frame' = [frame EXCEPT !.function = pt]
          /\ bytes_to_read' = CalculateMetaDataBytesRemaining(pt)
      BY <1>1, <2>1 DEF FunctionByte
    <2>3. CalculateMetaDataBytesRemaining(pt) \in 0 .. 5
      BY DEF CalculateMetaDataBytesRemaining
    <2>3a. frame \in FrameType
      BY DEF FramingInv, CtxTypeOK
    <2>4. /\ frame' \in FrameType /\ frame'.function = pt
          /\ frame'.data = frame.data /\ frame.data \in Seq(Byte)
      BY <2>2, <2>3a DEF FrameType
    <2>5. CtxTypeOK'
      BY <2>2, <2>3, <2>4 DEF FramingInv, CtxTypeOK, PacketState
    <2>6. "assert" \notin faults => Len(frame'.data) = 0
      BY <2>2, <2>4 DEF FramingInv, CountdownInv
    <2>7. Len(frame'.data) \in Nat
      BY <2>4, ByteAt
    <2>8. CountdownInv'
      BY <2>1, <2>2, <2>3, <2>4, <2>6, <2>7 DEF CountdownInv
    <2> QED BY <2>5, <2>8 DEF FramingInv
  <1>2. CASE ~FunctionCodeIsValid(pt)
    <2>1. /\ state = "kFunction" /\ state' = "kAddress" /\ bytes_to_read' = 3
          /\ frame' = frame /\ faults' = faults
      BY <1>2 DEF FunctionByte
    <2> QED BY <2>1 DEF FramingInv, CtxTypeOK, CountdownInv, PacketState
  <1> QED BY <1>1, <1>2

(* A byte of the part of the frame whose length the function determines.   *)
(* The one that completes it makes the byte count of a write known, and    *)
(* turns the countdown into the rest of the request.                       *)
LEMMA MetaByteInv ==
  ASSUME FramingInv, NEW pt \in Byte, MetaByte(pt)
  PROVE  FramingInv'
  <1> DEFINE meta == CalculateMetaDataBytesRemaining(frame.function)
             rest == CalculateBytesRemaining(frame') + 2
             least == IF meta = 0 THEN 1 ELSE meta
  <1>1. CtxTypeOK /\ CountdownInv /\ state = "kMeta" /\ Store(pt)
    BY DEF FramingInv, MetaByte
  <1>2. /\ frame' \in FrameType
        /\ frame'.function = frame.function
        /\ Len(frame'.data) = Len(frame.data) + 1
        /\ frame'.data \in Seq(Byte)
        /\ faults' \in SUBSET FaultKind
        /\ ("assert" \in faults') = ("assert" \in faults)
    BY <1>1, StoreAppends, ZenonT(40)
  <1>3. /\ meta \in 0 .. 5 /\ Len(frame.data) \in Nat /\ bytes_to_read \in 0 .. 257
        /\ frame.function = kWriteMultipleHoldingRegisters => meta = 5
    BY <1>1 DEF CtxTypeOK, FrameType, CalculateMetaDataBytesRemaining
  <1>4. CASE bytes_to_read - 1 <= 0
    <2>1. bytes_to_read' = rest /\ state' = IF rest = 0 THEN "kDone" ELSE "kData"
      BY <1>4 DEF MetaByte
    <2>2. frame.function = kWriteMultipleHoldingRegisters =>
             Len(frame'.data) >= 5 /\ frame'.data[5] \in Byte
      <3>1. frame.function = kWriteMultipleHoldingRegisters => Len(frame'.data) >= 5
        BY <1>1, <1>2, <1>3, <1>4 DEF CountdownInv
      <3> QED BY <1>2, <3>1, ByteAt
    <2>2a. CalculateBytesRemaining(frame') \in 0 .. 255
      BY <1>2, <2>2 DEF CalculateBytesRemaining
    <2>3. bytes_to_read' \in 2 .. 257
      BY <2>1, <2>2a
    <2>4. state' = "kData"
      BY <2>1, <2>2a
    <2>5. CtxTypeOK'
      BY <1>2, <2>3, <2>4 DEF CtxTypeOK, PacketState
    <2>6. /\ Len(frame'.data) >= least
          /\ "assert" \notin faults => Len(frame'.data) = least
      BY <1>1, <1>2, <1>3, <1>4 DEF CountdownInv
    <2>7. bytes_to_read' + least = RequestLength(frame')
      <3>1. CASE frame.function = kWriteMultipleHoldingRegisters
        <4>1. least = 5 /\ CalculateBytesRemaining(frame') = frame'.data[5]
          BY <1>2, <3>1 DEF CalculateBytesRemaining, CalculateMetaDataBytesRemaining
        <4>2. RequestLength(frame') = 7 + frame'.data[5]
          BY <1>2, <2>2, <3>1 DEF RequestLength
        <4>3. bytes_to_read' = frame'.data[5] + 2 /\ frame'.data[5] \in Byte
          BY <2>1, <2>2, <3>1, <4>1
        <4>4. PICK count \in Byte : count = frame'.data[5]
          BY <4>3
        <4>5. least = 5 /\ RequestLength(frame') = 7 + count /\ bytes_to_read' = count + 2
          BY <4>1, <4>2, <4>3, <4>4
        <4> HIDE DEF least
        <4> QED BY <4>5
      <3>2. CASE frame.function = kWriteSingleHoldingRegister
        <4>1. least = 2 /\ CalculateBytesRemaining(frame') = 2 /\ RequestLength(frame') = 6
          BY <1>2, <3>2 DEF CalculateBytesRemaining, CalculateMetaDataBytesRemaining,
                            RequestLength
        <4> HIDE DEF least
        <4> QED BY <2>1, <4>1
      <3>3. CASE frame.function \in {kReadMultipleHoldingRegisters, kReadInputRegisters}
        <4>1. least = 4 /\ CalculateBytesRemaining(frame') = 0 /\ RequestLength(frame') = 6
          BY <1>2, <3>3 DEF CalculateBytesRemaining, CalculateMetaDataBytesRemaining,
                            RequestLength
        <4> HIDE DEF least
        <4> QED BY <2>1, <4>1
      <3>4. CASE frame.function \notin ImplementedFunctions
        <4>1. least = 1 /\ CalculateBytesRemaining(frame') = 0 /\ RequestLength(frame') = 3
          BY <1>2, <3>4 DEF CalculateBytesRemaining, CalculateMetaDataBytesRemaining,
                            RequestLength, ImplementedFunctions
        <4> HIDE DEF least
        <4> QED BY <2>1, <4>1
      <3> QED BY <3>1, <3>2, <3>3, <3>4 DEF ImplementedFunctions
    <2>8. PICK n \in 3 .. 262 : n = RequestLength(frame')
      BY <1>2, RequestLengthBound
    <2>9. /\ Len(frame'.data) >= meta
          /\ Len(frame'.data) + bytes_to_read' >= n
          /\ "assert" \notin faults => Len(frame'.data) + bytes_to_read' = n
      <3>1. least \in Nat /\ least >= meta /\ bytes_to_read' + least = n
        BY <1>3, <2>7, <2>8
      <3>2. Len(frame'.data) \in Nat /\ bytes_to_read' \in Nat
        BY <1>2, <1>3, <2>3
      <3>3. PICK m \in Nat : m = meta
        BY <1>3
      <3>4. PICK k \in Nat : k = least
        BY <3>1
      <3> HIDE DEF least, meta
      <3>5. PICK stored \in Nat, left \in Nat :
                stored = Len(frame'.data) /\ left = bytes_to_read'
        BY <3>2
      <3>6. k >= m /\ left + k = n /\ stored >= k
        BY <2>6, <3>1, <3>3, <3>4, <3>5
      <3>7. stored >= m /\ stored + left >= n /\ (stored = k => stored + left = n)
        BY <3>6
      <3> QED BY <2>6, <3>3, <3>4, <3>5, <3>7
    <2>10. frame.function \in ValidFunctions
      BY <1>1 DEF CountdownInv
    <2>11. CountdownInv'
      BY <1>2, <2>3, <2>4, <2>8, <2>9, <2>10 DEF CountdownInv
    <2> QED BY <2>5, <2>11 DEF FramingInv
  <1>5. CASE ~(bytes_to_read - 1 <= 0)
    <2>1. bytes_to_read' = bytes_to_read - 1 /\ state' = "kMeta"
      BY <1>1, <1>5 DEF MetaByte
    <2>2. CtxTypeOK'
      BY <1>2, <1>3, <1>5, <2>1 DEF CtxTypeOK, PacketState
    <2>3. CountdownInv'
      BY <1>1, <1>2, <1>3, <1>5, <2>1 DEF CountdownInv
    <2> QED BY <2>2, <2>3 DEF FramingInv
  <1> QED BY <1>4, <1>5

(* A data or CRC byte: one more stored, one less to come. *)
LEMMA DataByteInv ==
  ASSUME FramingInv, NEW pt \in Byte, DataByte(pt)
  PROVE  FramingInv'
  <1>1. CtxTypeOK /\ CountdownInv /\ state = "kData" /\ Store(pt)
    BY DEF FramingInv, DataByte
  <1>2. /\ frame' \in FrameType
        /\ frame'.function = frame.function
        /\ Len(frame'.data) = Len(frame.data) + 1
        /\ \A i \in 1 .. Len(frame.data) : frame'.data[i] = frame.data[i]
        /\ faults' \in SUBSET FaultKind
        /\ ("assert" \in faults') = ("assert" \in faults)
    BY <1>1, StoreAppends, ZenonT(40)
  <1>3. /\ bytes_to_read \in 1 .. 257 /\ bytes_to_read' = bytes_to_read - 1
        /\ state' = IF bytes_to_read - 1 <= 0 THEN "kDone" ELSE "kData"
        /\ Len(frame.data) \in Nat
    BY <1>1 DEF DataByte, CtxTypeOK, CountdownInv, FrameType
  <1>4. CtxTypeOK'
    BY <1>2, <1>3 DEF CtxTypeOK, PacketState
  <1>5. PICK n \in 3 .. 262 : n = RequestLength(frame)
    BY <1>1, RequestLengthBound DEF CtxTypeOK
  <1>6. RequestLength(frame') = n
    <2>1. Len(frame.data) >= CalculateMetaDataBytesRemaining(frame.function)
      BY <1>1 DEF CountdownInv
    <2>2. RequestLength(frame') = RequestLength(frame)
      BY <1>2, <1>3, <2>1 DEF RequestLength, CalculateMetaDataBytesRemaining
    <2> QED BY <1>5, <2>2
  <1>7. /\ frame.function \in ValidFunctions
        /\ Len(frame'.data) >= CalculateMetaDataBytesRemaining(frame'.function)
        /\ Len(frame'.data) + bytes_to_read' >= RequestLength(frame')
        /\ "assert" \notin faults =>
               Len(frame'.data) + bytes_to_read' = RequestLength(frame')
    <2>1. CalculateMetaDataBytesRemaining(frame.function) \in 0 .. 5
      BY DEF CalculateMetaDataBytesRemaining
    <2>2. /\ frame.function \in ValidFunctions
          /\ Len(frame.data) >= CalculateMetaDataBytesRemaining(frame.function)
          /\ Len(frame.data) + bytes_to_read >= n
          /\ "assert" \notin faults => Len(frame.data) + bytes_to_read = n
      BY <1>1, <1>5 DEF CountdownInv
    <2>3. Len(frame'.data) + bytes_to_read' = Len(frame.data) + bytes_to_read
      BY <1>2, <1>3
    <2>4. Len(frame'.data) >= CalculateMetaDataBytesRemaining(frame'.function)
      BY <1>2, <1>3, <2>1, <2>2
    <2> QED BY <1>6, <2>2, <2>3, <2>4
  <1>8. CountdownInv'
    BY <1>2, <1>3, <1>7 DEF CountdownInv
  <1> QED BY <1>4, <1>8 DEF FramingInv

(* A byte nobody waits for: the context starts over with a stale Frame. *)
LEMMA DoneByteInv ==
  ASSUME FramingInv, NEW pt \in Byte, DoneByte(pt)
  PROVE  FramingInv'
  BY DEF FramingInv, CtxTypeOK, CountdownInv, DoneByte, PacketState, FaultKind

(* ResetRead returns to the initial values and keeps the fault record. *)
LEMMA ResetReadInv ==
  ASSUME FramingInv, ResetRead
  PROVE  FramingInv'
  BY DEF FramingInv, CtxTypeOK, CountdownInv, ResetRead, PacketState,
         EmptyFrame, FrameType

(* Every call of ReadContext::ProcessCharacter keeps the invariant. *)
LEMMA ProcessCharacterInv ==
  ASSUME FramingInv, NEW pt \in Byte, ProcessCharacter(pt)
  PROVE  FramingInv'
  BY AddressByteInv, FunctionByteInv, MetaByteInv, DataByteInv, DoneByteInv
     DEF ProcessCharacter

(* The receiver's countdown is consistent with its buffer for every input: *)
(* the inductive invariant of ReadContext::ProcessCharacter and ResetRead. *)
THEOREM FramingCorrect == CtxSpec => [](CtxTypeOK /\ CountdownInv)
  <1>1. CtxInit => FramingInv
    BY FramingInit
  <1>2. FramingInv /\ [CtxNext]_ctxVars => FramingInv'
    <2> SUFFICES ASSUME FramingInv, [CtxNext]_ctxVars PROVE FramingInv'
      OBVIOUS
    <2>1. CASE \E pt \in Byte : ProcessCharacter(pt)
      BY <2>1, ProcessCharacterInv
    <2>2. CASE ResetRead
      BY <2>2, ResetReadInv
    <2>3. CASE UNCHANGED ctxVars
      BY <2>3 DEF ctxVars, FramingInv, CtxTypeOK, CountdownInv
    <2> QED BY <2>1, <2>2, <2>3 DEF CtxNext
  <1>3. FramingInv => CtxTypeOK /\ CountdownInv
    BY DEF FramingInv
  <1> QED BY <1>1, <1>2, <1>3, PTL DEF CtxSpec

(* The countdown decides whether the Frame holds one whole request. *)
LEMMA BoundaryFromCountdown == CtxTypeOK /\ CountdownInv => FrameBoundary
  <1> SUFFICES ASSUME CtxTypeOK, CountdownInv, "assert" \notin faults
               PROVE  PacketReceived <=> /\ frame.function # kNone
                                         /\ Len(frame.data) >= RequestLength(frame)
    BY DEF FrameBoundary
  <1>1. RequestLength(frame) \in 3 .. 262 /\ Len(frame.data) \in Nat
    BY RequestLengthBound, ByteAt DEF CtxTypeOK, FrameType
  <1>2. CASE state \in {"kAddress", "kFunction"}
    BY <1>2 DEF CountdownInv, PacketReceived
  <1>3. CASE state = "kMeta"
    <2>1. Len(frame.data) < CalculateMetaDataBytesRemaining(frame.function)
            \/ Len(frame.data) = 0
      BY <1>3 DEF CountdownInv
    <2>2. CASE frame.function = kWriteMultipleHoldingRegisters
      BY <1>1, <1>3, <2>1, <2>2 DEF RequestLength, CalculateMetaDataBytesRemaining,
                                    PacketReceived
    <2>3. CASE frame.function # kWriteMultipleHoldingRegisters
      BY <1>1, <1>3, <2>1, <2>3 DEF RequestLength, CalculateMetaDataBytesRemaining,
                                    PacketReceived
    <2> QED BY <2>2, <2>3
  <1>1a. PICK n \in 3 .. 262 : n = RequestLength(frame)
    BY <1>1
  <1>4. CASE state = "kData"
    <2>1. bytes_to_read > 0 /\ Len(frame.data) + bytes_to_read = n
      BY <1>1a, <1>4 DEF CountdownInv
    <2>1a. bytes_to_read \in Nat /\ Len(frame.data) \in Nat
      BY <1>1 DEF CtxTypeOK
    <2>2. ~(Len(frame.data) >= n)
      BY <2>1, <2>1a
    <2> QED BY <1>1a, <1>4, <2>2 DEF PacketReceived
  <1>5. CASE state = "kDone"
    <2>1a. frame.function \in ValidFunctions
      BY <1>5 DEF CountdownInv
    <2>1. frame.function # kNone
      BY <2>1a DEF ValidFunctions
    <2>2. bytes_to_read = 0 /\ Len(frame.data) + bytes_to_read = n
      BY <1>1a, <1>5 DEF CountdownInv
    <2>3. Len(frame.data) >= n
      BY <1>1, <2>2
    <2> QED BY <1>1a, <1>5, <2>1, <2>3 DEF PacketReceived
  <1> QED BY <1>2, <1>3, <1>4, <1>5 DEF CtxTypeOK, PacketState

(* The receiver's variables keep their types for every input; the counter  *)
(* stays between 0 and 257.                                                *)
THEOREM CtxTypeCorrect == CtxSpec => []CtxTypeOK
  BY FramingCorrect, PTL

(* ReadContext reports a packet exactly when one whole request is stored,  *)
(* for every stream of bytes in which no byte reaches a complete frame.    *)
THEOREM FrameBoundaryCorrect == CtxSpec => []FrameBoundary
  BY BoundaryFromCountdown, FramingCorrect, PTL

(* The receiver stores at most 262 bytes, and exceeds its 256-byte array   *)
(* only for a write that announces at least 250 data bytes.                *)
THEOREM FrameFitsCorrect == CtxSpec => []FrameFits
  <1>1. CtxTypeOK /\ CountdownInv => FrameFits
    <2> SUFFICES ASSUME CtxTypeOK, CountdownInv, "assert" \notin faults
                 PROVE  /\ Len(frame.data) <= 262
                        /\ Len(frame.data) > 256 =>
                               /\ frame.function = kWriteMultipleHoldingRegisters
                               /\ frame.data[5] >= 250
      BY DEF FrameFits
    <2>1. /\ RequestLength(frame) \in 3 .. 262 /\ Len(frame.data) \in Nat
          /\ RequestLength(frame) > 7 =>
                 /\ frame.function = kWriteMultipleHoldingRegisters
                 /\ frame.data[5] = RequestLength(frame) - 7
      BY RequestLengthBound, ByteAt DEF CtxTypeOK, FrameType
    <2>2. CASE state \in {"kAddress", "kFunction"}
      BY <2>2 DEF CountdownInv
    <2>3. CASE state = "kMeta"
      <3>1. CalculateMetaDataBytesRemaining(frame.function) \in 0 .. 5
        BY DEF CalculateMetaDataBytesRemaining
      <3>2. Len(frame.data) < CalculateMetaDataBytesRemaining(frame.function)
              \/ Len(frame.data) = 0
        BY <2>3 DEF CountdownInv
      <3> QED BY <2>1, <3>1, <3>2
    <2>4. CASE state \in {"kData", "kDone"}
      <3>1. PICK n \in 3 .. 262 : n = RequestLength(frame)
        BY <2>1
      <3>2. bytes_to_read \in Nat
        BY DEF CtxTypeOK
      <3>3. Len(frame.data) + bytes_to_read = n
        BY <2>4, <3>1 DEF CountdownInv
      <3>3a. Len(frame.data) \in Nat
        BY <2>1
      <3>4. Len(frame.data) <= n
        BY <3>2, <3>3, <3>3a
      <3>5. ASSUME Len(frame.data) > 256
            PROVE  frame.function = kWriteMultipleHoldingRegisters /\ frame.data[5] >= 250
        <4>1. n > 7 /\ n - 7 >= 250
          BY <3>3a, <3>4, <3>5
        <4>2. frame.function = kWriteMultipleHoldingRegisters /\ frame.data[5] = n - 7
          BY <2>1, <3>1, <4>1
        <4> QED BY <4>1, <4>2
      <3>6. Len(frame.data) <= 262
        BY <3>3a, <3>4
      <3> QED BY <3>5, <3>6
    <2> QED BY <2>2, <2>3, <2>4 DEF CtxTypeOK, PacketState
  <1> QED BY <1>1, FramingCorrect, PTL
=============================================================================
