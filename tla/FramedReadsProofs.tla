-------------------------- MODULE FramedReadsProofs --------------------------
(***************************************************************************)
(* ReadContext implements Framer: the proof of FramesByPrefix.  The        *)
(* receiver's inductive invariant does the work; what is left is that the  *)
(* bytes of the current frame, put together from the Frame's fields, grow  *)
(* by exactly the byte received.                                           *)
(***************************************************************************)
EXTENDS FramedReads, ReadContextProofs

(* The bytes of a frame as a sequence: two header bytes before the data.   *)
LEMMA HeadedBytes ==
  ASSUME NEW a \in Byte, NEW f \in Byte, NEW data \in Seq(Byte)
  PROVE  LET bytes == <<a, f>> \o data
         IN  /\ bytes \in Seq(Byte)
             /\ Len(bytes) = Len(data) + 2
             /\ bytes[2] = f
             /\ Len(data) >= 5 => bytes[7] = data[5]
  <1> DEFINE bytes == <<a, f>> \o data
  <1>1. <<a, f>> \in Seq(Byte) /\ Len(<<a, f>>) = 2
    OBVIOUS
  <1>2. bytes \in Seq(Byte) /\ Len(bytes) = 2 + Len(data) /\ Len(data) \in Nat
    BY <1>1, ConcatProperties, LenProperties
  <1>3. \A i \in 1 .. Len(bytes) :
            bytes[i] = IF i <= 2 THEN <<a, f>>[i] ELSE data[i - 2]
    BY <1>1, ConcatProperties
  <1>4. bytes[2] = f
    BY <1>2, <1>3
  <1>5. Len(data) >= 5 => bytes[7] = data[5]
    BY <1>2, <1>3
  <1> QED BY <1>2, <1>4, <1>5

(* A byte appended to the data is appended to the bytes of the frame.      *)
LEMMA HeadedAppend ==
  ASSUME NEW a \in Byte, NEW f \in Byte, NEW data \in Seq(Byte), NEW pt \in Byte
  PROVE  <<a, f>> \o Append(data, pt) = Append(<<a, f>> \o data, pt)
  OBVIOUS

(* A second byte makes a pair. *)
LEMMA AppendPair ==
  ASSUME NEW a \in Byte, NEW b \in Byte
  PROVE  Append(<<a>>, b) = <<a, b>>
  <1>1. <<a>> \in Seq(Byte) /\ Len(<<a>>) = 1 /\ <<a, b>> \in Seq(Byte) /\ Len(<<a, b>>) = 2
    OBVIOUS
  <1>2. /\ Append(<<a>>, b) \in Seq(Byte)
        /\ Len(Append(<<a>>, b)) = 2
        /\ Append(<<a>>, b)[1] = <<a>>[1]
        /\ Append(<<a>>, b)[2] = b
    BY <1>1, AppendProperties
  <1>3. \A i \in 1 .. 2 : Append(<<a>>, b)[i] = <<a, b>>[i]
    BY <1>2
  <1> QED BY <1>1, <1>2, <1>3, SeqEqual

(* The prefix decides the same length as the Frame's fields.               *)
LEMMA SameLength ==
  ASSUME NEW f \in FrameType
  PROVE  Framing!WholeLength(<<f.address, f.function>> \o f.data) = RequestLength(f) + 2
  <1> DEFINE bytes == <<f.address, f.function>> \o f.data
  <1>1. /\ Len(bytes) = Len(f.data) + 2 /\ bytes[2] = f.function
        /\ Len(f.data) >= 5 => bytes[7] = f.data[5]
        /\ Len(f.data) \in Nat
    BY HeadedBytes, LenProperties DEF FrameType
  <1>2. Len(f.data) >= 5 => f.data[5] \in Nat
    <2>1. f.data \in Seq(Byte)
      BY DEF FrameType
    <2>2. Len(f.data) \in Nat /\ \A i \in 1 .. Len(f.data) : f.data[i] \in Byte
      BY <2>1, ByteAt
    <2>3. \A v \in Byte : v \in Nat
      BY DEF Byte
    <2>4. ASSUME Len(f.data) >= 5 PROVE f.data[5] \in Nat
      <3>1. 5 \in 1 .. Len(f.data)
        BY <2>2, <2>4
      <3> QED BY <2>2, <2>3, <3>1
    <2> QED BY <2>4
  <1> HIDE DEF bytes
  <1>3. Framing!WholeLength(bytes) = RequestLength(f) + 2
    BY <1>1, <1>2, SMTT(30)
       DEF Framing!WholeLength, RequestLength,
           kReadMultipleHoldingRegisters, kReadInputRegisters,
           kWriteSingleHoldingRegister, kWriteMultipleHoldingRegisters,
           Framing!kReadMultipleHoldingRegisters, Framing!kReadInputRegisters,
           Framing!kWriteSingleHoldingRegister, Framing!kWriteMultipleHoldingRegisters
  <1> QED BY <1>3 DEF bytes

(* Behind the function byte a packet is reported exactly when the bytes of *)
(* the frame are as many as their first ones ask for.                      *)
LEMMA CompleteByPrefix ==
  FramingInv /\ "assert" \notin faults
      /\ state \in {"kMeta", "kData", "kDone"} /\ Len(frame.data) > 0
  => (complete <=> Len(got) > 2 /\ Len(got) >= Framing!WholeLength(got))
  <1> SUFFICES ASSUME FramingInv, "assert" \notin faults,
                      state \in {"kMeta", "kData", "kDone"}, Len(frame.data) > 0
               PROVE  complete <=> Len(got) > 2 /\ Len(got) >= Framing!WholeLength(got)
    OBVIOUS
  <1> DEFINE bytes == <<frame.address, frame.function>> \o frame.data
  <1>0. got = bytes
    BY DEF got
  <1>1. frame \in FrameType /\ frame.address \in Byte /\ frame.function \in Byte
          /\ frame.data \in Seq(Byte)
    BY DEF FramingInv, CtxTypeOK, FrameType
  <1>2. Len(bytes) = Len(frame.data) + 2 /\ Len(frame.data) \in Nat
    BY <1>1, HeadedBytes, LenProperties
  <1>3. Framing!WholeLength(bytes) = RequestLength(frame) + 2
    BY <1>1, SameLength
  <1>4. RequestLength(frame) \in 3 .. 262
    BY <1>1, RequestLengthBound
  <1>5. PacketReceived <=> Len(frame.data) >= RequestLength(frame)
    <2>1. frame.function \in ValidFunctions
      BY DEF FramingInv, CountdownInv
    <2>2. frame.function # kNone
      <3>1. kNone \notin ValidFunctions
        BY DEF ValidFunctions, kNone
      <3> QED BY <2>1, <3>1
    <2>3. FrameBoundary
      BY BoundaryFromCountdown DEF FramingInv
    <2> QED BY <2>2, <2>3 DEF FrameBoundary
  <1> HIDE DEF bytes
  <1>6. PacketReceived <=> Len(bytes) > 2 /\ Len(bytes) >= Framing!WholeLength(bytes)
    <2>1. PICK n \in 3 .. 262 : n = RequestLength(frame)
      BY <1>4
    <2>2. PICK k \in Nat : k = Len(frame.data)
      BY <1>2
    <2>3. Framing!WholeLength(bytes) = n + 2 /\ Len(bytes) = k + 2
      BY <1>2, <1>3, <2>1, <2>2
    <2>4. k >= n <=> k + 2 > 2 /\ k + 2 >= n + 2
      OBVIOUS
    <2> QED BY <1>5, <2>1, <2>2, <2>3, <2>4
  <1> QED BY <1>0, <1>6 DEF complete

(* The first byte of a frame is taken. *)
LEMMA AddressByteTakes ==
  ASSUME FramingInv, "assert" \notin faults, NEW pt \in Byte, AddressByte(pt)
  PROVE  Framing!Take(pt)
  <1>1. /\ state = "kAddress" /\ state' = "kFunction" /\ faults' = faults
        /\ frame'.address = pt
    BY DEF AddressByte, FramingInv, CtxTypeOK, FrameType
  <1>2. got = << >> /\ got' = <<pt>>
    BY <1>1 DEF got
  <1>3. ~complete /\ ~complete' /\ misused' = misused
    BY <1>1 DEF complete, misused, PacketReceived
  <1>4. Append(got, pt) = <<pt>> /\ Len(<<pt>>) = 1
    BY <1>2
  <1>5. Framing!Possible(<<pt>>)
    BY <1>4 DEF Framing!Possible
  <1> QED BY <1>2, <1>3, <1>4, <1>5 DEF Framing!Take, complete, PacketReceived

(* The function byte is taken, or starts the receiver afresh. *)
LEMMA FunctionByteTakes ==
  ASSUME FramingInv, "assert" \notin faults, NEW pt \in Byte, FunctionByte(pt)
  PROVE  Framing!Take(pt)
  <1>1. /\ state = "kFunction" /\ faults' = faults /\ got = <<frame.address>>
        /\ frame \in FrameType /\ frame.address \in Byte /\ frame.data = << >>
    <2>1. state = "kFunction" /\ faults' = faults
      BY DEF FunctionByte
    <2>2. got = <<frame.address>>
      BY <2>1 DEF got
    <2>3. frame \in FrameType /\ frame.address \in Byte /\ frame.data \in Seq(Byte)
      BY DEF FramingInv, CtxTypeOK, FrameType
    <2>4. Len(frame.data) = 0
      BY <2>1 DEF FramingInv, CountdownInv
    <2>5. frame.data = << >>
      BY <2>3, <2>4, EmptySeq
    <2> QED BY <2>1, <2>2, <2>3, <2>5
  <1>2. ~complete /\ misused' = misused
    BY <1>1 DEF complete, misused, PacketReceived
  <1> DEFINE bytes == <<frame.address, pt>>
  <1>3. Append(got, pt) = bytes /\ Len(bytes) = 2 /\ bytes[2] = pt
    <2>1. Append(<<frame.address>>, pt) = bytes
      BY <1>1, AppendPair
    <2>2. Len(bytes) = 2 /\ bytes[2] = pt
      OBVIOUS
    <2> QED BY <1>1, <2>1, <2>2
  <1>4. Framing!Possible(bytes) <=> pt \in ValidFunctions
    BY <1>3 DEF Framing!Possible, Framing!ValidFunctions, ValidFunctions
  <1>5. CASE FunctionCodeIsValid(pt)
    <2>1. /\ pt \in ValidFunctions /\ state' = "kMeta"
          /\ frame'.function = pt /\ frame'.address = frame.address
          /\ frame'.data = << >>
      BY <1>1, <1>5 DEF FunctionByte, FunctionCodeIsValid, GetFunction, FrameType
    <2>2. got' = <<frame.address, pt>> \o << >>
      BY <2>1 DEF got
    <2>3. got' = bytes /\ Len(got') = 2
      BY <1>3, <2>2
    <2>4. ~complete'
      BY <2>1 DEF complete, PacketReceived
    <2> QED BY <1>2, <1>3, <1>4, <2>1, <2>3, <2>4 DEF Framing!Take, complete, PacketReceived
  <1>6. CASE ~FunctionCodeIsValid(pt)
    <2>1. pt \notin ValidFunctions /\ state' = "kAddress"
      BY <1>6 DEF FunctionByte, FunctionCodeIsValid, ValidFunctions
    <2>2. got' = << >> /\ Len(got') = 0 /\ ~complete'
      BY <2>1 DEF got, complete, PacketReceived
    <2> QED BY <1>2, <1>3, <1>4, <2>1, <2>2 DEF Framing!Take, complete, PacketReceived
  <1> QED BY <1>5, <1>6

(* A stored byte is taken, and the prefix agrees with the countdown on     *)
(* whether it completes the request.                                       *)
LEMMA StoredByteTakes ==
  ASSUME FramingInv, FramingInv', "assert" \notin faults, NEW pt \in Byte, Store(pt),
         state \in {"kMeta", "kData"}, state' \in {"kMeta", "kData", "kDone"}
  PROVE  Framing!Take(pt)
  <1>1. /\ frame.address \in Byte /\ frame.function \in Byte
        /\ frame.data \in Seq(Byte) /\ Len(frame.data) \in Nat
    BY ByteAt DEF FramingInv, CtxTypeOK, FrameType
  <1>2. /\ frame'.address = frame.address /\ frame'.function = frame.function
        /\ frame'.data = Append(frame.data, pt)
        /\ Len(frame'.data) = Len(frame.data) + 1
        /\ "assert" \notin faults'
    BY <1>1, StoreAppends DEF Store, FramingInv, CtxTypeOK, FrameType
  <1> DEFINE bytes == <<frame.address, frame.function>> \o frame.data
             more  == <<frame'.address, frame'.function>> \o frame'.data
  <1>3. got = bytes /\ got' = more
    BY DEF got
  <1>4. more = Append(bytes, pt)
    BY <1>1, <1>2, HeadedAppend, SMTT(30)
  <1>5. Len(bytes) = Len(frame.data) + 2
    BY <1>1, HeadedBytes
  <1>6. Len(Append(bytes, pt)) = Len(frame.data) + 3
    BY <1>1, <1>5, HeadedBytes
  <1>7. complete' <=> Len(got') > 2 /\ Len(got') >= Framing!WholeLength(got')
    <2>1. Len(frame'.data) > 0
      BY <1>1, <1>2
    <2>2. (FramingInv /\ "assert" \notin faults
              /\ state \in {"kMeta", "kData", "kDone"} /\ Len(frame.data) > 0)'
          => (complete <=> Len(got) > 2 /\ Len(got) >= Framing!WholeLength(got))'
      BY CompleteByPrefix, PTL
    <2> QED BY <1>2, <2>1, <2>2
  <1> HIDE DEF bytes, more
  <1>8. Framing!Possible(Append(bytes, pt))
    BY <1>1, <1>6 DEF Framing!Possible
  <1>9. ~complete /\ misused' = misused
    BY <1>2 DEF complete, misused, PacketReceived
  <1> QED BY <1>3, <1>4, <1>7, <1>8, <1>9 DEF Framing!Take, complete, PacketReceived

(* No step forgets that a byte came to a complete frame. *)
LEMMA FaultsStay ==
  ASSUME CtxNext, "assert" \in faults
  PROVE  "assert" \in faults'
  BY DEF CtxNext, ProcessCharacter, AddressByte, FunctionByte, MetaByte, DataByte,
         DoneByte, Store, ResetRead

(* A byte for a frame that is not complete is taken; one for a complete    *)
(* frame is the host's misuse.                                             *)
LEMMA CharacterFrames ==
  ASSUME FramingInv, FramingInv', "assert" \notin faults, NEW pt \in Byte,
         ProcessCharacter(pt)
  PROVE  Framing!Take(pt) \/ Framing!Misuse
  <1>1. CASE AddressByte(pt)
    BY <1>1, AddressByteTakes
  <1>2. CASE FunctionByte(pt)
    BY <1>2, FunctionByteTakes
  <1>3. CASE MetaByte(pt)
    <2>1. Store(pt) /\ state = "kMeta" /\ state' \in {"kMeta", "kData", "kDone"}
      BY <1>3 DEF MetaByte
    <2> QED BY <2>1, StoredByteTakes
  <1>4. CASE DataByte(pt)
    <2>1. Store(pt) /\ state = "kData" /\ state' \in {"kMeta", "kData", "kDone"}
      BY <1>4 DEF DataByte
    <2> QED BY <2>1, StoredByteTakes
  <1>5. CASE DoneByte(pt)
    <2>1. complete /\ misused'
      BY <1>5 DEF DoneByte, complete, misused, PacketReceived
    <2> QED BY <2>1 DEF Framing!Misuse, complete, misused, PacketReceived
  <1> QED BY <1>1, <1>2, <1>3, <1>4, <1>5 DEF ProcessCharacter

(* A reset of the receiver drops the frame. *)
LEMMA ResetDrops ==
  ASSUME ResetRead
  PROVE  Framing!Drop
  <1>1. state' = "kAddress" /\ faults' = faults
    BY DEF ResetRead
  <1> QED BY <1>1 DEF Framing!Drop, got, complete, misused, PacketReceived

(* ReadContext implements Framer: whatever bytes and resets it is given,   *)
(* it reports a packet with exactly the byte that completes a request, as  *)
(* far as the request's own first bytes say how long it is.                *)
THEOREM FramesByPrefixCorrect == CtxSpec => FramesByPrefix
  <1>1. CtxInit => Framing!FramerInit
    BY DEF CtxInit, Framing!FramerInit, got, complete, misused, PacketReceived
  <1>2. FramingInv /\ FramingInv' /\ [CtxNext]_ctxVars
          => [Framing!FramerNext]_(Framing!framerVars)
    <2> SUFFICES ASSUME FramingInv, FramingInv', [CtxNext]_ctxVars
                 PROVE  Framing!FramerNext \/ UNCHANGED Framing!framerVars
      OBVIOUS
    <2>1. CASE CtxNext /\ "assert" \in faults
      <3>1. "assert" \in faults /\ "assert" \in faults'
        BY <2>1, FaultsStay
      <3>2. misused /\ misused'
        BY <3>1 DEF misused
      <3> QED BY <3>2 DEF Framing!FramerNext
    <2>2. CASE CtxNext /\ "assert" \notin faults
      <3>1. CASE \E pt \in Byte : ProcessCharacter(pt)
        <4>1. PICK pt \in Byte : ProcessCharacter(pt)
          BY <3>1
        <4>2. Framing!Take(pt) \/ Framing!Misuse
          BY <2>2, <4>1, CharacterFrames
        <4>3. pt \in Framing!Byte
          BY DEF Framing!Byte, Byte
        <4> QED BY <4>2, <4>3 DEF Framing!FramerNext
      <3>2. CASE ResetRead
        BY <3>2, ResetDrops DEF Framing!FramerNext
      <3> QED BY <2>2, <3>1, <3>2 DEF CtxNext
    <2>3. CASE UNCHANGED ctxVars
      <3>1. state' = state /\ frame' = frame /\ faults' = faults
        BY <2>3 DEF ctxVars
      <3> QED BY <3>1 DEF Framing!framerVars, got, complete, misused, PacketReceived
    <2> QED BY <2>1, <2>2, <2>3
  <1>3. CtxSpec => []FramingInv
    BY FramingCorrect, PTL DEF FramingInv
  <1> QED BY <1>1, <1>2, <1>3, PTL DEF CtxSpec, FramesByPrefix, Framing!FramerSpec
=============================================================================
