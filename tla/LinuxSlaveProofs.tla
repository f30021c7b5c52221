-------------------------- MODULE LinuxSlaveProofs --------------------------
(***************************************************************************)
(* The slave in its host loop, for every traffic, every number of requests *)
(* and faults and every size of the buffers: what the loop guarantees      *)
(* whatever the line does.                                                 *)
(***************************************************************************)
EXTENDS LinuxSlave, RtuCommandProofs

USE DEF Byte, kHeaderLength, kFooterLength, kMaxFrameLength

(* The transmit buffer holds a whole response: it has 1024 bytes in        *)
(* UartController, a response at most 257.                                 *)
TxHoldsReply == TxCap >= kMaxFrameLength + 1

(* A part of a byte sequence is one. *)
LEMMA PartOfBytes ==
  ASSUME NEW s \in Seq(Byte), NEW m \in Nat \ {0}, NEW n \in 0 .. Len(s)
  PROVE  /\ SubSeq(s, m, n) \in Seq(Byte)
         /\ Len(SubSeq(s, m, n)) = IF m <= n THEN n - m + 1 ELSE 0
  <1>1. Len(s) \in Nat /\ \A i \in 1 .. Len(s) : s[i] \in Byte
    BY LenProperties, ElementOfSeq
  <1>2. m \in Int /\ n \in Int /\ \A i \in m .. n : s[i] \in Byte
    BY <1>1
  <1> QED BY <1>2, SubSeqProperties

(* What is cut from a byte sequence is one, and no longer than asked. *)
LEMMA TruncateBytes ==
  ASSUME NEW s \in Seq(Byte), NEW n \in Nat
  PROVE  Truncate(s, n) \in Seq(Byte) /\ Len(Truncate(s, n)) <= n
  <1>1. Len(s) \in Nat
    BY LenProperties
  <1>2. PICK m \in 0 .. Len(s) : m = (IF Len(s) < n THEN Len(s) ELSE n)
    BY <1>1
  <1>3. /\ SubSeq(s, 1, m) \in Seq(Byte)
        /\ Len(SubSeq(s, 1, m)) = m
    <2>1. 1 \in Nat \ {0}
      OBVIOUS
    <2>2. /\ SubSeq(s, 1, m) \in Seq(Byte)
          /\ Len(SubSeq(s, 1, m)) = IF 1 <= m THEN m - 1 + 1 ELSE 0
      BY <1>2, <2>1, PartOfBytes, ZenonT(40)
    <2> QED BY <1>1, <1>2, <2>2
  <1> QED BY <1>1, <1>2, <1>3 DEF Truncate

(* What fits is not cut. *)
LEMMA TruncateWhole ==
  ASSUME NEW s \in Seq(Byte), NEW n \in Nat, Len(s) <= n
  PROVE  Truncate(<< >> \o s, n) = s
  <1>1. << >> \o s = s
    BY ConcatEmptySeq
  <1>2. (IF Len(s) < n THEN Len(s) ELSE n) = Len(s)
    BY LenProperties
  <1>3. SubSeq(s, 1, Len(s)) = s
    BY SubSeqFull
  <1> QED BY <1>1, <1>2, <1>3, Zenon DEF Truncate

(* One sequence of m elements and behind it another of n. *)
IsJoin(both, s, t, m, n) ==
    /\ Len(both) = m + n
    /\ \A i \in 1 .. m : both[i] = s[i]
    /\ \A j \in 1 .. n : both[m + j] = t[j]

(* Two byte sequences joined, place by place. *)
LEMMA Joined ==
  ASSUME NEW s \in Seq(Byte), NEW t \in Seq(Byte)
  PROVE  s \o t \in Seq(Byte) /\ IsJoin(s \o t, s, t, Len(s), Len(t))
  <1>1. /\ s \o t \in Seq(Byte) /\ Len(s \o t) = Len(s) + Len(t)
        /\ \A i \in 1 .. Len(s) + Len(t) :
              (s \o t)[i] = IF i <= Len(s) THEN s[i] ELSE t[i - Len(s)]
    BY ConcatProperties
  <1>2. PICK m \in Nat, n \in Nat : m = Len(s) /\ n = Len(t)
    BY LenProperties
  <1>3. ASSUME NEW j \in 1 .. n PROVE (s \o t)[m + j] = t[j]
    <2>1. m + j \in 1 .. m + n /\ ~(m + j <= m) /\ (m + j) - m = j
      OBVIOUS
    <2> QED BY <1>1, <1>2, <2>1
  <1>4. ASSUME NEW i \in 1 .. m PROVE (s \o t)[i] = s[i]
    BY <1>1, <1>2
  <1>5. IsJoin(s \o t, s, t, m, n)
    BY <1>1, <1>2, <1>3, <1>4, Zenon DEF IsJoin
  <1> QED BY <1>1, <1>2, <1>5

(* A request on the line is a sequence of bytes. *)
LEMMA FrameIsBytes ==
  ASSUME CrcIsWord, NEW request \in FrameType
  PROVE  Frame(request) \in Seq(Byte)
  <1>1. PICK a \in Byte, f \in Byte, data \in Seq(Byte) :
           a = request.address /\ f = request.function /\ data = request.data
    BY DEF FrameType
  <1>2. <<a, f>> \in Seq(Byte)
    OBVIOUS
  <1>3. FrameBytes(request) = <<a, f>> \o data
    BY <1>1, Zenon DEF FrameBytes
  <1>4. FrameBytes(request) \in Seq(Byte)
    <2>1. <<a, f>> \o data \in Seq(Byte)
      BY <1>1, <1>2, ConcatProperties, ZenonT(40)
    <2> QED BY <1>3, <2>1, Zenon
  <1>5. Crc(FrameBytes(request)) \in Word
    BY <1>4 DEF CrcIsWord
  <1>6. PICK high \in Byte, low \in Byte : CrcBytes(FrameBytes(request)) = <<high, low>>
    BY <1>5, WordBytesExact, Zenon DEF CrcBytes
  <1>7. CrcBytes(FrameBytes(request)) \in Seq(Byte)
    BY <1>6
  <1> QED BY <1>4, <1>7, ConcatProperties, ZenonT(40) DEF Frame

-----------------------------------------------------------------------------
(* The loop has looked for a packet before it hands a byte on, and has     *)
(* served the transmit buffer before it queues a reply.                    *)
LoopInv ==
    /\ pc = "char" => ~PacketReceived
    /\ pc \in {"packet", "reply"} => tx = << >>
    /\ "assert" \notin faults
    /\ Len(response.data) <= response.length
    /\ response.length <= kMaxFrameLength + 1
    /\ replies \in Seq(Seq(Byte))

HostInv == TypeOK /\ SlaveInv /\ LoopInv

(* What a step does to the slave is a step of the slave. *)
LEMMA HostStepIsSlaveStep ==
  ASSUME TypeOK, [Next]_vars
  PROVE  [SlaveNext]_slaveVars
  <1>1. rx \in Seq(Byte)
    BY DEF TypeOK
  <1>2. ASSUME RunChar PROVE [SlaveNext]_slaveVars
    <2>1. CASE rx # << >>
      <3>1. Head(rx) \in Byte
        BY <1>1, <2>1, HeadTailProperties
      <3> QED BY <1>2, <2>1, <3>1 DEF RunChar, SlaveNext
    <2>2. CASE rx = << >>
      BY <1>2, <2>2 DEF RunChar, SlaveNext
    <2> QED BY <2>1, <2>2
  <1>3. ASSUME RunPacket PROVE [SlaveNext]_slaveVars
    <2>1. TRUE \in BOOLEAN
      OBVIOUS
    <2> QED BY <1>3, <2>1, Zenon DEF RunPacket, SlaveNext
  <1>4. ASSUME RunReply PROVE [SlaveNext]_slaveVars
    BY <1>4 DEF RunReply, SlaveNext
  <1>5. CASE UNCHANGED vars
    BY <1>5 DEF vars
  <1>6. ASSUME NEW n \in 0 .. Len(line), RunIO(n) PROVE [SlaveNext]_slaveVars
    BY <1>6 DEF RunIO
  <1>7. ASSUME NEW request \in Traffic, Send(request) PROVE [SlaveNext]_slaveVars
    BY <1>7 DEF Send
  <1>8. ASSUME NEW jump \in ClockSteps, StepClock(jump) PROVE [SlaveNext]_slaveVars
    BY <1>8 DEF StepClock
  <1>9. CASE Lose \/ Corrupt \/ Tick
    BY <1>9 DEF Lose, Corrupt, Tick
  <1> QED BY <1>2, <1>3, <1>4, <1>5, <1>6, <1>7, <1>8, <1>9 DEF Next, Run

(* The masters, the line and the clock leave the host's buffers alone. *)
LEMMA EnvironmentKeepsType ==
  ASSUME CrcIsWord, HostInv,
         \/ \E request \in Traffic : Send(request)
         \/ Lose \/ Corrupt \/ Tick
         \/ \E jump \in ClockSteps : StepClock(jump)
  PROVE  TypeOK' /\ UNCHANGED <<slaveVars, pc, tx>>
  <1> USE LinuxAssumption
  <1>1. TypeOK /\ line \in Seq(Byte)
    BY DEF HostInv, TypeOK
  <1>2. ASSUME UNCHANGED slaveVars PROVE SlaveTypeOK'
    BY <1>1, <1>2 DEF TypeOK, SlaveTypeOK, CtxTypeOK, slaveVars, ctxVars, storeVars
  <1>3. ASSUME NEW request \in Traffic, Send(request)
        PROVE  TypeOK' /\ UNCHANGED <<slaveVars, pc, tx>>
    <2>1. line' \in Seq(Byte)
      BY <1>3, FrameIsBytes DEF Send
    <2>2. sent' \in Seq(Traffic) /\ Len(sent') <= MaxRequests
      <3>1. sent \in Seq(Traffic) /\ Len(sent) \in Nat
        BY <1>1 DEF TypeOK
      <3>2. sent' = Append(sent, request) /\ Len(sent) < MaxRequests
        BY <1>3 DEF Send
      <3>3. sent' \in Seq(Traffic) /\ Len(sent') = Len(sent) + 1
        BY <3>1, <3>2, AppendProperties
      <3> QED BY <3>1, <3>2, <3>3
    <2>3. clean' \in BOOLEAN /\ answered' \in BOOLEAN
      BY <1>3 DEF Send, Idle
    <2>4. UNCHANGED <<slaveVars, rx, tx, elapsed, pc, damage>>
      BY <1>3 DEF Send, hostVars
    <2> QED BY <1>1, <1>2, <2>1, <2>2, <2>3, <2>4 DEF TypeOK
  <1>4. CASE Lose
    <2>1. line' \in Seq(Byte)
      BY <1>1, <1>4, HeadTailProperties DEF Lose
    <2>2. damage' \in 0 .. MaxFaults /\ clean' \in BOOLEAN
      <3>1. damage \in 0 .. MaxFaults /\ clean \in BOOLEAN
        BY <1>1 DEF TypeOK
      <3>2. damage' = damage \/ (damage' = damage + 1 /\ damage < MaxFaults)
        BY <1>4 DEF Lose
      <3>3. clean' = clean \/ clean' = FALSE
        BY <1>4 DEF Lose
      <3>4. damage' \in 0 .. MaxFaults
        BY <3>1, <3>2
      <3> QED BY <3>1, <3>3, <3>4, Zenon
    <2>3. UNCHANGED <<slaveVars, rx, tx, elapsed, pc, sent, answered>>
      BY <1>4 DEF Lose, hostVars
    <2> QED BY <1>1, <1>2, <2>1, <2>2, <2>3 DEF TypeOK
  <1>5. CASE Corrupt
    <2>1. line' \in Seq(Byte)
      <3>1. Len(line) \in Nat /\ line \in [1 .. Len(line) -> Byte]
        BY <1>1, LenProperties, ZenonT(40)
      <3>2. \A b \in Byte : (b + 1) % 256 \in Byte
        OBVIOUS
      <3>3. line' \in [1 .. Len(line) -> Byte]
        BY <1>5, <3>1, <3>2, ZenonT(40) DEF Corrupt
      <3> QED BY <3>1, <3>3, FunctionIsSeq, ZenonT(40)
    <2>2. damage' \in 0 .. MaxFaults /\ clean' \in BOOLEAN
      <3>1. damage \in 0 .. MaxFaults /\ clean \in BOOLEAN
        BY <1>1 DEF TypeOK
      <3>2. damage' = damage \/ (damage' = damage + 1 /\ damage < MaxFaults)
        BY <1>5 DEF Corrupt
      <3>3. clean' = clean \/ clean' = FALSE
        BY <1>5 DEF Corrupt
      <3>4. damage' \in 0 .. MaxFaults
        BY <3>1, <3>2
      <3> QED BY <3>1, <3>3, <3>4, Zenon
    <2>3. UNCHANGED <<slaveVars, rx, tx, elapsed, pc, sent, answered>>
      BY <1>5 DEF Corrupt, hostVars
    <2> QED BY <1>1, <1>2, <2>1, <2>2, <2>3 DEF TypeOK
  <1>6. CASE Tick
    <2>1. damage' \in 0 .. MaxFaults /\ clean' \in BOOLEAN
      <3>1. damage \in 0 .. MaxFaults /\ clean \in BOOLEAN
        BY <1>1 DEF TypeOK
      <3>2. damage' = damage \/ (damage' = damage + 1 /\ damage < MaxFaults)
        BY <1>6 DEF Tick
      <3>3. clean' = clean \/ clean' = FALSE
        BY <1>6 DEF Tick
      <3>4. damage' \in 0 .. MaxFaults
        BY <3>1, <3>2
      <3> QED BY <3>1, <3>3, <3>4, Zenon
    <2>2. elapsed' \in Int /\ elapsed' <= CharTimeout
      BY <1>1, <1>6 DEF Tick, TypeOK
    <2>3. UNCHANGED <<slaveVars, line, rx, tx, pc, sent, answered>>
      BY <1>6 DEF Tick
    <2> QED BY <1>1, <1>2, <2>1, <2>2, <2>3 DEF TypeOK
  <1>7. ASSUME NEW jump \in ClockSteps, StepClock(jump)
        PROVE  TypeOK' /\ UNCHANGED <<slaveVars, pc, tx>>
    <2>1. damage' \in 0 .. MaxFaults /\ clean' \in BOOLEAN
      <3>1. damage \in 0 .. MaxFaults /\ clean \in BOOLEAN
        BY <1>1 DEF TypeOK
      <3>2. damage' = damage \/ (damage' = damage + 1 /\ damage < MaxFaults)
        BY <1>7 DEF StepClock
      <3>3. clean' = clean \/ clean' = FALSE
        BY <1>7 DEF StepClock
      <3>4. damage' \in 0 .. MaxFaults
        BY <3>1, <3>2
      <3> QED BY <3>1, <3>3, <3>4, Zenon
    <2>2. elapsed' \in Int /\ elapsed' <= CharTimeout
      BY <1>1, <1>7 DEF StepClock, TypeOK
    <2>3. UNCHANGED <<slaveVars, line, rx, tx, pc, sent, answered>>
      BY <1>7 DEF StepClock
    <2> QED BY <1>1, <1>2, <2>1, <2>2, <2>3 DEF TypeOK
  <1> QED BY <1>3, <1>4, <1>5, <1>6, <1>7

(* The bytes of the port go to the receive buffer as far as they fit. *)
LEMMA RunIOType ==
  ASSUME HostInv, NEW n \in 0 .. Len(line), RunIO(n)
  PROVE  TypeOK'
  <1> USE LinuxAssumption
  <1>1. TypeOK /\ line \in Seq(Byte) /\ rx \in Seq(Byte) /\ Len(line) \in Nat
    BY LenProperties DEF HostInv, TypeOK
  <1>2. SlaveTypeOK'
    BY <1>1 DEF RunIO, TypeOK, SlaveTypeOK, CtxTypeOK, slaveVars, ctxVars, storeVars
  <1>3. rx' \in Seq(Byte) /\ Len(rx') <= RxCap
    <2>0. 1 \in Nat \ {0}
      OBVIOUS
    <2>1. SubSeq(line, 1, n) \in Seq(Byte)
      BY <1>1, <2>0, PartOfBytes, Zenon
    <2>2. rx \o SubSeq(line, 1, n) \in Seq(Byte)
      BY <1>1, <2>1, ConcatProperties, ZenonT(40)
    <2> QED BY <2>2, TruncateBytes DEF RunIO
  <1>4. line' \in Seq(Byte)
    <2>1. n + 1 \in Nat \ {0} /\ Len(line) \in 0 .. Len(line)
      BY <1>1
    <2>2. SubSeq(line, n + 1, Len(line)) \in Seq(Byte)
      BY <1>1, <2>1, PartOfBytes
    <2> QED BY <2>2 DEF RunIO
  <1>5. tx' = << >> /\ tx' \in Seq(Byte) /\ Len(tx') <= TxCap
    BY EmptySeq DEF RunIO
  <1>6. clean' \in BOOLEAN /\ pc' = "packet"
    BY <1>1 DEF RunIO, TypeOK
  <1>7. UNCHANGED <<elapsed, sent, damage, answered>>
    BY DEF RunIO
  <1> QED BY <1>1, <1>2, <1>3, <1>4, <1>5, <1>6, <1>7 DEF TypeOK

-----------------------------------------------------------------------------
(* A response is at most one byte longer than its array. *)
Sendable(r) == Len(r.data) <= r.length /\ r.length <= 257

(* Processing a packet meets no assertion and leaves a response to send. *)
LEMMA ProcessStaysInArray ==
  ASSUME CrcIsWord, SlaveInv, LoopInv, ProcessMessage(TRUE) \/ ProcessOversized(TRUE)
  PROVE  "assert" \notin faults' /\ Sendable(response')
  <1>1. "assert" \notin faults /\ Sendable(response)
    BY DEF LoopInv, Sendable
  <1>2. CASE ProcessOversized(TRUE)
    BY <1>1, <1>2 DEF ProcessOversized
  <1>3. CASE ProcessMessage(TRUE)
    <2>1. PacketReceived
      BY <1>3 DEF ProcessMessage
    <2>2. CASE UNCHANGED <<response, response_valid, faults, holding, flags, unseen>>
      BY <1>1, <2>2
    <2>3. CASE ValidateMessage(frame) = kAck /\ RunCommand(frame) /\ FitsResponse(frame)
      BY <1>1, <2>1, <2>3, RunCommandTyped DEF Sendable
    <2>4. CASE ValidateMessage(frame) # kAck /\ SendErrorResponse(frame, ValidateMessage(frame))
      <3>1. ValidateMessage(frame) \in Byte
        <4>1. ValidateMessage(frame) = Verdict(frame)
          BY <2>1, VerdictExact DEF SlaveInv
        <4>2. Verdict(frame) \in {1, 2, 3, 5}
          BY DEF Verdict, kAck, kIllegalFunction, kIllegalDataAddress, kIllegalDataValue
        <4> QED BY <4>1, <4>2
      <3>2. PICK data \in Seq(Byte) : response' = [length |-> 5, data |-> data] /\ Len(data) = 5
        BY <2>1, <2>4, <3>1, RefusalReply DEF SlaveInv
      <3>3. response'.data = data /\ response'.length = 5
        BY <3>2
      <3>4. Len(response'.data) = 5
        BY <3>2, <3>3, Zenon
      <3>5. faults' = faults
        BY <2>4 DEF SendErrorResponse
      <3> QED BY <1>1, <3>3, <3>4, <3>5 DEF Sendable
    <2> QED BY <1>3, <2>2, <2>3, <2>4, ProcessCases
  <1> QED BY <1>2, <1>3

(* The bytes Run queues for a response: its own, and behind them what lies *)
(* after the array when the response is longer.                            *)
Queued(bytes) ==
    /\ tx' = Truncate(tx \o bytes, TxCap)
    /\ replies' = Append(replies, bytes)
    /\ Len(bytes) = response.length
    /\ \A i \in 1 .. Len(response.data) : bytes[i] = response.data[i]

(* What iodev_.write is given, if anything. *)
LEMMA ResponseWritten ==
  ASSUME HostInv, WriteResponse
  PROVE  \/ ~response_valid /\ UNCHANGED <<tx, replies, answered>>
         \/ response_valid /\ answered' = TRUE /\ \E bytes \in Seq(Byte) : Queued(bytes)
  <1>1. CASE ~response_valid
    BY <1>1 DEF WriteResponse
  <1>2. CASE response_valid
    <2>1. response.data \in Seq(Byte) /\ response.length \in Nat
      BY DEF HostInv, TypeOK, SlaveTypeOK, ResponseType
    <2>2. PICK l \in Nat, m \in Nat : l = response.length /\ m = Len(response.data)
      BY <2>1, LenProperties
    <2>3. PICK n \in Nat : n = l - m /\ m + n = l
      <3>1. m <= l
        BY <2>2 DEF HostInv, LoopInv
      <3> QED BY <3>1
    <2>4. /\ answered' = TRUE
          /\ \E rest \in [1 .. n -> Byte] :
                /\ tx' = Truncate(tx \o (response.data \o rest), TxCap)
                /\ replies' = Append(replies, response.data \o rest)
      BY <1>2, <2>2, <2>3 DEF WriteResponse
    <2>5. PICK rest \in [1 .. n -> Byte] :
             /\ tx' = Truncate(tx \o (response.data \o rest), TxCap)
             /\ replies' = Append(replies, response.data \o rest)
      BY <2>4
    <2>6. rest \in Seq(Byte) /\ Len(rest) = n
      BY FunctionIsSeq
    <2>7. /\ response.data \o rest \in Seq(Byte)
          /\ IsJoin(response.data \o rest, response.data, rest, m, n)
      BY <2>1, <2>2, <2>6, Joined
    <2>8. Queued(response.data \o rest)
      BY <2>2, <2>3, <2>5, <2>7 DEF IsJoin, Queued
    <2> QED BY <1>2, <2>4, <2>7, <2>8
  <1> QED BY <1>1, <1>2

(* Every step keeps the host's types. *)
LEMMA HostTypeStep ==
  ASSUME CrcIsWord, HostInv, Next
  PROVE  TypeOK'
  <1> USE LinuxAssumption
  <1>1. TypeOK /\ rx \in Seq(Byte) /\ tx \in Seq(Byte)
    BY DEF HostInv, TypeOK
  <1>2. SlaveTypeOK'
    BY HostStepIsSlaveStep, SlaveInvStep DEF HostInv, SlaveInv
  <1>3. CASE RunPacket
    <2>1. UNCHANGED <<line, rx, tx, elapsed, sent, damage, clean, answered>>
      BY <1>3 DEF RunPacket, envVars, histVars
    <2>2. pc' \in {"reply", "char"}
      BY <1>3 DEF RunPacket
    <2> QED BY <1>1, <1>2, <2>1, <2>2 DEF TypeOK
  <1>4. CASE RunReply
    <2>1. tx' \in Seq(Byte) /\ Len(tx') <= TxCap
      <3>1. CASE response_valid
        <4>1. PICK bytes \in Seq(Byte) : Queued(bytes)
          BY <1>4, <3>1, ResponseWritten DEF RunReply
        <4>2. tx \o bytes \in Seq(Byte)
          BY <1>1, <4>1, ConcatProperties, ZenonT(40)
        <4> QED BY <4>1, <4>2, TruncateBytes, ZenonT(40) DEF Queued
      <3>2. CASE ~response_valid
        BY <1>1, <1>4, <3>2 DEF RunReply, WriteResponse, TypeOK
      <3> QED BY <3>1, <3>2
    <2>2. answered' \in BOOLEAN /\ pc' = "char"
      BY <1>1, <1>4, ResponseWritten DEF RunReply, TypeOK
    <2>3. UNCHANGED <<line, rx, elapsed, sent, damage, clean>>
      BY <1>4 DEF RunReply, envVars
    <2> QED BY <1>1, <1>2, <2>1, <2>2, <2>3 DEF TypeOK
  <1>5. CASE RunChar
    <2>1. rx' \in Seq(Byte) /\ Len(rx') <= RxCap
      <3>1. CASE rx # << >>
        <4>1. rx' = Tail(rx)
          BY <1>5, <3>1 DEF RunChar
        <4>2. Tail(rx) \in Seq(Byte) /\ Len(Tail(rx)) = Len(rx) - 1
          BY <1>1, <3>1, HeadTailProperties
        <4>3. Len(rx) \in Nat /\ Len(rx) <= RxCap
          BY <1>1 DEF TypeOK
        <4> QED BY <4>1, <4>2, <4>3
      <3>2. CASE rx = << >>
        BY <1>1, <1>5, <3>2 DEF RunChar, TypeOK
      <3> QED BY <3>1, <3>2
    <2>2. elapsed' \in Int /\ elapsed' <= CharTimeout /\ pc' = "io"
      BY <1>1, <1>5 DEF RunChar, TypeOK
    <2>3. UNCHANGED <<line, tx, sent, damage, clean, answered>>
      BY <1>5 DEF RunChar, envVars, histVars
    <2> QED BY <1>1, <1>2, <2>1, <2>2, <2>3 DEF TypeOK
  <1> QED BY <1>3, <1>4, <1>5, EnvironmentKeepsType, RunIOType DEF Next, Run

(* Every step keeps the order of the loop. *)
LEMMA LoopInvStep ==
  ASSUME CrcIsWord, HostInv, Next
  PROVE  LoopInv'
  <1>1. ASSUME UNCHANGED <<slaveVars, pc, tx, replies>> PROVE LoopInv'
    BY <1>1 DEF HostInv, LoopInv, PacketReceived, slaveVars, ctxVars
  <1>2. CASE \/ \E request \in Traffic : Send(request)
             \/ Lose \/ Corrupt \/ Tick
             \/ \E jump \in ClockSteps : StepClock(jump)
    <2>1. replies' = replies
      BY <1>2 DEF Send, Lose, Corrupt, Tick, StepClock
    <2> QED BY <1>1, <1>2, <2>1, EnvironmentKeepsType
  <1>3. ASSUME NEW n \in 0 .. Len(line), RunIO(n) PROVE LoopInv'
    BY <1>3 DEF RunIO, HostInv, LoopInv, slaveVars, ctxVars
  <1>4. CASE RunPacket
    <2>1. CASE PacketReceived
      <3>1. "assert" \notin faults' /\ Sendable(response')
        BY <1>4, <2>1, ProcessStaysInArray DEF RunPacket, HostInv
      <3>2. pc = "packet" /\ pc' = "reply" /\ tx' = tx /\ replies' = replies
        BY <1>4, <2>1 DEF RunPacket, histVars
      <3> QED BY <3>1, <3>2 DEF HostInv, LoopInv, Sendable
    <2>2. CASE ~PacketReceived
      <3>1. /\ pc' = "char" /\ UNCHANGED <<slaveVars, replies>>
        BY <1>4, <2>2 DEF RunPacket, histVars
      <3> QED BY <2>2, <3>1 DEF HostInv, LoopInv, PacketReceived, slaveVars, ctxVars
    <2> QED BY <2>1, <2>2
  <1>5. CASE RunReply
    <2>1. /\ pc' = "char" /\ state' = "kAddress" /\ faults' = faults
          /\ response' = EmptyResponse
      BY <1>5 DEF RunReply, Reset, ResetRead
    <2>2. Sendable(EmptyResponse)
      BY DEF EmptyResponse, Sendable
    <2>3. replies' \in Seq(Seq(Byte))
      <3>1. replies \in Seq(Seq(Byte))
        BY DEF HostInv, LoopInv
      <3>2. replies' = replies \/ \E bytes \in Seq(Byte) : replies' = Append(replies, bytes)
        BY <1>5, ResponseWritten DEF RunReply, Queued
      <3>3. \A bytes \in Seq(Byte) : Append(replies, bytes) \in Seq(Seq(Byte))
        BY <3>1, AppendProperties, Zenon
      <3> QED BY <3>1, <3>2, <3>3, Zenon
    <2> QED BY <2>1, <2>2, <2>3 DEF HostInv, LoopInv, PacketReceived, Sendable
  <1>6. CASE RunChar
    <2>1. pc' = "io" /\ replies' = replies /\ state # "kDone"
      BY <1>6 DEF RunChar, HostInv, LoopInv, PacketReceived, histVars
    <2>2. /\ "assert" \notin faults' /\ Sendable(response')
      <3>1. "assert" \notin faults /\ Sendable(response)
        BY DEF HostInv, LoopInv, Sendable
      <3>2. CASE UNCHANGED slaveVars
        BY <3>1, <3>2 DEF slaveVars, ctxVars
      <3>3. CASE Reset
        BY <3>1, <3>3 DEF Reset, ResetRead, EmptyResponse, Sendable
      <3>4. ASSUME NEW pt, ReceiveCharacter(pt)
            PROVE  "assert" \notin faults' /\ Sendable(response')
        <4>1. response' = response
          BY <3>4 DEF ReceiveCharacter
        <4>2. faults' = faults \/ faults' = faults \cup {"overrun"}
          BY <2>1, <3>4 DEF ReceiveCharacter, ProcessCharacter, AddressByte, FunctionByte,
                            MetaByte, DataByte, DoneByte, Store
        <4> QED BY <3>1, <4>1, <4>2
      <3> QED BY <1>6, <3>2, <3>3, <3>4 DEF RunChar
    <2> QED BY <2>1, <2>2 DEF HostInv, LoopInv, Sendable
  <1> QED BY <1>2, <1>3, <1>4, <1>5, <1>6 DEF Next, Run

(* The host starts with empty buffers. *)
LEMMA HostInvInit == Init => HostInv
  <1> SUFFICES ASSUME Init PROVE HostInv
    OBVIOUS
  <1> USE LinuxAssumption
  <1>1. SlaveInv
    BY SlaveInvInit DEF Init
  <1>2. \A S : << >> \in Seq(S)
    BY EmptySeq
  <1>3. Len(<< >>) = 0
    OBVIOUS
  <1>4. TypeOK
    <2>1. << >> \in Seq(Byte) /\ << >> \in Seq(Traffic)
      BY <1>2
    <2>2. /\ line \in Seq(Byte) /\ rx \in Seq(Byte) /\ tx \in Seq(Byte)
          /\ sent \in Seq(Traffic)
      BY <2>1, Zenon DEF Init
    <2>3. Len(rx) <= RxCap /\ Len(tx) <= TxCap /\ Len(sent) <= MaxRequests
      BY <1>3 DEF Init
    <2>4. /\ elapsed \in Int /\ elapsed <= CharTimeout /\ damage \in 0 .. MaxFaults
          /\ pc \in {"io", "packet", "reply", "char"}
      BY DEF Init
    <2>5. clean \in BOOLEAN /\ answered \in BOOLEAN
      BY DEF Init
    <2> QED BY <1>1, <2>2, <2>3, <2>4, <2>5, Zenon DEF TypeOK, SlaveInv
  <1>5. /\ faults = {} /\ response.data = << >> /\ response.length = 0
        /\ state = "kAddress"
    BY DEF Init, SlaveInit, CtxInit, EmptyResponse
  <1>6. LoopInv
    BY <1>2, <1>3, <1>5 DEF Init, LoopInv
  <1> QED BY <1>1, <1>4, <1>6 DEF HostInv

(* HostInv is inductive. *)
LEMMA HostInvStep ==
  ASSUME CrcIsWord, HostInv, [Next]_vars
  PROVE  HostInv'
  <1>1. CASE Next
    BY <1>1, HostTypeStep, LoopInvStep, HostStepIsSlaveStep, SlaveInvStep DEF HostInv
  <1>2. CASE UNCHANGED vars
    <2>1. UNCHANGED <<slaveVars, hostVars, envVars, histVars>>
      BY <1>2 DEF vars
    <2>2. SlaveInv'
      BY HostStepIsSlaveStep, SlaveInvStep DEF HostInv
    <2>3. TypeOK'
      BY <2>1, <2>2 DEF HostInv, TypeOK, SlaveInv, hostVars, envVars, histVars
    <2>4. LoopInv'
      BY <2>1 DEF HostInv, LoopInv, PacketReceived, slaveVars, ctxVars, hostVars, histVars
    <2> QED BY <2>2, <2>3, <2>4 DEF HostInv
  <1> QED BY <1>1, <1>2

(* The inductive invariant holds in every state of the host loop, whatever the
   masters and the line do. *)
LEMMA HostInvAlways == ASSUME CrcIsWord PROVE Spec => []HostInv
  <1>1. HostInv /\ [Next]_vars => HostInv'
    BY HostInvStep
  <1> QED BY <1>1, HostInvInit, PTL DEF Spec

(* Run, UartController's buffers and the time stamp keep their types and   *)
(* bounds, whatever is sent, lost, damaged or delayed.                     *)
THEOREM HostTypeCorrect == CrcIsWord => (Spec => []TypeOK)
  <1> SUFFICES ASSUME CrcIsWord PROVE Spec => []TypeOK
    OBVIOUS
  <1>1. HostInv => TypeOK
    BY DEF HostInv
  <1> QED BY <1>1, HostInvAlways, PTL

(* LinuxSlave::Run uses the library as the library may be used: whatever   *)
(* the masters, the line and the clock do, what the slave goes through is  *)
(* a behaviour of ProtocolRtuSlave, so all that is proved of the slave     *)
(* holds behind the serial line.                                           *)
THEOREM HostRunsSlave == CrcIsWord => (Spec => SlaveSpec)
  <1> SUFFICES ASSUME CrcIsWord PROVE Spec => SlaveSpec
    OBVIOUS
  <1>1. Init => SlaveInit
    BY DEF Init
  <1>2. HostInv /\ [Next]_vars => [SlaveNext]_slaveVars
    BY HostStepIsSlaveStep DEF HostInv
  <1> QED BY <1>1, <1>2, HostInvAlways, PTL DEF Spec, SlaveSpec

(* Run never reaches an assert(0) of the receiver or of the response: the  *)
(* only fault a host can meet is the overrun of a request for more         *)
(* registers than the protocol allows.                                     *)
THEOREM HostContractKept ==
  CrcIsWord => (Spec => []("overrun" \notin faults => HostKeepsContract))
  <1> SUFFICES ASSUME CrcIsWord
               PROVE  Spec => []("overrun" \notin faults => HostKeepsContract)
    OBVIOUS
  <1>1. HostInv => ("overrun" \notin faults => HostKeepsContract)
    BY DEF HostInv, LoopInv, TypeOK, SlaveTypeOK, CtxTypeOK, FaultKind, HostKeepsContract
  <1> QED BY <1>1, HostInvAlways, PTL

(* While nothing was written outside an array now, nothing was before. *)
LEMMA IntactBefore ==
  ASSUME HostInv, [Next]_vars, Intact'
  PROVE  Intact
  <1>1. [SlaveNext]_slaveVars
    BY HostStepIsSlaveStep DEF HostInv
  <1> QED BY <1>1, FaultsStay DEF Intact

(* A transmit buffer that holds a response never cuts one short, and what  *)
(* it holds is always the reply queued last, for stores of every size and  *)
(* up to an overrun: Run has served the buffer before it queues another.   *)
THEOREM QueuedWhole == CrcIsWord /\ TxHoldsReply => (Spec => []ReplyQueuedWhole)
  <1> SUFFICES ASSUME CrcIsWord, TxHoldsReply PROVE Spec => []ReplyQueuedWhole
    OBVIOUS
  <1>1. Init => ReplyQueuedWhole
    BY DEF Init, ReplyQueuedWhole
  <1>2. HostInv /\ ReplyQueuedWhole /\ [Next]_vars => ReplyQueuedWhole'
    <2> SUFFICES ASSUME HostInv, ReplyQueuedWhole, [Next]_vars, Intact', tx' # << >>
                 PROVE  replies' # << >> /\ tx' = replies'[Len(replies')]
      BY DEF ReplyQueuedWhole
    <2>1. CASE UNCHANGED <<tx, replies>>
      BY <2>1, IntactBefore DEF ReplyQueuedWhole
    <2>2. CASE RunReply
      <3>1. CASE response_valid
        <4>1. PICK bytes \in Seq(Byte) : Queued(bytes)
          BY <2>2, <3>1, ResponseWritten DEF RunReply
        <4>2. TxCap \in Nat /\ Len(bytes) <= TxCap
          <5>1. Len(bytes) = response.length /\ response.length <= 257
            BY <4>1 DEF Queued, HostInv, LoopInv
          <5>2. TxCap >= 257 /\ TxCap \in Nat
            BY LinuxAssumption DEF TxHoldsReply
          <5>3. Len(bytes) \in Nat
            BY LenProperties
          <5> QED BY <5>1, <5>2, <5>3
        <4>3. tx = << >>
          BY <2>2 DEF RunReply, HostInv, LoopInv
        <4>4. tx' = bytes
          <5>1. Truncate(<< >> \o bytes, TxCap) = bytes
            BY <4>2, TruncateWhole
          <5> QED BY <4>1, <4>3, <5>1, Zenon DEF Queued
        <4>5. replies \in Seq(Seq(Byte))
          BY DEF HostInv, LoopInv
        <4>6. /\ Append(replies, bytes) # << >>
              /\ Append(replies, bytes)[Len(Append(replies, bytes))] = bytes
          <5> DEFINE S == Seq(Byte)
          <5>1. replies \in Seq(S) /\ bytes \in S
            BY <4>5
          <5> HIDE DEF S
          <5> QED BY <5>1, AppendProperties
        <4>7. replies' = Append(replies, bytes)
          BY <4>1 DEF Queued
        <4> QED BY <4>4, <4>6, <4>7, Zenon
      <3>2. CASE ~response_valid
        BY <2>1, <2>2, <3>2 DEF RunReply, WriteResponse
      <3> QED BY <3>1, <3>2
    <2>3. ASSUME NEW n \in 0 .. Len(line), RunIO(n) PROVE FALSE
      BY <2>3 DEF RunIO
    <2>4. CASE RunPacket \/ RunChar
      BY <2>1, <2>4 DEF RunPacket, RunChar, histVars
    <2>5. CASE \/ \E request \in Traffic : Send(request)
               \/ Lose \/ Corrupt \/ Tick
               \/ \E jump \in ClockSteps : StepClock(jump)
      BY <2>1, <2>5 DEF Send, Lose, Corrupt, Tick, StepClock, hostVars
    <2>6. CASE UNCHANGED vars
      BY <2>1, <2>6 DEF vars, hostVars, histVars
    <2> QED BY <2>2, <2>3, <2>4, <2>5, <2>6 DEF Next, Run
  <1> QED BY <1>1, <1>2, HostInvAlways, PTL DEF Spec

(* On a bus with any traffic, line and clock the whole program, loop and   *)
(* slave together, implements the register server up to the first overrun, *)
(* for stores of every size, as long as no master reads more registers at  *)
(* once than the protocol lets it: the loop's own steps are nothing to the *)
(* server, and its order of the checks is what the slave needs.            *)
THEOREM HostServes == CrcIsWord => (Spec /\ []ReadsFit => ServesRegisters)
  <1> SUFFICES ASSUME CrcIsWord PROVE Spec /\ []ReadsFit => ServesRegisters
    OBVIOUS
  <1>1. Spec => SlaveSpec
    BY HostRunsSlave
  <1>2. SlaveSpec /\ []ReadsFit => ServesRegisters
    BY ServesCorrect
  <1> QED BY <1>1, <1>2, PTL

-----------------------------------------------------------------------------
(* What the replies and the registers owe to the requests sent, up to the  *)
(* strength of the CRC.                                                    *)

(* The header and the data of a frame in its bytes. *)
LEMMA HeaderBytes ==
  ASSUME NEW f \in FrameType
  PROVE  /\ FrameBytes(f) \in Seq(Byte) /\ Len(FrameBytes(f)) = 2 + Len(f.data)
         /\ FrameBytes(f)[1] = f.address /\ FrameBytes(f)[2] = f.function
         /\ \A j \in 1 .. Len(f.data) : FrameBytes(f)[2 + j] = f.data[j]
  <1>1. f.address \in Byte /\ f.function \in Byte /\ f.data \in Seq(Byte)
    BY DEF FrameType
  <1>2. PICK head \in Seq(Byte) : /\ head = <<f.address, f.function>> /\ Len(head) = 2
                                  /\ head[1] = f.address /\ head[2] = f.function
    <2>1. PICK a \in Byte, b \in Byte : a = f.address /\ b = f.function
      BY <1>1
    <2>2. <<a, b>> \in Seq(Byte) /\ Len(<<a, b>>) = 2 /\ <<a, b>>[1] = a /\ <<a, b>>[2] = b
      OBVIOUS
    <2> QED BY <2>1, <2>2, Zenon
  <1>3. head \o f.data \in Seq(Byte) /\ IsJoin(head \o f.data, head, f.data, 2, Len(f.data))
    BY <1>1, <1>2, Joined, ZenonT(40)
  <1>4. FrameBytes(f) = head \o f.data
    BY <1>2 DEF FrameBytes
  <1>5. FrameBytes(f) \in Seq(Byte) /\ IsJoin(FrameBytes(f), head, f.data, 2, Len(f.data))
    BY <1>3, <1>4
  <1>6. 1 \in 1 .. 2 /\ 2 \in 1 .. 2
    OBVIOUS
  <1> QED BY <1>2, <1>5, <1>6 DEF IsJoin

(* The CRC follows the bytes of a request. *)
LEMMA FramedBytes ==
  ASSUME CrcIsWord, NEW request \in FrameType
  PROVE  IsJoin(Frame(request), FrameBytes(request), CrcBytes(FrameBytes(request)),
                Len(FrameBytes(request)), 2)
  <1>1. FrameBytes(request) \in Seq(Byte)
    BY HeaderBytes
  <1>2. Crc(FrameBytes(request)) \in Word
    BY <1>1 DEF CrcIsWord
  <1>3. PICK high \in Byte, low \in Byte : CrcBytes(FrameBytes(request)) = <<high, low>>
    BY <1>2, WordBytesExact, Zenon DEF CrcBytes
  <1>4. CrcBytes(FrameBytes(request)) \in Seq(Byte) /\ Len(CrcBytes(FrameBytes(request))) = 2
    BY <1>3
  <1> QED BY <1>1, <1>4, Joined, ZenonT(40) DEF Frame

(* A received frame with the bytes of a request has its address, its       *)
(* function and, before the CRC, its data.                                 *)
LEMMA FrameOfRequest ==
  ASSUME CrcIsWord, NEW f \in FrameType, NEW request \in FrameType,
         FrameBytes(f) = Frame(request)
  PROVE  /\ request.address = f.address /\ request.function = f.function
         /\ Len(f.data) \in Nat /\ Len(request.data) \in Nat
         /\ Len(f.data) = Len(request.data) + 2
         /\ \A j \in 1 .. Len(request.data) : request.data[j] = f.data[j]
  <1>1. PICK n \in Nat, m \in Nat : n = Len(f.data) /\ m = Len(request.data)
    BY LenProperties DEF FrameType
  <1> DEFINE B == FrameBytes(f)
             C == FrameBytes(request)
  <1>2. /\ Len(B) = 2 + n /\ B[1] = f.address /\ B[2] = f.function
        /\ \A j \in 1 .. n : B[2 + j] = f.data[j]
    BY <1>1, HeaderBytes
  <1>3. /\ Len(C) = 2 + m /\ C[1] = request.address /\ C[2] = request.function
        /\ \A j \in 1 .. m : C[2 + j] = request.data[j]
    BY <1>1, HeaderBytes
  <1>4. IsJoin(B, C, CrcBytes(C), 2 + m, 2)
    BY <1>3, FramedBytes
  <1> HIDE DEF B, C
  <1>5. Len(B) = 2 + m + 2 /\ \A i \in 1 .. 2 + m : B[i] = C[i]
    BY <1>4 DEF IsJoin
  <1>6. n = m + 2
    BY <1>2, <1>5
  <1>7. 1 \in 1 .. 2 + m /\ 2 \in 1 .. 2 + m /\ \A j \in 1 .. m : 2 + j \in 1 .. 2 + m /\ j \in 1 .. n
    BY <1>6
  <1>8. B[1] = C[1] /\ B[2] = C[2] /\ \A j \in 1 .. m : B[2 + j] = C[2 + j]
    BY <1>5, <1>7
  <1>9. \A j \in 1 .. m : request.data[j] = f.data[j]
    BY <1>2, <1>3, <1>7, <1>8
  <1> QED BY <1>1, <1>2, <1>3, <1>6, <1>8, <1>9

(* An accepted write names the registers, with the values, that the        *)
(* request it came from named: the CRC bytes are never taken for data.     *)
LEMMA WritesOfRequest ==
  ASSUME CrcIsWord, SlaveInv, PacketReceived, ValidateMessage(frame) = kAck,
         frame.function \in {6, 16}, NEW request \in FrameType,
         FrameBytes(frame) = Frame(request)
  PROVE  /\ WrittenBy(request) = WrittenBy(frame)
         /\ \A a \in WrittenBy(frame) : ValueFor(request, a) = ValueFor(frame, a)
  <1> USE DEF kReadMultipleHoldingRegisters, kReadInputRegisters,
              kWriteSingleHoldingRegister, kWriteMultipleHoldingRegisters
  <1>1. frame \in FrameType /\ FramingInv /\ frame.function \in ImplementedFunctions
    <2>1. FramingInv
      BY DEF SlaveInv
    <2>2. frame \in FrameType
      BY <2>1 DEF FramingInv, CtxTypeOK
    <2>3. frame.function \in ImplementedFunctions
      BY DEF ImplementedFunctions
    <2> QED BY <2>1, <2>2, <2>3
  <1>2. PICK m \in Nat : m = Len(request.data) /\ Len(frame.data) = m + 2
    BY <1>1, FrameOfRequest
  <1>3. /\ request.function = frame.function
        /\ \A j \in 1 .. m : request.data[j] = frame.data[j]
    BY <1>1, <1>2, FrameOfRequest
  <1>4. m >= 4
    <2>1. Len(frame.data) >= 6
      BY <1>1, CompleteFrame
    <2> QED BY <1>2, <2>1
  <1>5. /\ request.data[1] = frame.data[1] /\ request.data[2] = frame.data[2]
        /\ request.data[3] = frame.data[3] /\ request.data[4] = frame.data[4]
    BY <1>3, <1>4
  <1>6. ReadAddressStart(request.data) = First /\ ReadRegisterCount(request.data) = Count
    BY <1>5 DEF ReadAddressStart, ReadRegisterCount, First, Count
  <1>7. WrittenBy(request) = WrittenBy(frame)
    BY <1>3, <1>6 DEF WrittenBy, First, Count
  <1>8. CASE frame.function = 6
    <2>1. \A a : /\ ValueFor(request, a) = 256 * request.data[3] + request.data[3 + 1]
                 /\ ValueFor(frame, a) = 256 * frame.data[3] + frame.data[3 + 1]
      BY <1>3, <1>8 DEF ValueFor
    <2>2. 3 + 1 = 4
      OBVIOUS
    <2> QED BY <1>5, <1>7, <2>1, <2>2
  <1>9. CASE frame.function = 16
    <2>1. First \in Nat /\ Count \in Nat
      <3>1. First \in Word /\ Count \in Word
        BY <1>1, FieldsAreWords DEF First, Count
      <3> QED BY <3>1, MaxWordNat DEF Word
    <2>2. frame.data[5] = 2 * Count
      <3>1. Verdict(frame) = kAck
        BY <1>1, VerdictExact
      <3>2. Verdict(frame) = IF ~InRange(HoldingCount, First, Count)
                             THEN kIllegalDataAddress
                             ELSE IF frame.data[5] # 2 * Count
                             THEN kIllegalDataValue ELSE kAck
        BY <1>1, <1>9 DEF Verdict, First, Count, ReadDataByteCount
      <3> QED BY <3>1, <3>2 DEF kAck, kIllegalDataAddress, kIllegalDataValue
    <2>3. m >= 5 + 2 * Count
      <3>1. Len(frame.data) >= 7 + frame.data[5]
        BY <1>1, <1>9, CompleteFrame
      <3> QED BY <1>2, <2>1, <2>2, <3>1
    <2>4. ASSUME NEW a \in First .. First + Count - 1
          PROVE  ValueFor(request, a) = ValueFor(frame, a)
      <3>1. PICK k \in 0 .. Count - 1 : k = a - First
        BY <2>1
      <3>2. 6 + 2 * k \in 1 .. m /\ (6 + 2 * k) + 1 \in 1 .. m
        BY <2>1, <2>3, <3>1
      <3>3. /\ request.data[6 + 2 * k] = frame.data[6 + 2 * k]
            /\ request.data[(6 + 2 * k) + 1] = frame.data[(6 + 2 * k) + 1]
        BY <1>3, <3>2
      <3>4. ValueFor(frame, a) = 256 * frame.data[6 + 2 * k] + frame.data[(6 + 2 * k) + 1]
        BY <1>9, <3>1 DEF ValueFor, First
      <3>5. ValueFor(request, a) = 256 * request.data[6 + 2 * k] + request.data[(6 + 2 * k) + 1]
        BY <1>3, <1>6, <1>9, <3>1 DEF ValueFor
      <3> QED BY <3>3, <3>4, <3>5, Zenon
    <2>5. WrittenBy(frame) = First .. First + Count - 1
      BY <1>9, WrittenCases DEF First, Count
    <2> QED BY <1>7, <2>4, <2>5
  <1> QED BY <1>8, <1>9

(* The requests sent stay in their places. *)
LEMMA SentKept ==
  ASSUME HostInv, [Next]_vars, NEW i \in 1 .. Len(sent)
  PROVE  i \in 1 .. Len(sent') /\ sent'[i] = sent[i]
  <1>1. CASE UNCHANGED sent
    BY <1>1
  <1>2. ASSUME NEW request \in Traffic, Send(request)
        PROVE  i \in 1 .. Len(sent') /\ sent'[i] = sent[i]
    <2>1. sent \in Seq(Traffic) /\ sent' = Append(sent, request)
      BY <1>2 DEF HostInv, TypeOK, Send
    <2>2. PICK n \in Nat : n = Len(sent)
      BY <2>1, LenProperties
    <2>3. Len(sent') = n + 1 /\ sent'[i] = sent[i]
      BY <2>1, <2>2, AppendProperties
    <2> QED BY <2>2, <2>3
  <1> QED BY <1>1, <1>2 DEF Next, Run, Lose, Corrupt, Tick, StepClock, RunIO, RunPacket,
                            RunReply, RunChar, envVars, vars

(* Only the packet step touches the registers. *)
LEMMA OnlyPacketWrites ==
  ASSUME [Next]_vars
  PROVE  holding' = holding \/ (ProcessMessage(TRUE) /\ UNCHANGED sent)
  <1>1. CASE RunPacket
    <2>1. CASE ProcessOversized(TRUE)
      BY <2>1 DEF ProcessOversized, storeVars
    <2>2. UNCHANGED slaveVars => holding' = holding
      BY DEF slaveVars, storeVars
    <2>3. UNCHANGED sent
      BY <1>1 DEF RunPacket, envVars
    <2>4. ProcessMessage(TRUE) \/ ProcessOversized(TRUE) \/ UNCHANGED slaveVars
      BY <1>1 DEF RunPacket
    <2> QED BY <2>1, <2>2, <2>3, <2>4
  <1>2. CASE RunReply \/ RunChar
    <2>1. Reset \/ UNCHANGED slaveVars \/ \E pt \in {Head(rx)} : ReceiveCharacter(pt)
      BY <1>2 DEF RunReply, RunChar
    <2> QED BY <2>1 DEF Reset, ReceiveCharacter, slaveVars, storeVars
  <1>3. CASE UNCHANGED slaveVars
    BY <1>3 DEF slaveVars, storeVars
  <1>4. CASE UNCHANGED vars
    BY <1>3, <1>4 DEF vars
  <1> QED BY <1>1, <1>2, <1>3, <1>4 DEF Next, Run, Send, Lose, Corrupt, Tick, StepClock, RunIO

(* What the host keeps between the packet and its reply: the address given *)
(* at start-up, and with a valid response the accepted packet it is for.   *)
PacketHeld ==
    /\ slave_address = OwnAddress
    /\ response_valid => pc = "reply" /\ Accepted(TRUE)

(* A valid response is there only until Run queues it. *)
LEMMA PacketHeldStep ==
  ASSUME PacketHeld, [Next]_vars
  PROVE  PacketHeld'
  <1>1. CASE UNCHANGED <<slaveVars, pc>>
    BY <1>1 DEF PacketHeld, Accepted, PacketReceived, slaveVars, ctxVars
  <1>2. CASE response_valid' = FALSE /\ slave_address' = slave_address
    BY <1>2 DEF PacketHeld
  <1>3. CASE RunPacket
    <2>1. pc = "packet" /\ ~response_valid
      BY <1>3 DEF RunPacket, PacketHeld
    <2>2. CASE ProcessMessage(TRUE)
      <3>1. slave_address' = slave_address /\ pc' = "reply"
        BY <1>3, <2>2 DEF RunPacket, ProcessMessage
      <3>2. UNCHANGED <<state, frame>>
        BY <2>2 DEF ProcessMessage
      <3>3. Accepted(TRUE)' <=> Accepted(TRUE)
        BY <3>1, <3>2 DEF Accepted, PacketReceived
      <3>4. response_valid' => ~Ignored(TRUE)
        BY <2>1, <2>2 DEF ProcessMessage
      <3>5. response_valid' => Accepted(TRUE)
        BY <2>2, <3>4, AcceptedNotIgnored
      <3> QED BY <3>1, <3>3, <3>5 DEF PacketHeld
    <2>3. CASE ProcessOversized(TRUE)
      BY <2>1, <2>3 DEF ProcessOversized, PacketHeld
    <2>4. CASE UNCHANGED slaveVars
      BY <2>1, <2>4 DEF slaveVars, PacketHeld
    <2> QED BY <1>3, <2>2, <2>3, <2>4 DEF RunPacket
  <1>4. CASE RunReply
    BY <1>2, <1>4 DEF RunReply, Reset
  <1>5. CASE RunChar
    <2>1. ~response_valid
      BY <1>5 DEF RunChar, PacketHeld
    <2>2. Reset \/ UNCHANGED slaveVars \/ \E pt \in {Head(rx)} : ReceiveCharacter(pt)
      BY <1>5 DEF RunChar
    <2>3. ~response_valid' /\ slave_address' = slave_address
      BY <2>1, <2>2 DEF Reset, ReceiveCharacter, slaveVars
    <2> QED BY <2>3 DEF PacketHeld
  <1>6. ASSUME NEW n \in 0 .. Len(line), RunIO(n) PROVE PacketHeld'
    <2>1. ~response_valid /\ UNCHANGED slaveVars
      BY <1>6 DEF RunIO, PacketHeld
    <2> QED BY <2>1 DEF PacketHeld, slaveVars
  <1>7. CASE UNCHANGED vars
    BY <1>1, <1>7 DEF vars, hostVars
  <1> QED BY <1>1, <1>3, <1>4, <1>5, <1>6, <1>7
          DEF Next, Run, Send, Lose, Corrupt, Tick, StepClock, hostVars

(* An accepted packet is a request sent to this slave. *)
LEMMA AcceptedWasAsked ==
  ASSUME CrcIsWord, HostInv, PacketHeld, AcceptedWasSent, Intact, Accepted(TRUE)
  PROVE  \E i \in 1 .. Len(sent) :
            /\ sent[i] \in FrameType /\ FrameBytes(frame) = Frame(sent[i])
            /\ Asked(i) /\ sent[i].address = frame.address
            /\ sent[i].function = frame.function
  <1>1. PICK i \in 1 .. Len(sent) : FrameBytes(frame) = Frame(sent[i])
    BY DEF AcceptedWasSent
  <1>2. sent[i] \in FrameType
    <2>1. sent \in Seq(Traffic)
      BY DEF HostInv, TypeOK
    <2>2. sent[i] \in Traffic
      BY <2>1, ElementOfSeq
    <2> QED BY <2>2, LinuxAssumption
  <1>3. frame \in FrameType
    <2>1. CtxTypeOK
      BY DEF HostInv, TypeOK, SlaveTypeOK
    <2> QED BY <2>1 DEF CtxTypeOK
  <1>4. sent[i].address = frame.address /\ sent[i].function = frame.function
    BY <1>1, <1>2, <1>3, FrameOfRequest
  <1>5. frame.address = OwnAddress
    BY DEF Accepted, PacketHeld
  <1>6. Asked(i)
    BY <1>4, <1>5 DEF Asked
  <1> QED BY <1>1, <1>2, <1>4, <1>6

(* A register keeps what it owes to a request sent. *)
LEMMA WritesKept ==
  ASSUME HostInv, OnlyRequestedWrites, Intact, [Next]_vars,
         NEW a \in HoldingAddress, holding'[a] = holding[a]
  PROVE  \/ holding'[a] = 0
         \/ \E i \in 1 .. Len(sent') :
               Asked(i)' /\ a \in WrittenBy(sent'[i]) /\ holding'[a] = ValueFor(sent'[i], a)
  <1>1. CASE holding[a] = 0
    BY <1>1
  <1>2. ASSUME NEW i \in 1 .. Len(sent), Asked(i), a \in WrittenBy(sent[i]),
               holding[a] = ValueFor(sent[i], a)
        PROVE  \E j \in 1 .. Len(sent') :
                  Asked(j)' /\ a \in WrittenBy(sent'[j]) /\ holding'[a] = ValueFor(sent'[j], a)
    <2>1. i \in 1 .. Len(sent') /\ sent'[i] = sent[i]
      BY SentKept
    <2>2. Asked(i)'
      BY <1>2, <2>1 DEF Asked
    <2> QED BY <1>2, <2>1, <2>2
  <1> QED BY <1>1, <1>2 DEF OnlyRequestedWrites

(* What a packet does to the registers comes from the request it is. *)
LEMMA PacketWritesRequested ==
  ASSUME CrcIsWord, HostInv, PacketHeld, AcceptedWasSent, OnlyRequestedWrites,
         Intact, [Next]_vars, ProcessMessage(TRUE), UNCHANGED sent
  PROVE  OnlyRequestedWrites'
  <1> USE DEF kReadMultipleHoldingRegisters, kReadInputRegisters,
              kWriteSingleHoldingRegister, kWriteMultipleHoldingRegisters
  <1>1. SlaveInv /\ FramingInv /\ holding \in [HoldingAddress -> Word]
    BY DEF HostInv, SlaveInv, SlaveTypeOK
  <1>2. CASE holding' = holding
    BY <1>2, WritesKept DEF OnlyRequestedWrites
  <1>3. CASE ~Accepted(TRUE)
    <2>1. Ignored(TRUE)
      BY <1>3, AcceptedNotIgnored
    <2>2. holding' = holding
      BY <2>1 DEF ProcessMessage
    <2> QED BY <1>2, <2>2
  <1>4. CASE Accepted(TRUE) /\ Verdict(frame) # kAck
    <2>1. SendErrorResponse(frame, Verdict(frame))
      BY <1>1, <1>4, AcceptedIsRunOrRefused
    <2> QED BY <1>2, <2>1 DEF SendErrorResponse
  <1>5. CASE Accepted(TRUE) /\ Verdict(frame) = kAck
    <2>1. ValidateMessage(frame) = kAck /\ RunCommand(frame) /\ PacketReceived
      BY <1>1, <1>5, AcceptedIsRunOrRefused
    <2>2. frame.function \in ImplementedFunctions
      BY <2>1 DEF ValidateMessage, kAck, kIllegalFunction
    <2>3. CASE frame.function \in {3, 4}
      BY <1>2, <2>1, <2>3, ReadLeavesStore
    <2>4. CASE frame.function \in {6, 16}
      <3>1. holding' = [a \in HoldingAddress |->
                           IF a \in WrittenBy(frame) THEN ValueFor(frame, a) ELSE holding[a]]
        BY <1>1, <2>1, <2>4, WriteStores
      <3>2. PICK i \in 1 .. Len(sent) :
               sent[i] \in FrameType /\ FrameBytes(frame) = Frame(sent[i]) /\ Asked(i)
        BY <1>5, AcceptedWasAsked
      <3>3. /\ WrittenBy(sent[i]) = WrittenBy(frame)
            /\ \A a \in WrittenBy(frame) : ValueFor(sent[i], a) = ValueFor(frame, a)
        BY <1>1, <2>1, <2>4, <3>2, WritesOfRequest
      <3>4. ASSUME NEW a \in HoldingAddress
            PROVE  \/ holding'[a] = 0
                   \/ \E j \in 1 .. Len(sent') :
                         /\ Asked(j)' /\ a \in WrittenBy(sent'[j])
                         /\ holding'[a] = ValueFor(sent'[j], a)
        <4>1. CASE a \notin WrittenBy(frame)
          <5>1. holding'[a] = holding[a]
            BY <3>1, <4>1
          <5> QED BY <5>1, WritesKept
        <4>2. CASE a \in WrittenBy(frame)
          <5>1. holding'[a] = ValueFor(sent[i], a) /\ a \in WrittenBy(sent[i])
            BY <3>1, <3>3, <4>2
          <5>2. Asked(i)'
            BY <3>2 DEF Asked
          <5> QED BY <5>1, <5>2
        <4> QED BY <4>1, <4>2
      <3> QED BY <3>4 DEF OnlyRequestedWrites
    <2> QED BY <2>2, <2>3, <2>4 DEF ImplementedFunctions
  <1> QED BY <1>3, <1>4, <1>5

(* Where every packet the CRC lets through is one that was sent, a holding *)
(* register has only ever the value of a request sent to this slave for    *)
(* that register: neither a cut nor a damaged stream, nor the CRC bytes    *)
(* taken for data, nor a foreign frame becomes a write.                    *)
THEOREM RequestedWrites ==
  CrcIsWord => (Spec /\ []AcceptedWasSent => []OnlyRequestedWrites)
  <1> SUFFICES ASSUME CrcIsWord PROVE Spec /\ []AcceptedWasSent => []OnlyRequestedWrites
    OBVIOUS
  <1>1. Init => PacketHeld /\ OnlyRequestedWrites
    BY DEF Init, SlaveInit, PacketHeld, OnlyRequestedWrites
  <1>2. HostInv /\ AcceptedWasSent /\ PacketHeld /\ OnlyRequestedWrites /\ [Next]_vars
           => PacketHeld' /\ OnlyRequestedWrites'
    <2> SUFFICES ASSUME HostInv, AcceptedWasSent, PacketHeld, OnlyRequestedWrites,
                        [Next]_vars, Intact'
                 PROVE  OnlyRequestedWrites'
      BY PacketHeldStep DEF OnlyRequestedWrites
    <2>2. Intact
      BY IntactBefore
    <2>1. CASE holding' = holding
      BY <2>1, <2>2, WritesKept DEF OnlyRequestedWrites
    <2> QED BY <2>1, <2>2, OnlyPacketWrites, PacketWritesRequested
  <1> QED BY <1>1, <1>2, HostInvAlways, PTL DEF Spec

(* Every reply queued answers a request sent to this slave. *)
RepliesToRequests ==
    \A k \in 1 .. Len(replies) :
        \E i \in 1 .. Len(sent) : Asked(i) /\ Answers(replies[k], sent[i])

(* The error bit of a function that still is a byte. *)
LEMMA ErrorFunctionExact ==
  ASSUME NEW f \in Byte, f + kStatusResponseAddValue \in Byte
  PROVE  GetErrorFunction(f) = f + kStatusResponseAddValue
  BY DEF GetErrorFunction, kStatusResponseAddValue

(* The response Run queues answers the request its packet is. *)
LEMMA ReplyWasAsked ==
  ASSUME CrcIsWord, HostInv, PacketHeld, AcceptedWasSent, ReplyMatchesRequest,
         response_valid, faults = {}, NEW bytes,
         \A i \in 1 .. Len(response.data) : bytes[i] = response.data[i]
  PROVE  \E i \in 1 .. Len(sent) : Asked(i) /\ Answers(bytes, sent[i])
  <1>1. Accepted(TRUE) /\ Intact
    BY DEF PacketHeld, Intact
  <1>2. PICK i \in 1 .. Len(sent) : /\ Asked(i) /\ sent[i].address = frame.address
                                    /\ sent[i].function = frame.function
    BY <1>1, AcceptedWasAsked
  <1>3. /\ response.data[1] = frame.address /\ Len(response.data) >= 5
        /\ \/ response.data[2] = frame.function
           \/ response.data[2] = frame.function + kStatusResponseAddValue
    <2>1. Len(response.data) \in 5 .. kMaxFrameLength
      BY Zenon DEF ReplyMatchesRequest
    <2>2. /\ response.data[1] = frame.address
          /\ \/ response.data[2] = frame.function
             \/ response.data[2] = frame.function + kStatusResponseAddValue
      BY Zenon DEF ReplyMatchesRequest
    <2>3. Len(response.data) >= 5
      <3>1. PICK m \in Nat : m = kMaxFrameLength
        OBVIOUS
      <3>2. Len(response.data) \in 5 .. m
        BY <2>1, <3>1
      <3> HIDE DEF kMaxFrameLength
      <3> QED BY <3>2
    <2> QED BY <2>2, <2>3, Zenon
  <1>4. frame.function \in Byte /\ response.data \in Seq(Byte)
    <2>1. frame \in FrameType /\ response \in ResponseType
      BY DEF HostInv, TypeOK, SlaveTypeOK, CtxTypeOK
    <2> QED BY <2>1 DEF FrameType, ResponseType
  <1>5. response.data[2] \in Byte
    <2>1. PICK n \in Nat : n = Len(response.data)
      BY <1>4, LenProperties
    <2>2. 2 \in 1 .. n
      BY <1>3, <2>1
    <2> QED BY <1>4, <2>1, <2>2, ElementOfSeq
  <1>6. response.data[2] \in {frame.function, GetErrorFunction(frame.function)}
    BY <1>3, <1>4, <1>5, ErrorFunctionExact
  <1>7. bytes[1] = response.data[1] /\ bytes[2] = response.data[2]
    <2>1. PICK n \in Nat : n = Len(response.data)
      BY <1>4, LenProperties
    <2>2. 1 \in 1 .. n /\ 2 \in 1 .. n
      BY <1>3, <2>1
    <2> QED BY <2>1, <2>2
  <1> QED BY <1>2, <1>3, <1>6, <1>7 DEF Answers

(* Every step leaves each reply with its request. *)
LEMMA RepliesToRequestsStep ==
  ASSUME CrcIsWord, HostInv, PacketHeld, AcceptedWasSent, ReplyMatchesRequest,
         RepliesToRequests, faults = {}, [Next]_vars
  PROVE  RepliesToRequests'
  <1>1. ASSUME NEW reply, \E i \in 1 .. Len(sent) : Asked(i) /\ Answers(reply, sent[i])
        PROVE  \E i \in 1 .. Len(sent') : Asked(i)' /\ Answers(reply, sent'[i])
    <2>1. PICK i \in 1 .. Len(sent) : Asked(i) /\ Answers(reply, sent[i])
      BY <1>1
    <2>2. i \in 1 .. Len(sent') /\ sent'[i] = sent[i]
      BY SentKept
    <2>3. Asked(i)'
      BY <2>1, <2>2 DEF Asked
    <2> QED BY <2>1, <2>2, <2>3
  <1>2. CASE UNCHANGED replies
    BY <1>1, <1>2 DEF RepliesToRequests
  <1>3. ASSUME response_valid, NEW bytes \in Seq(Byte), Queued(bytes)
        PROVE  RepliesToRequests'
    <2>1. replies \in Seq(Seq(Byte)) /\ replies' = Append(replies, bytes)
      BY <1>3 DEF HostInv, LoopInv, Queued
    <2>2. PICK n \in Nat : n = Len(replies)
      BY <2>1, LenProperties
    <2>3. /\ Len(replies') = n + 1 /\ replies'[n + 1] = bytes
          /\ \A k \in 1 .. n : replies'[k] = replies[k]
      <3> DEFINE S == Seq(Byte)
      <3>1. replies \in Seq(S) /\ bytes \in S
        BY <2>1
      <3> HIDE DEF S
      <3> QED BY <2>1, <2>2, <3>1, AppendProperties
    <2>4. ASSUME NEW k \in 1 .. Len(replies')
          PROVE  \E i \in 1 .. Len(sent) : Asked(i) /\ Answers(replies'[k], sent[i])
      <3>1. CASE k = n + 1
        BY <1>3, <2>3, <3>1, ReplyWasAsked DEF Queued
      <3>2. CASE k # n + 1
        <4>1. k \in 1 .. n
          BY <2>2, <2>3, <3>2
        <4> QED BY <2>2, <2>3, <4>1 DEF RepliesToRequests
      <3> QED BY <3>1, <3>2
    <2> QED BY <1>1, <2>4 DEF RepliesToRequests
  <1>4. CASE RunReply
    BY <1>2, <1>3, <1>4, ResponseWritten DEF RunReply
  <1> QED BY <1>2, <1>4 DEF Next, Run, Send, Lose, Corrupt, Tick, StepClock, RunIO, RunPacket,
                            RunChar, histVars, vars

(* Nothing is answered that was not asked: while nothing was written past  *)
(* an array, every packet the CRC lets through is one that was sent and no *)
(* master reads more registers at once than the protocol lets it, each     *)
(* reply on the line has the address and the function of a request sent to *)
(* this slave.                                                             *)
THEOREM AnsweredWasAsked ==
  CrcIsWord =>
      (Spec /\ []AcceptedWasSent /\ []ReadsFit
          => [](HostKeepsContract => RepliesToRequests))
  <1> SUFFICES ASSUME CrcIsWord
               PROVE  Spec /\ []AcceptedWasSent /\ []ReadsFit
                         => [](HostKeepsContract => RepliesToRequests)
    OBVIOUS
  <1> DEFINE Kept == HostKeepsContract => RepliesToRequests
  <1>1. Init => PacketHeld /\ Kept
    BY DEF Init, SlaveInit, PacketHeld, RepliesToRequests
  <1>2. HostInv /\ AcceptedWasSent /\ PacketHeld /\ ReplyMatchesRequest /\ Kept /\ [Next]_vars
           => PacketHeld' /\ Kept'
    <2> SUFFICES ASSUME HostInv, AcceptedWasSent, PacketHeld, ReplyMatchesRequest, Kept,
                        [Next]_vars, faults' = {}
                 PROVE  RepliesToRequests'
      BY PacketHeldStep DEF HostKeepsContract
    <2>1. faults = {}
      <3>1. [SlaveNext]_slaveVars
        BY HostStepIsSlaveStep DEF HostInv
      <3> QED BY <3>1, FaultsStay
    <2> QED BY <2>1, RepliesToRequestsStep DEF HostKeepsContract
  <1>3. Spec /\ []ReadsFit => []ReplyMatchesRequest
    BY HostRunsSlave, ReplyCorrect, PTL
  <1> QED BY <1>1, <1>2, <1>3, HostInvAlways, PTL DEF Spec
=============================================================================
