------------------------------ MODULE Snooper ------------------------------
(***************************************************************************)
(* The serial snooper (examples/SerialSnooper): the same slave, ring       *)
(* buffers and line as LinuxSlave, but a loop that ends a frame by silence *)
(* instead of by PacketReceived, prints it and sends nothing.  Traffic is  *)
(* what masters and slaves on the bus send, CharTimeout is kFrameDelay_us. *)
(*                                                                         *)
(* The steps of pc are those of LinuxSlave: ring buffers ("io"),           *)
(* CheckForCompletedPacket ("packet", its Reset as "reply"), one byte to   *)
(* the receiver ("char").                                                  *)
(***************************************************************************)
EXTENDS LinuxSlave

VARIABLE shown   \* history: the packets printed, in order

snoopVars == <<vars, shown>>

(* No stream of this traffic is too long for FrameCrcIsValid, whose limit  *)
(* is RtuSlave's subject.                                                  *)
ASSUME TrafficAssumption ==
    \A f \in Traffic : MaxRequests * Len(Frame(f)) <= kMaxFrameLength

-----------------------------------------------------------------------------
(* Time passes also while bytes wait in the ring buffer: the loop is held  *)
(* up, which counts as a fault as well.                                    *)
SnoopTick ==
    /\ elapsed < CharTimeout
    /\ elapsed' = elapsed + 1
    /\ IF line = << >> /\ rx = << >>
       THEN UNCHANGED <<damage, clean>>
       ELSE damage < MaxFaults /\ damage' = damage + 1 /\ clean' = FALSE
    /\ UNCHANGED <<slaveVars, rx, tx, pc, line, sent, replies, answered, shown>>

(* What the bus and the clock do is as in LinuxSlave. *)
Outside ==
    /\ \/ \E f \in Traffic : Send(f)
       \/ Lose
       \/ Corrupt
       \/ \E jump \in ClockSteps : StepClock(jump)
    /\ UNCHANGED shown

-----------------------------------------------------------------------------
PacketIsReady == elapsed >= CharTimeout

(* A plausible slip: what was received so far is shown unchecked.          *)
IsShownUnchecked == state = "kData" /\ bytes_to_read >= 0

(* A plausible slip: a packet is looked for where LinuxSlave looks for it. *)
IsShownWhenDone == state = "kDone" /\ FrameCrcIsValid(frame)

IsShown == state = "kData" /\ FrameCrcIsValid(frame)

(* data_array behind data_length: Frame::Reset left zeros there.           *)
Padded == [frame EXCEPT !.data = SetLength(@, kMaxFrameLength)]

(* ProcessMessage on a frame that PacketReceived does not report.          *)
SnoopMessage ==
    /\ UNCHANGED <<state, bytes_to_read, frame, slave_address, inputs>>
    /\ IF Ignored(TRUE)
       THEN UNCHANGED <<response, response_valid, faults, holding, flags, unseen>>
       ELSE IF ValidateMessage(Padded) = kAck
       THEN RunCommand(Padded)
       ELSE SendErrorResponse(Padded, ValidateMessage(Padded))

(* CheckForCompletedPacket: after the silence a frame with a good CRC is   *)
(* printed and processed ...                                               *)
SnoopPacket ==
    /\ pc = "packet"
    /\ IF PacketIsReady /\ IsShown
       THEN /\ shown' = Append(shown, FrameBytes(frame))
            /\ answered' = TRUE
            /\ SnoopMessage
       ELSE UNCHANGED <<slaveVars, shown, answered>>
    /\ pc' = IF PacketIsReady THEN "reply" ELSE "char"
    /\ UNCHANGED <<rx, tx, elapsed, envVars, replies, clean>>

(* A plausible slip: only a packet that was shown is cleared away.         *)
SnoopResetShown ==
    /\ pc = "reply"
    /\ IF IsShown THEN Reset ELSE UNCHANGED slaveVars
    /\ pc' = "char"
    /\ UNCHANGED <<rx, tx, elapsed, envVars, histVars, shown>>

(* ... and whatever was there is cleared away, a response included.        *)
SnoopReset ==
    /\ pc = "reply"
    /\ Reset
    /\ pc' = "char"
    /\ UNCHANGED <<rx, tx, elapsed, envVars, histVars, shown>>

(* One byte to the receiver, whatever state that is in. *)
SnoopChar ==
    /\ pc = "char"
    /\ IF rx # << >>
       THEN /\ ReceiveCharacter(Head(rx))
            /\ rx' = Tail(rx)
            /\ elapsed' = 0
       ELSE UNCHANGED <<slaveVars, rx, elapsed>>
    /\ pc' = "io"
    /\ UNCHANGED <<tx, envVars, histVars, shown>>

SnoopIO(n) == RunIO(n) /\ UNCHANGED shown

SnoopRun ==
    \/ \E n \in 0 .. Len(line) : SnoopIO(n)
    \/ SnoopPacket
    \/ SnoopReset
    \/ SnoopChar

-----------------------------------------------------------------------------
SnoopInit == Init /\ shown = << >>

SnoopNext == Outside \/ SnoopTick \/ SnoopRun

(* As for LinuxSlave: main() calls Run for ever, the port does not         *)
(* withhold a byte for ever, the clock does not stop.                      *)
SnoopFairness ==
    /\ WF_snoopVars(SnoopRun)
    /\ SF_snoopVars(\E n \in 1 .. Len(line) : SnoopIO(n))
    /\ WF_snoopVars(SnoopTick /\ line = << >> /\ rx = << >>)

SnoopSpec == SnoopInit /\ [][SnoopNext]_snoopVars /\ SnoopFairness

-----------------------------------------------------------------------------
(* What is printed are frames that somebody sent, whole, each at most once *)
(* and in the order of sending, wherever silence or a fault cut the stream *)
(* and also after a byte met a frame the receiver had counted to its end.  *)
ShownInOrder ==
    \E pick \in [1 .. Len(shown) -> 1 .. Len(sent)] :
        /\ \A i \in 1 .. Len(shown) : shown[i] = Frame(sent[pick[i]])
        /\ \A i, j \in 1 .. Len(shown) : i < j => pick[i] < pick[j]

(* What the receiver, counting for requests, takes for unfinished: a read  *)
(* reply of one register, the acknowledgement of a write of several.       *)
Unfinished(f) ==
    \/ /\ f.function \in {kReadMultipleHoldingRegisters, kReadInputRegisters}
       /\ Len(f.data) = 3
    \/ /\ f.function = kWriteMultipleHoldingRegisters
       /\ Len(f.data) = 4

(* Such a frame is shown once it reaches the idle snooper undamaged and    *)
(* silence follows.                                                        *)
CleanReplyShown ==
    (clean /\ Unfinished(sent[Len(sent)])) ~> (answered \/ ~clean)
=============================================================================
