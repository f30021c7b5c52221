----------------------------- MODULE LinuxSlave -----------------------------
(***************************************************************************)
(* The slave in its host loop (examples/LinuxSlave), behind a serial line: *)
(* LinuxSlave::Run over UartController's ring buffers, with the character  *)
(* timeout that resynchronises the receiver.                               *)
(*                                                                         *)
(* One iteration of Run is four steps of pc: the two ring buffers are      *)
(* served ("io"), a complete packet is processed ("packet"), its reply is  *)
(* queued and the slave reset ("reply"), one byte is given to the receiver *)
(* or the timeout is looked at ("char").  Between any two of them the      *)
(* masters send, the line damages bytes and time passes.                   *)
(***************************************************************************)
EXTENDS RtuSlave

CONSTANTS
    Traffic,       \* the request frames masters on the bus send
    OwnAddress,    \* argument of SetAddress at start-up
    RxCap,         \* bytes the receive ring buffer takes
    TxCap,         \* bytes the transmit ring buffer takes
    CharTimeout,   \* clock ticks in 10 * kFrameDelay_us
    ClockSteps,    \* jumps, in ticks, that the wall clock may make
    MaxRequests,   \* bound: requests sent
    MaxFaults      \* bound: bytes lost, damaged or delayed, clock jumps

ASSUME LinuxAssumption ==
    /\ OwnAddress \in Byte /\ Traffic \subseteq FrameType
    /\ RxCap \in Nat \ {0} /\ TxCap \in Nat \ {0} /\ CharTimeout \in Nat \ {0}
    /\ ClockSteps \subseteq Int
    /\ MaxRequests \in Nat /\ MaxFaults \in Nat

VARIABLES
    line,      \* bytes sent and not yet read from the serial port
    rx, tx,    \* UartController::rxbuff_, txbuff_
    elapsed,   \* GetMicroSecondsSince(last_character_time_, now) in ticks,
               \* up to CharTimeout
    pc,        \* the next step of Run
    sent,      \* history: the requests sent, in order
    replies,   \* history: the replies queued, in order
    damage,    \* history: number of faults so far
    clean,     \* history: the last request met an idle slave and no fault
    answered   \* history: a reply was queued since the last request

hostVars == <<rx, tx, elapsed, pc>>
envVars  == <<line, sent, damage>>
histVars == <<replies, clean, answered>>
vars == <<slaveVars, hostVars, envVars, histVars>>

Truncate(s, n) == SubSeq(s, 1, IF Len(s) < n THEN Len(s) ELSE n)

-----------------------------------------------------------------------------
(* The masters and the line *)

(* Nothing of an earlier request is left anywhere. *)
Idle ==
    /\ line = << >> /\ rx = << >>
    /\ state = "kAddress" /\ frame.data = << >>
    /\ pc # "reply"

(* A master sends once the line is free, whether or not it got an answer.  *)
Send(request) ==
    /\ line = << >>
    /\ Len(sent) < MaxRequests
    /\ line' = Frame(request)
    /\ sent' = Append(sent, request)
    /\ clean' = Idle
    /\ answered' = FALSE
    /\ UNCHANGED <<slaveVars, hostVars, replies, damage>>

(* The next byte is lost ...                                               *)
Lose ==
    /\ line # << >>
    /\ damage < MaxFaults
    /\ line' = Tail(line)
    /\ damage' = damage + 1
    /\ clean' = FALSE
    /\ UNCHANGED <<slaveVars, hostVars, sent, replies, answered>>

(* ... or read wrong.                                                      *)
Corrupt ==
    /\ line # << >>
    /\ damage < MaxFaults
    /\ line' = [line EXCEPT ![1] = (@ + 1) % 256]
    /\ damage' = damage + 1
    /\ clean' = FALSE
    /\ UNCHANGED <<slaveVars, hostVars, sent, replies, answered>>

(* Time passes.  Bytes on the line come much faster than a tick, so a tick *)
(* that finds some still there is a delay, and counts as a fault.          *)
Tick ==
    /\ elapsed < CharTimeout
    /\ elapsed' = elapsed + 1
    /\ IF line = << >>
       THEN UNCHANGED <<damage, clean>>
       ELSE damage < MaxFaults /\ damage' = damage + 1 /\ clean' = FALSE
    /\ UNCHANGED <<slaveVars, rx, tx, pc, line, sent, replies, answered>>

(* gettimeofday follows the wall clock: when that is set, the time since   *)
(* the last character jumps, and may become negative.                      *)
StepClock(jump) ==
    /\ damage < MaxFaults
    /\ elapsed' = IF elapsed + jump > CharTimeout THEN CharTimeout ELSE elapsed + jump
    /\ damage' = damage + 1
    /\ clean' = FALSE
    /\ UNCHANGED <<slaveVars, rx, tx, pc, line, sent, replies, answered>>

-----------------------------------------------------------------------------
(* LinuxSlave::Run *)

(* A plausible slip: the ring buffer's capacity is not respected.          *)
RunIOUnbounded(n) ==
    /\ pc = "io"
    /\ n <= Len(line)
    /\ tx' = << >>
    /\ rx' = rx \o SubSeq(line, 1, n)
    /\ line' = SubSeq(line, n + 1, Len(line))
    /\ pc' = "packet"
    /\ UNCHANGED <<slaveVars, elapsed, sent, replies, damage, clean, answered>>

(* A plausible slip: the transmit buffer is not emptied.                   *)
RunIOKeepsTx(n) ==
    /\ pc = "io"
    /\ n <= Len(line)
    /\ rx' = Truncate(rx \o SubSeq(line, 1, n), RxCap)
    /\ line' = SubSeq(line, n + 1, Len(line))
    /\ clean' = (clean /\ Len(rx) + n <= RxCap)
    /\ pc' = "packet"
    /\ UNCHANGED <<slaveVars, tx, elapsed, sent, replies, damage, answered>>

(* SendTxBuff empties the transmit buffer; ReadIntoRxBuff takes what the   *)
(* port has, n bytes, and what does not fit the ring buffer is gone.       *)
RunIO(n) ==
    /\ pc = "io"
    /\ n <= Len(line)
    /\ tx' = << >>
    /\ rx' = Truncate(rx \o SubSeq(line, 1, n), RxCap)
    /\ line' = SubSeq(line, n + 1, Len(line))
    /\ clean' = (clean /\ Len(rx) + n <= RxCap)
    /\ pc' = "packet"
    /\ UNCHANGED <<slaveVars, elapsed, sent, replies, damage, answered>>

(* A plausible slip: the packet is looked at only when no byte is waiting. *)
RunPacketWhenQuiet ==
    /\ pc = "packet"
    /\ IF PacketReceived /\ rx = << >>
       THEN /\ ProcessMessage(TRUE) \/ ProcessOversized(TRUE)
            /\ pc' = "reply"
       ELSE pc' = "char" /\ UNCHANGED slaveVars
    /\ UNCHANGED <<rx, tx, elapsed, envVars, histVars>>

(* if (PacketReceived()) ProcessPacket(): ProcessMessage ...               *)
RunPacket ==
    /\ pc = "packet"
    /\ IF PacketReceived
       THEN /\ ProcessMessage(TRUE) \/ ProcessOversized(TRUE)
            /\ pc' = "reply"
       ELSE pc' = "char" /\ UNCHANGED slaveVars
    /\ UNCHANGED <<rx, tx, elapsed, envVars, histVars>>

(* iodev_.write(data(), GetLength()) of a valid response.  The one of 126  *)
(* registers is a byte longer than its array: rest is what lies behind.    *)
WriteResponse ==
    IF response_valid
    THEN /\ \E rest \in [1 .. response.length - Len(response.data) -> Byte] :
               /\ tx' = Truncate(tx \o (response.data \o rest), TxCap)
               /\ replies' = Append(replies, response.data \o rest)
         /\ answered' = TRUE
    ELSE UNCHANGED <<tx, replies, answered>>

(* A plausible slip: the receiver is not reset after a packet.             *)
RunReplyNoReset ==
    /\ pc = "reply"
    /\ WriteResponse
    /\ pc' = "char"
    /\ UNCHANGED <<slaveVars, rx, elapsed, envVars, clean>>

(* ... then the response is written, and Reset.                            *)
RunReply ==
    /\ pc = "reply"
    /\ WriteResponse
    /\ Reset
    /\ pc' = "char"
    /\ UNCHANGED <<rx, elapsed, envVars, clean>>

(* A plausible slip: the receiver is never resynchronised by time.         *)
RunCharNoTimeout ==
    /\ pc = "char"
    /\ IF rx # << >>
       THEN /\ ReceiveCharacter(Head(rx))
            /\ rx' = Tail(rx)
            /\ elapsed' = 0
       ELSE UNCHANGED <<slaveVars, rx, elapsed>>
    /\ pc' = "io"
    /\ UNCHANGED <<tx, envVars, histVars>>

(* A plausible slip: the timeout is looked at before the waiting bytes.    *)
RunCharTimeoutFirst ==
    /\ pc = "char"
    /\ IF elapsed >= CharTimeout
       THEN Reset /\ UNCHANGED <<rx, elapsed>>
       ELSE IF rx # << >>
       THEN /\ ReceiveCharacter(Head(rx))
            /\ rx' = Tail(rx)
            /\ elapsed' = 0
       ELSE UNCHANGED <<slaveVars, rx, elapsed>>
    /\ pc' = "io"
    /\ UNCHANGED <<tx, envVars, histVars>>

(* One byte to the receiver and a fresh time stamp, or the timeout.        *)
RunChar ==
    /\ pc = "char"
    /\ IF rx # << >>
       THEN /\ ReceiveCharacter(Head(rx))
            /\ rx' = Tail(rx)
            /\ elapsed' = 0
       ELSE /\ IF elapsed >= CharTimeout THEN Reset ELSE UNCHANGED slaveVars
            /\ UNCHANGED <<rx, elapsed>>
    /\ pc' = "io"
    /\ UNCHANGED <<tx, envVars, histVars>>

-----------------------------------------------------------------------------
Init ==
    /\ SlaveInit
    /\ slave_address = OwnAddress
    /\ line = << >> /\ rx = << >> /\ tx = << >>
    /\ elapsed = 0 /\ pc = "io"
    /\ sent = << >> /\ replies = << >> /\ damage = 0
    /\ clean = FALSE /\ answered = FALSE

Run == (\E n \in 0 .. Len(line) : RunIO(n)) \/ RunPacket \/ RunReply \/ RunChar

Next ==
    \/ \E request \in Traffic : Send(request)
    \/ Lose
    \/ Corrupt
    \/ Tick
    \/ \E jump \in ClockSteps : StepClock(jump)
    \/ Run

(* main() calls Run for ever; a byte on the line is read by some later      *)
(* call (the port does not withhold it for ever); the clock does not stop.  *)
Fairness ==
    /\ WF_vars(Run)
    /\ SF_vars(\E n \in 1 .. Len(line) : RunIO(n))
    /\ WF_vars(Tick /\ line = << >>)

Spec == Init /\ [][Next]_vars /\ Fairness

-----------------------------------------------------------------------------
(* The host's variables hold what the loop puts there.                     *)
TypeOK ==
    /\ SlaveTypeOK
    /\ line \in Seq(Byte) /\ rx \in Seq(Byte) /\ tx \in Seq(Byte)
    /\ Len(rx) <= RxCap /\ Len(tx) <= TxCap
    /\ elapsed \in Int /\ elapsed <= CharTimeout
    /\ pc \in {"io", "packet", "reply", "char"}
    /\ sent \in Seq(Traffic) /\ Len(sent) <= MaxRequests
    /\ damage \in 0 .. MaxFaults
    /\ clean \in BOOLEAN /\ answered \in BOOLEAN

(* However the bytes come, Run never hands one to a receiver that already  *)
(* holds a complete packet: the assert(0) of ReadContext is not reached.   *)
HostKeepsContract == faults = {}

(* The requests sent to this slave. *)
Asked(i) == i \in 1 .. Len(sent) /\ sent[i].address = OwnAddress

(* A reply for a request, by address and function. *)
Answers(reply, request) ==
    /\ reply[1] = request.address
    /\ reply[2] \in {request.function, GetErrorFunction(request.function)}

(* The replies are those of some of the requests sent to this slave, each  *)
(* at most once and in the order of sending: whatever the line lost or     *)
(* damaged and wherever a frame was cut, nothing is answered that was not  *)
(* asked, and nothing twice.                                               *)
RepliesInOrder ==
    Intact => \E pick \in [1 .. Len(replies) -> 1 .. Len(sent)] :
        /\ \A i \in 1 .. Len(replies) :
               Asked(pick[i]) /\ Answers(replies[i], sent[pick[i]])
        /\ \A i, j \in 1 .. Len(replies) : i < j => pick[i] < pick[j]

(* A packet for this slave that passes the CRC check is, byte by byte, a   *)
(* request somebody sent: neither damage on the line nor the place where   *)
(* the timeout or a full buffer cut the stream makes a request of its own. *)
AcceptedWasSent ==
    Intact /\ Accepted(TRUE) =>
        \E i \in 1 .. Len(sent) : FrameBytes(frame) = Frame(sent[i])

(* A holding register has its initial value or one that a request sent to  *)
(* this slave asked for, at that address: damage on the line never becomes *)
(* a write.                                                                *)
OnlyRequestedWrites ==
    Intact =>
        \A a \in HoldingAddress :
            \/ holding[a] = 0
            \/ \E i \in 1 .. Len(sent) :
                  /\ Asked(i)
                  /\ a \in WrittenBy(sent[i])
                  /\ holding[a] = ValueFor(sent[i], a)

(* A reply is never cut short by the transmit buffer.                      *)
ReplyQueuedWhole ==
    Intact /\ tx # << >> => replies # << >> /\ tx = replies[Len(replies)]

-----------------------------------------------------------------------------
(* When the line stays silent, the receiver comes back to the start of a   *)
(* frame with nothing of a broken one left: the timeout of Run             *)
(* resynchronises it after any damage.                                     *)
Resynchronises ==
    <>[](line = << >>) => <>[](state = "kAddress" /\ frame.data = << >> /\ rx = << >>)

(* A request that finds the slave idle and is not damaged on the way. *)
CleanRequest(functions) ==
    /\ clean
    /\ Asked(Len(sent))
    /\ sent[Len(sent)].function \in functions

(* The last request has its reply. *)
LastAnswered ==
    answered /\ Answers(replies[Len(replies)], sent[Len(sent)])

(* A request of an implemented function that reaches the idle slave        *)
(* undamaged is answered, unless it is damaged or overtaken after all.     *)
CleanRequestAnswered ==
    CleanRequest(ImplementedFunctions) ~> (LastAnswered \/ ~clean)

(* The same for a function the slave does not implement: an error reply.   *)
UnsupportedAnswered ==
    CleanRequest(ValidFunctions \ ImplementedFunctions) ~> (LastAnswered \/ ~clean)
=============================================================================
