----------------------------- MODULE MCRtuSlave -----------------------------
(***************************************************************************)
(* RtuSlave for TLC.  A master's requests arrive byte by byte: feed is     *)
(* what is still to come of the current one.  Resets may come at any       *)
(* byte, the application's steps between requests and before processing.   *)
(***************************************************************************)
EXTENDS RtuServer, Crc16

CONSTANTS
    OwnAddress, OtherAddress,   \* two slaves on the bus
    Reads,                      \* <<function, address, count>>
    SingleWrites,               \* addresses
    MultipleWrites,             \* <<address, count, registers sent>>
    Unsupported,                \* function codes without an implementation
    Values,                     \* register values
    AppWrites                   \* BOOLEAN: the application writes registers

VARIABLE feed

mcVars == <<slaveVars, feed>>

(* The requests on the bus: for both slaves, and one with a damaged CRC.   *)
Payloads ==
    {FillFrameRead(s, r[1], r[2], r[3]) : s \in {OwnAddress}, r \in Reads}
    \cup {FillFrameWriteSingle(s, a, v) :
             s \in {OwnAddress, OtherAddress}, a \in SingleWrites, v \in Values}
    \cup UNION {{FillFrameWriteMultiple(OwnAddress, w[1], w[2], vs) :
                    vs \in [1 .. w[3] -> Values]} : w \in MultipleWrites}
    \cup {[address |-> OwnAddress, function |-> f, data |-> <<9>>] : f \in Unsupported}

Damaged(bytes) == [bytes EXCEPT ![Len(bytes)] = (@ + 1) % 256]

Requests ==
    LET good == {Frame(p) : p \in Payloads}
    IN  good \cup {Damaged(Frame(FillFrameWriteSingle(OwnAddress, a, v))) :
                      a \in SingleWrites, v \in Values}

(* Grids around the ends of stores of 3 holding and 2 input registers, and *)
(* where address + count wraps in 16 bits or reaches its largest value.    *)
EdgeReads ==
    ({3} \X {0, 2, 3} \X {0, 1, 3}) \cup ({4} \X {0, 1, 2} \X {0, 1, 2})
    \cup {<<3, 0, 65535>>, <<3, 65535, 1>>, <<4, 65535, 0>>, <<4, 65535, 65535>>}

EdgeWrites == {<<0, 3, 3>>, <<0, 0, 0>>, <<1, 2, 2>>, <<3, 1, 1>>, <<2, 1, 1>>,
               <<3, 0, 0>>, <<1, 1, 2>>, <<0, 2, 1>>, <<2, 65535, 1>>}

(* Writes that announce 246, 248 and 254 bytes. *)
LongWrites == {<<0, 123, 123>>, <<0, 124, 124>>, <<0, 127, 127>>}

(* Reads of the largest reply that fits and of the first that leaves the   *)
(* response array. *)
LongReads == {<<kReadMultipleHoldingRegisters, 0, 125>>,
              <<kReadMultipleHoldingRegisters, 0, 127>>}

(* The largest read the stores can serve. *)
LargestRead == {<<kReadMultipleHoldingRegisters, 0, HoldingCount>>}

None == {}

MCInit ==
    /\ SlaveInit
    /\ slave_address = OwnAddress
    /\ feed = << >>

Send ==
    /\ feed = << >> /\ state = "kAddress"
    /\ feed' \in Requests
    /\ UNCHANGED slaveVars

Deliver ==
    /\ feed # << >> /\ ~PacketReceived
    /\ ReceiveCharacter(Head(feed))
    /\ feed' = Tail(feed)

HostProcess ==
    /\ ~response_valid /\ faults = {}
    /\ \E filter \in BOOLEAN : ProcessMessage(filter) \/ ProcessOversized(filter)
    /\ UNCHANGED feed

(* The host resets after a packet, or in the middle of one on a timeout;   *)
(* what is left of the request is gone with the silence.                   *)
HostReset ==
    /\ state # "kAddress"
    /\ Reset
    /\ feed' = << >>

(* Between two requests and before the processing of one: elsewhere the    *)
(* application's steps commute with the slave's.                           *)
Application ==
    /\ AppWrites
    /\ feed = << >> /\ ~response_valid
    /\ \/ \E a \in {0, HoldingCount - 1}, v \in Values : WriteHolding(a, v)
       \/ \E v \in Values : WriteInput(InputCount - 1, v)
       \/ ClearFlags
       \/ \E address \in {OwnAddress, OtherAddress} : SetAddress(address)
    /\ UNCHANGED feed

MCNext == Send \/ Deliver \/ HostProcess \/ HostReset \/ Application

MCSpec == MCInit /\ [][MCNext]_mcVars
=============================================================================
