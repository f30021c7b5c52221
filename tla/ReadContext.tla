----------------------------- MODULE ReadContext -----------------------------
(***************************************************************************)
(* class ReadContext (include/Modbus/ModbusRtu/ModbusRtuProtocol.h), the   *)
(* byte-at-a-time receiver of an RTU slave, with the Frame it fills.  It   *)
(* finds the end of a frame by counting: two header bytes, then a number   *)
(* of "meta" bytes the function code determines, then a number of data and *)
(* CRC bytes the function code and the meta bytes determine.               *)
(*                                                                         *)
(* faults records what the C++ program must never do: "assert" when an     *)
(* assert(0) of the receiver is reached (a release build goes on as        *)
(* modelled), "overrun" when a byte is stored past the end of the frame    *)
(* array (from there on what the array holds is not claimed).              *)
(***************************************************************************)
EXTENDS Modbus

VARIABLES
    state,           \* ReadContext::state_
    bytes_to_read,   \* ReadContext::bytes_to_read_
    frame,           \* SlaveProtocolBase::framein_
    faults           \* history: the faults met so far

ctxVars == <<state, bytes_to_read, frame, faults>>

PacketState == {"kAddress", "kFunction", "kMeta", "kData", "kDone"}

FaultKind == {"assert", "overrun"}

-----------------------------------------------------------------------------
(* CommandPacket::kPacketSize for reads, kValueStart for writes.           *)
CalculateMetaDataBytesRemaining(function) ==
    IF function \in {kReadMultipleHoldingRegisters, kReadInputRegisters} THEN 4
    ELSE IF function = kWriteSingleHoldingRegister THEN 2
    ELSE IF function = kWriteMultipleHoldingRegisters THEN 5
    ELSE 0

(* A plausible slip: the count is taken as a number of registers.          *)
RegistersRemaining(f) ==
    IF f.function = kWriteSingleHoldingRegister THEN 2
    ELSE IF f.function = kWriteMultipleHoldingRegisters THEN 2 * f.data[5]
    ELSE 0

(* A plausible slip: the count is read as a 16-bit field.                  *)
WideByteCount(f) ==
    IF f.function = kWriteSingleHoldingRegister THEN 2
    ELSE IF f.function = kWriteMultipleHoldingRegisters
         THEN MakeMSB(f.data[4], f.data[5])
    ELSE 0

(* How many bytes follow the meta bytes, CRC not counted.                  *)
CalculateBytesRemaining(f) ==
    IF f.function = kWriteSingleHoldingRegister THEN 2
    ELSE IF f.function = kWriteMultipleHoldingRegisters THEN f.data[5]
    ELSE 0

PacketReceived == state = "kDone"

-----------------------------------------------------------------------------
(* ReadContext::ProcessCharacter, one action per case of its switch.       *)

AddressByte(pt) ==
    /\ state = "kAddress"
    /\ frame' = [frame EXCEPT !.address = pt]
    /\ state' = "kFunction"
    /\ bytes_to_read' = bytes_to_read - 1
    /\ UNCHANGED faults

(* An unknown function code drops the frame: the address stays in the      *)
(* Frame, the next byte is taken for an address.                           *)
FunctionByte(pt) ==
    /\ state = "kFunction"
    /\ IF FunctionCodeIsValid(pt)
       THEN /\ frame' = [frame EXCEPT !.function = GetFunction(pt)]
            /\ state' = "kMeta"
            /\ bytes_to_read' = CalculateMetaDataBytesRemaining(GetFunction(pt))
       ELSE /\ state' = "kAddress"
            /\ bytes_to_read' = kHeaderLength + 1
            /\ UNCHANGED frame
    /\ UNCHANGED faults

(* p_frame->data_array[p_frame->data_length++] = pt                        *)
Store(pt) ==
    /\ frame' = [frame EXCEPT !.data = Append(@, pt)]
    /\ faults' = IF Len(frame.data) >= kMaxFrameLength
                 THEN faults \cup {"overrun"} ELSE faults

MetaByte(pt) ==
    /\ state = "kMeta"
    /\ Store(pt)
    /\ IF bytes_to_read - 1 <= 0
       THEN LET remaining == CalculateBytesRemaining(frame') + kFooterLength
            IN  /\ bytes_to_read' = remaining
                /\ state' = IF remaining = 0 THEN "kDone" ELSE "kData"
       ELSE /\ bytes_to_read' = bytes_to_read - 1
            /\ UNCHANGED state

(* A plausible slip: < for <= , one byte too many.                         *)
DataByteOneMore(pt) ==
    /\ state = "kData"
    /\ Store(pt)
    /\ bytes_to_read' = bytes_to_read - 1
    /\ state' = IF bytes_to_read - 1 < 0 THEN "kDone" ELSE state

(* A data or CRC byte; the last one completes the packet.                  *)
DataByte(pt) ==
    /\ state = "kData"
    /\ Store(pt)
    /\ bytes_to_read' = bytes_to_read - 1
    /\ state' = IF bytes_to_read - 1 <= 0 THEN "kDone" ELSE state

(* A byte for a frame that is already complete: assert(0), then only the   *)
(* context is reset, the Frame keeps its bytes.                            *)
DoneByte(pt) ==
    /\ state = "kDone"
    /\ pt \in Byte
    /\ faults' = faults \cup {"assert"}
    /\ state' = "kAddress"
    /\ bytes_to_read' = kHeaderLength + 1
    /\ UNCHANGED frame

ProcessCharacter(pt) ==
    \/ AddressByte(pt)
    \/ FunctionByte(pt)
    \/ MetaByte(pt)
    \/ DataByte(pt)
    \/ DoneByte(pt)

(* A plausible slip: the context is reset and the Frame is forgotten.      *)
ResetContextOnly ==
    /\ state' = "kAddress"
    /\ bytes_to_read' = kHeaderLength + 1
    /\ UNCHANGED <<frame, faults>>

(* SlaveProtocolBase::ResetRead as far as the receiver goes: the context   *)
(* and the Frame together.                                                 *)
ResetRead ==
    /\ state' = "kAddress"
    /\ bytes_to_read' = kHeaderLength + 1
    /\ frame' = EmptyFrame
    /\ UNCHANGED faults

-----------------------------------------------------------------------------
CtxInit ==
    /\ state = "kAddress"
    /\ bytes_to_read = kHeaderLength + 1
    /\ frame = EmptyFrame
    /\ faults = {}

CtxNext == (\E pt \in Byte : ProcessCharacter(pt)) \/ ResetRead

CtxSpec == CtxInit /\ [][CtxNext]_ctxVars

-----------------------------------------------------------------------------
(* The receiver's variables hold values of their C++ types, and the signed *)
(* counter never goes below zero or above one write command's remainder.   *)
CtxTypeOK ==
    /\ state \in PacketState
    /\ bytes_to_read \in 0 .. 255 + kFooterLength
    /\ frame \in FrameType
    /\ faults \in SUBSET FaultKind

(* The length the Modbus protocol gives a request of this frame's          *)
(* function, counted after the function byte and with its CRC; a write of  *)
(* several registers is only known to have at least 7 until its byte count *)
(* has come.  A function the slave does not implement gets the three bytes *)
(* the receiver waits for.                                                 *)
RequestLength(f) ==
    IF f.function \in {kReadMultipleHoldingRegisters, kReadInputRegisters,
                       kWriteSingleHoldingRegister} THEN 6
    ELSE IF f.function = kWriteMultipleHoldingRegisters
         THEN IF Len(f.data) < 5 THEN 7 ELSE 7 + f.data[5]
    ELSE 3

(* The countdown and the bytes stored account for each other in every      *)
(* state: what is stored and what is still expected cover the meta bytes   *)
(* in kMeta and the whole request in kData and kDone, so a field is stored *)
(* before it is used.  While no byte came to a complete frame they cover   *)
(* it exactly, and nothing is stored before the function byte.             *)
CountdownInv ==
    LET stored == Len(frame.data)
        meta   == CalculateMetaDataBytesRemaining(frame.function)
    IN  /\ state = "kAddress" => bytes_to_read = 3
        /\ state = "kFunction" => bytes_to_read = 2
        /\ state = "kMeta" => stored + bytes_to_read >= meta
        /\ state \in {"kData", "kDone"} =>
               stored >= meta /\ stored + bytes_to_read >= RequestLength(frame)
        /\ state = "kData" => bytes_to_read > 0
        /\ state = "kDone" => bytes_to_read = 0
        /\ state \in {"kMeta", "kData", "kDone"} => frame.function \in ValidFunctions
        /\ "assert" \notin faults =>
               /\ state \in {"kAddress", "kFunction"} =>
                      frame.function = kNone /\ stored = 0
               /\ state = "kMeta" =>
                      stored + bytes_to_read = meta /\ (stored < meta \/ stored = 0)
               /\ state \in {"kData", "kDone"} =>
                      stored + bytes_to_read = RequestLength(frame)

(* ReadContext declares a packet received exactly when the Frame holds one *)
(* whole request: never early, so the CRC bytes are the ones the master    *)
(* sent, and never late, so no byte of the next request is swallowed.      *)
FrameBoundary ==
    "assert" \notin faults =>
        (PacketReceived <=> /\ frame.function # kNone
                            /\ Len(frame.data) >= RequestLength(frame))

(* A request whose byte count is at most 249 fits the 256-byte frame       *)
(* array; with any byte count the receiver stores at most 262 bytes.       *)
FrameFits ==
    "assert" \notin faults =>
        /\ Len(frame.data) <= 262
        /\ Len(frame.data) > kMaxFrameLength =>
               /\ frame.function = kWriteMultipleHoldingRegisters
               /\ frame.data[5] >= 250
=============================================================================
