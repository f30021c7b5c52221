------------------------------ MODULE RtuServer ------------------------------
(***************************************************************************)
(* RtuSlave as an implementation of RegisterServer: the request is what a  *)
(* complete frame with a good CRC says, the reply what a master reads in   *)
(* the response buffer.                                                    *)
(***************************************************************************)
EXTENDS RtuSlave

Words(bytes) ==
    [k \in 1 .. Len(bytes) \div 2 |-> 256 * bytes[2 * k - 1] + bytes[2 * k]]

(* The fields a command frame has behind its function byte.  A single      *)
(* write is one of one register.                                           *)
RequestOf(f) ==
    IF f.function \notin ImplementedFunctions THEN [function |-> f.function]
    ELSE LET w == Words(SubSeq(f.data, 1, 4))
         IN  CASE f.function = kWriteSingleHoldingRegister ->
                     [function |-> f.function, address |-> w[1], count |-> 1,
                      bytes |-> 2, values |-> <<w[2]>>]
               [] f.function = kWriteMultipleHoldingRegisters ->
                     [function |-> f.function, address |-> w[1], count |-> w[2],
                      bytes |-> f.data[5],
                      values |-> Words(SubSeq(f.data, 6, Len(f.data) - kFooterLength))]
               [] OTHER ->
                     [function |-> f.function, address |-> w[1], count |-> w[2],
                      bytes |-> 0, values |-> << >>]

(* A master's reading of a reply. *)
ReplyOf(bytes) ==
    LET body == SubSeq(bytes, 3, Len(bytes) - kFooterLength)
    IN  IF bytes[2] >= kStatusResponseAddValue
        THEN [function  |-> bytes[2] - kStatusResponseAddValue,
              exception |-> body[1], words |-> << >>]
        ELSE [function  |-> bytes[2],
              exception |-> kAck,
              words |-> IF bytes[2] \in {kReadMultipleHoldingRegisters, kReadInputRegisters}
                        THEN Words(Tail(body)) ELSE Words(body)]

RequestAtHand ==
    IF PacketReceived /\ FitsCrcBuffer(frame) /\ FrameCrcIsValid(frame)
    THEN RequestOf(frame) ELSE [function |-> kNone]

ReplyReady == IF response_valid THEN ReplyOf(response.data) ELSE [function |-> kNone]

Server == INSTANCE RegisterServer
              WITH HoldingCount <- HoldingCount, InputCount <- InputCount,
                   holding <- holding, inputs <- inputs,
                   request <- RequestAtHand, reply <- ReplyReady,
                   broken <- faults # {}

(* The slave implements the register server: between the application's     *)
(* writes every request is judged and served in one step against the       *)
(* current registers, the bytes of the reply say what that step did, no    *)
(* other step changes a register, and no reply outlives its request.  The  *)
(* promise ends with the first fault: a byte given to a complete frame or  *)
(* a write outside an array.                                               *)
ServesRegisters == Server!ServerSpec
=============================================================================
