----------------------------- MODULE RtuProtocol -----------------------------
(***************************************************************************)
(* class ProtocolRtu (include/Modbus/ModbusRtu/ModbusRtuProtocol.h): how a *)
(* Frame or a Response gets its address, function and CRC on the wire and  *)
(* how a received CRC is checked.  The CRC itself is a function pointer    *)
(* the user of the library supplies: a constant operator here.             *)
(***************************************************************************)
EXTENDS Modbus

CONSTANT Crc(_)   \* Crc16: a byte sequence to a 16-bit word

(* The two CRC bytes in the order Frame and FrameResponse append them.     *)
CrcBytes(bytes) == LET crc == Crc(bytes) IN <<GetByte(crc, 1), GetByte(crc, 0)>>

(* Header and payload as FrameCrcIsValid lays them out before the check.   *)
FrameBytes(f) == <<f.address, f.function>> \o f.data

(* A plausible slip: nothing is rejected. *)
BufferCrcIgnored(buffer) == Len(buffer) > kFooterLength

(* FrameCrcIsValid(const ArrayView&): the last two bytes against the rest. *)
BufferCrcIsValid(buffer) ==
    LET n == Len(buffer)
    IN  MakeMSB(buffer[n - 1], buffer[n])
            = Crc(SubSeq(buffer, 1, n - kFooterLength))

(* FrameCrcIsValid(const Frame&) *)
FrameCrcIsValid(f) == BufferCrcIsValid(FrameBytes(f))

(* A plausible slip: an array without room for the CRC bytes.              *)
FitsShortBuffer(f) == Len(f.data) + kHeaderLength <= kMaxFrameLength - kFooterLength

(* That function copies the frame to an array of 256 bytes on the stack,   *)
(* two places up: longer frames do not fit it.                             *)
FitsCrcBuffer(f) == Len(f.data) + kHeaderLength <= kMaxFrameLength

(* ProtocolRtu::Frame: what a master sends for a Frame.                    *)
Frame(f) == FrameBytes(f) \o CrcBytes(FrameBytes(f))

(* ProtocolRtu::ReadFrame: the frame in a received buffer, CRC dropped.    *)
ReadFrame(buffer) ==
    [address  |-> buffer[1],
     function |-> buffer[2],
     data     |-> SubSeq(buffer, kHeaderLength + 1, Len(buffer) - kFooterLength)]

-----------------------------------------------------------------------------
(* Response::operator[]: an index past the array is sent to element 0; one *)
(* that is not even the first past it fails the assertion.                 *)
Slot(index) == IF index < kMaxFrameLength THEN index ELSE 0

(* Response::SetLength on a zeroed array, seen through [length, data].     *)
SetLength(data, length) ==
    [i \in 1 .. (IF length < kMaxFrameLength THEN length ELSE kMaxFrameLength)
        |-> IF i <= Len(data) THEN data[i] ELSE 0]

(* A plausible slip: the CRC bytes the other way round. *)
FrameResponseSwapped(packet, response) ==
    LET headed == [response.data EXCEPT ![1] = packet.address, ![2] = packet.function]
        crc    == CrcBytes(headed)
        start  == response.length
        grown  == SetLength(headed, start + 2)
    IN  [length |-> start + 2,
         data   |-> [grown EXCEPT ![Slot(start) + 1] = crc[2],
                                  ![Slot(start + 1) + 1] = crc[1]]]

(* ProtocolRtu::FrameResponse: address and function of packet, CRC over    *)
(* length_ bytes, two bytes more.                                          *)
FrameResponse(packet, response) ==
    LET headed == [response.data EXCEPT ![1] = packet.address, ![2] = packet.function]
        crc    == CrcBytes(headed)
        start  == response.length
        grown  == SetLength(headed, start + 2)
    IN  [length |-> start + 2,
         data   |-> [grown EXCEPT ![Slot(start) + 1] = crc[1],
                                  ![Slot(start + 1) + 1] = crc[2]]]

(* The assertion of Response::operator[] on the two CRC positions.         *)
FrameResponseAsserts(response) == response.length + 1 > kMaxFrameLength
=============================================================================
