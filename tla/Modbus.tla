------------------------------- MODULE Modbus -------------------------------
(***************************************************************************)
(* The vocabulary of include/Modbus/Modbus.h: bytes and 16-bit words, the  *)
(* function and exception codes, the address spaces, and the way a frame   *)
(* is laid out on the wire.  Codes are the numbers the enums give them,    *)
(* because they travel as bytes; address spaces never leave the program    *)
(* and are names.                                                          *)
(***************************************************************************)
EXTENDS Integers, Sequences

Byte == 0 .. 255
kMaxWord == 256 * 256 - 1
Word == 0 .. kMaxWord

(* Utilities::GetByte(value, n): byte n of a uint16_t, 0 the low one.      *)
GetByte(value, n) == IF n = 0 THEN value % 256 ELSE (value \div 256) % 256

(* Utilities::Make_MSB_uint16_tFromU8Array: the high byte comes first.     *)
MakeMSB(high, low) == 256 * high + low

-----------------------------------------------------------------------------
(* enum class Exception *)
kIllegalFunction    == 1
kIllegalDataAddress == 2
kIllegalDataValue   == 3
kAck                == 5

(* enum class Function, and the bit that marks an error reply *)
kReadCoils                     == 1
kReadMultipleHoldingRegisters  == 3
kReadInputRegisters            == 4
kWriteSingleHoldingRegister    == 6
kWriteMultipleHoldingRegisters == 16
kNone                          == 255
kStatusResponseAddValue        == 128

ValidFunctions == 1 .. 8 \cup {11, 12, 15, 16, 17} \cup 20 .. 24 \cup {43}

(* implimented_functions_ of the slave, the same list as                   *)
(* GetSupportedFunctions.                                                  *)
ImplementedFunctions ==
    {kReadMultipleHoldingRegisters, kReadInputRegisters,
     kWriteSingleHoldingRegister, kWriteMultipleHoldingRegisters}

FunctionCodeIsValid(code) == code <= 43 /\ code \in ValidFunctions

GetFunction(code) == IF code \in ValidFunctions THEN code ELSE kNone

GetErrorFunction(function) ==
    IF function >= kStatusResponseAddValue
    THEN function
    ELSE function + kStatusResponseAddValue

GetAddressSpaceFromFunction(function) ==
    CASE function \in {1, 5, 15}         -> "kCoil"
      [] function = 2                    -> "kDiscreteInput"
      [] function = 4                    -> "kInputRegister"
      [] function \in {3, 6, 16, 22, 23} -> "kHoldingRegister"
      [] function \in {7, 8, 11, 12}     -> "kSystemStatus"
      [] function \in {17, 43}           -> "kDeviceIdentifier"
      [] OTHER                           -> "kUnmapped"

-----------------------------------------------------------------------------
(* struct Command, struct Frame, class Response: the sizes. *)
kHeaderLength   == 2     \* slave address, function
kFooterLength   == 2     \* CRC
kMaxFrameLength == 256   \* of a Response, of the frame buffer and of the CRC buffer

(* A Frame.  data_length is Len(data); an ArrayView's unused tail is zero  *)
(* after Reset and only the snooper can read it (Padded in Snooper), so it *)
(* is not represented.                                                     *)
FrameType == [address : Byte, function : Byte, data : Seq(Byte)]

EmptyFrame == [address |-> 0, function |-> kNone, data |-> << >>]

(* A Response: its length_ and the bytes of data_ that length_ covers.  A  *)
(* length beyond the array leaves Len(data) at kMaxFrameLength.            *)
ResponseType == [length : Nat, data : Seq(Byte)]

EmptyResponse == [length |-> 0, data |-> << >>]
=============================================================================
