--------------------------- MODULE RegisterControl ---------------------------
(***************************************************************************)
(* The register stores (include/Modbus/DataStores/RegisterDataStore.h) and *)
(* their controllers (include/Modbus/RegisterControl.h): how a command     *)
(* frame is validated, run against a store and answered.                   *)
(*                                                                         *)
(* A store is a function from its addresses to words.  The holding store   *)
(* is the UpdatingRegisterDataStore, the one store with the callbacks the  *)
(* holding controller calls; its flags are a function to BOOLEAN.          *)
(***************************************************************************)
EXTENDS Modbus

CONSTANTS
    HoldingCount,   \* registers of the holding store
    InputCount,     \* registers of the input store
    SizeMod         \* size_t has the values 0 .. SizeMod - 1

(* Stores of any size (1024 registers in examples/LinuxSlave); size_t is   *)
(* wider than the sum of two 16-bit words.                                 *)
ASSUME CountAssumption == HoldingCount \in Nat \ {0} /\ InputCount \in Nat \ {0}
ASSUME SizeAssumption == SizeMod \in Nat /\ SizeMod > 2 * kMaxWord + 1

HoldingAddress == 0 .. HoldingCount - 1
InputAddress   == 0 .. InputCount - 1

-----------------------------------------------------------------------------
(* RegisterDataStore *)

(* size_t arithmetic: one step below zero or above the top wraps around.   *)
SizeT(x) == IF x < 0 THEN x + SizeMod ELSE IF x >= SizeMod THEN x - SizeMod ELSE x

(* IsAddressValid with GetAddressStart() = 0.                              *)
IsAddressValid(size, address) == SizeT(address + 1) <= size

(* A plausible slip: only the end of the range is checked.                 *)
ReadLocationEndValid(size, address, count) ==
    IsAddressValid(size, SizeT(address + count - 1))

(* ReadLocationValid, and WriteLocationValid which calls it.               *)
ReadLocationValid(size, address, count) ==
    /\ IsAddressValid(size, address)
    /\ IsAddressValid(size, SizeT(address + count - 1))

(* A plausible slip: low byte first. *)
GetRegistersLsbFirst(values, address, count) ==
    [i \in 1 .. 2 * count |-> GetByte(values[address + ((i - 1) \div 2)], 1 - (i % 2))]

(* GetRegisters: every register from address on, high byte first.          *)
GetRegisters(values, address, count) ==
    [i \in 1 .. 2 * count |-> GetByte(values[address + ((i - 1) \div 2)], i % 2)]

SetRegister(values, address, value) == [values EXCEPT ![address] = value]

(* A plausible slip: low byte first. *)
SetRegistersLsbFirst(values, address, count, data) ==
    [a \in DOMAIN values |->
        IF a \in address .. address + count - 1
        THEN MakeMSB(data[2 * (a - address) + 2], data[2 * (a - address) + 1])
        ELSE values[a]]

(* SetRegisters: register address + i takes bytes 2i and 2i + 1 of data.   *)
SetRegisters(values, address, count, data) ==
    [a \in DOMAIN values |->
        IF a \in address .. address + count - 1
        THEN MakeMSB(data[2 * (a - address) + 1], data[2 * (a - address) + 2])
        ELSE values[a]]

(* A plausible slip: only the first register of a range is flagged.        *)
SetFlagsFirstOnly(flags, address, count) ==
    [a \in DOMAIN flags |-> flags[a] \/ (count > 0 /\ a = address)]

(* UpdatingRegisterDataStore: set_register(s)_callback ...                 *)
SetFlags(flags, address, count) ==
    [a \in DOMAIN flags |-> flags[a] \/ a \in address .. address + count - 1]

(* A plausible slip: the first register is skipped instead of the last.    *)
ClearSkipsFirst(flags) == [a \in DOMAIN flags |-> IF a = 0 THEN flags[a] ELSE FALSE]

(* ... and the two operations that run over [first, first + length - 1)    *)
(* and so leave the flag of the last register out.                         *)
NewDataAvailable(flags) == \E a \in DOMAIN flags : a + 1 \in DOMAIN flags /\ flags[a]

ClearNewDataFlags(flags) ==
    [a \in DOMAIN flags |-> IF a + 1 \in DOMAIN flags THEN FALSE ELSE flags[a]]

-----------------------------------------------------------------------------
(* Fields of the command frames *)
ReadAddressStart(data)  == MakeMSB(data[1], data[2])
ReadSetting(data)       == MakeMSB(data[3], data[4])
ReadRegisterCount(data) == MakeMSB(data[3], data[4])
ReadDataByteCount(data) == data[5]

(* FillFrame of the command classes: what a master puts in a frame.        *)
WordBytes(w) == <<GetByte(w, 1), GetByte(w, 0)>>

FillFrameRead(slave, function, address, count) ==
    [address |-> slave, function |-> function,
     data |-> WordBytes(address) \o WordBytes(count)]

FillFrameWriteSingle(slave, address, value) ==
    [address |-> slave, function |-> kWriteSingleHoldingRegister,
     data |-> WordBytes(address) \o WordBytes(value)]

(* number_of_data_bytes is a uint8_t. *)
FillFrameWriteMultiple(slave, address, count, values) ==
    [address |-> slave, function |-> kWriteMultipleHoldingRegisters,
     data |-> WordBytes(address) \o WordBytes(count)
                \o <<(2 * Len(values)) % 256>>
                \o [i \in 1 .. 2 * Len(values) |->
                       GetByte(values[1 + ((i - 1) \div 2)], i % 2)]]

(* FillResponseHeader of the command classes; the two header bytes.        *)
FillResponseWriteSingle(slave, address, value) ==
    [length |-> 6,
     data |-> <<slave, kWriteSingleHoldingRegister>>
                \o WordBytes(address) \o WordBytes(value)]

FillResponseWriteMultiple(slave, address, count) ==
    [length |-> 6,
     data |-> <<slave, kWriteMultipleHoldingRegisters>>
                \o WordBytes(address) \o WordBytes(count)]

(* The array of a Response holds the three header bytes and the registers  *)
(* of a read; from 127 registers on GetRegisters writes past its end.      *)
FitsResponse(f) ==
    f.function \in {kReadMultipleHoldingRegisters, kReadInputRegisters} =>
        3 + 2 * ReadRegisterCount(f.data) <= kMaxFrameLength

(* FillResponseHeaderBase with the register bytes behind it.               *)
FillResponseRead(slave, function, count, bytes) ==
    [length |-> 3 + 2 * count,
     data |-> <<slave, function, (2 * count) % 256>> \o bytes]

-----------------------------------------------------------------------------
(* HoldingRegisterController *)

ValidateWriteSingleHoldingRegister(data) ==
    IF ~ReadLocationValid(HoldingCount, ReadAddressStart(data), 1)
    THEN kIllegalDataAddress ELSE kAck

ValidateReadMultiple(size, data) ==
    IF ~ReadLocationValid(size, ReadAddressStart(data), ReadRegisterCount(data))
    THEN kIllegalDataAddress ELSE kAck

(* The range first, then the byte count against the register count.        *)
ValidateWriteMultipleHoldingRegisters(data) ==
    IF ~ReadLocationValid(HoldingCount, ReadAddressStart(data), ReadRegisterCount(data))
    THEN kIllegalDataAddress
    ELSE IF ReadRegisterCount(data) * 2 # ReadDataByteCount(data)
    THEN kIllegalDataValue
    ELSE kAck

(* HoldingRegisterController::ValidateFrame; the last branch is behind an  *)
(* assert(0).                                                              *)
HoldingValidateFrame(f) ==
    IF f.function = kReadMultipleHoldingRegisters
    THEN ValidateReadMultiple(HoldingCount, f.data)
    ELSE IF f.function = kWriteSingleHoldingRegister
    THEN ValidateWriteSingleHoldingRegister(f.data)
    ELSE IF f.function = kWriteMultipleHoldingRegisters
    THEN ValidateWriteMultipleHoldingRegisters(f.data)
    ELSE kAck

(* ReadRegisters of both controllers: the range is checked once more, and  *)
(* the reply keeps its zeros when the check fails.                         *)
ReadRegisters(size, values, address, count) ==
    IF ReadLocationValid(size, address, count)
    THEN GetRegisters(values, address, count)
    ELSE [i \in 1 .. 2 * count |-> 0]

(* HoldingRegisterController::ReadFrame: the return code, the Response and *)
(* the store after the command.  Reads leave the store alone.              *)
HoldingReadFrame(f, values, flags) ==
    LET address == ReadAddressStart(f.data)
        count   == ReadRegisterCount(f.data)
    IN  IF f.function = kWriteSingleHoldingRegister
        THEN [code     |-> 0,
              response |-> FillResponseWriteSingle(f.address, address, ReadSetting(f.data)),
              values   |-> SetRegister(values, address, ReadSetting(f.data)),
              flags    |-> SetFlags(flags, address, 1)]
        ELSE IF f.function = kReadMultipleHoldingRegisters
        THEN [code     |-> 0,
              response |-> FillResponseRead(f.address, f.function, count,
                               ReadRegisters(HoldingCount, values, address, count)),
              values   |-> values,
              flags    |-> flags]
        ELSE IF f.function = kWriteMultipleHoldingRegisters
        THEN [code     |-> 0,
              response |-> FillResponseWriteMultiple(f.address, address, count),
              values   |-> SetRegisters(values, address, count,
                               SubSeq(f.data, 6, 5 + 2 * count)),
              flags    |-> SetFlags(flags, address, count)]
        ELSE [code |-> -1, response |-> EmptyResponse, values |-> values, flags |-> flags]

-----------------------------------------------------------------------------
(* InputRegisterController *)

InputValidateFrame(f) ==
    IF f.function = kReadInputRegisters
    THEN ValidateReadMultiple(InputCount, f.data)
    ELSE kIllegalFunction

InputReadFrame(f, values) ==
    IF f.function # kReadInputRegisters
    THEN [code |-> -1, response |-> EmptyResponse]
    ELSE [code |-> 0,
          response |-> FillResponseRead(f.address, f.function, ReadRegisterCount(f.data),
                           ReadRegisters(InputCount, values, ReadAddressStart(f.data),
                                         ReadRegisterCount(f.data)))]
=============================================================================
