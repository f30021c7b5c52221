----------------------------- MODULE MemoryMap -----------------------------
(***************************************************************************)
(* The operations of MappedRegisterDataStore                               *)
(* (include/Modbus/MappedRegisterDataStore.h) and of the generated         *)
(* wrappers it calls (examples/ConnectedDevice/common): a struct of fields *)
(* seen as 16-bit registers.                                               *)
(*                                                                         *)
(* A map is a sequence of entries, one per field, in the order of the      *)
(* identifiers: where the field starts and how many registers it takes.    *)
(* The bank, the struct, has a byte sequence for every entry; an integer   *)
(* is its bytes from the most significant one on.                          *)
(***************************************************************************)
EXTENDS Modbus

EntryType == [offset : Nat, words : Nat \ {0}, kind : {"bytes", "integer"}]

Width(entry) == 2 * entry.words

(* offsets_ and end_points_ of a wrapper. *)
Offsets(map)   == [i \in DOMAIN map |-> map[i].offset]
EndPoints(map) == [i \in DOMAIN map |-> map[i].offset + map[i].words - 1]

BankType(map) == {bank \in [DOMAIN map -> Seq(Byte)] :
                     \A i \in DOMAIN map : Len(bank[i]) = Width(map[i])}

-----------------------------------------------------------------------------
(* The first place of value in a collection, or the place behind it.       *)
get_matching_index(value, collection) ==
    LET places == {i \in DOMAIN collection : collection[i] = value}
    IN  IF places = {} THEN Len(collection) + 1
        ELSE CHOOSE i \in places : \A j \in places : i <= j

(* A plausible slip: the start alone decides.                              *)
start_valid(map, address, count) ==
    count \in Nat /\ \E i \in DOMAIN map : Offsets(map)[i] = address

(* A plausible slip: the end alone decides.                                *)
end_valid(map, address, count) ==
    \E j \in DOMAIN map : EndPoints(map)[j] = address + count - 1

(* Some entry starts at address, some entry ends with the range.  The      *)
(* size_t difference of no register at address 0 is no end point either    *)
(* way.                                                                    *)
check_location_valid(map, address, count) ==
    /\ \E i \in DOMAIN map : Offsets(map)[i] = address
    /\ \E j \in DOMAIN map : EndPoints(map)[j] = address + count - 1

(* A plausible slip: the entry behind the one that matches.                *)
NextMemoryMapEntryIndex(map, address) ==
    LET index == get_matching_index(address, Offsets(map))
    IN  IF index >= Len(map) THEN 1 ELSE index + 1

(* The entry that starts at address; the first entry when none does.       *)
GetMemoryMapEntryIndex(map, address) ==
    LET index == get_matching_index(address, Offsets(map))
    IN  IF index > Len(map) THEN 1 ELSE index

-----------------------------------------------------------------------------
(* The wrapper's fields *)

Zeros(n) == [i \in 1 .. n |-> 0]

(* Utilities::Make_MSB_IntegerTypeFromArray: data of the integer's size is *)
(* its bytes; other data is cut or filled with zeros at one end, which of  *)
(* them is not this library's choice.                                      *)
MakeMSBInteger(data, width) ==
    LET n == Len(data)
    IN  {[i \in 1 .. width |-> IF i <= n THEN data[i] ELSE 0],
         [i \in 1 .. width |-> IF i + n > width THEN data[i + n - width] ELSE 0]}

(* A plausible slip: the size of the data is trusted, as the generated     *)
(* wrappers of the tests do (tests/source/Test*RegisterMappedDataStore.h). *)
CopyAll(old, data) == SubSeq(data, 1, Len(data)) \o SubSeq(old, Len(data) + 1, Len(old))

(* An array takes the bytes that it and the data have both: the bound of   *)
(* the wrappers of examples/ConnectedDevice.                               *)
CopyToArray(old, data) ==
    [i \in 1 .. Len(old) |-> IF i <= Len(data) THEN data[i] ELSE old[i]]

(* SetField of a wrapper: the banks it may leave.                          *)
SetField(map, bank, index, data) ==
    LET entry == map[index]
        news  == IF entry.kind = "bytes" THEN {CopyToArray(bank[index], data)}
                 ELSE MakeMSBInteger(data, Width(entry))
    IN  {[bank EXCEPT ![index] = new] : new \in news}

(* GetField of a wrapper into a buffer of size bytes that was zero.        *)
GetField(map, bank, index, size) ==
    [i \in 1 .. size |-> IF i <= Width(map[index]) THEN bank[index][i] ELSE 0]

-----------------------------------------------------------------------------
(* MappedRegisterDataStore::SetRegisters and GetRegisters: whatever the    *)
(* range, the field that starts at address.                                *)
MappedSetRegisters(map, bank, address, data) ==
    SetField(map, bank, GetMemoryMapEntryIndex(map, address), data)

MappedGetRegisters(map, bank, address, count) ==
    GetField(map, bank, GetMemoryMapEntryIndex(map, address), 2 * count)
=============================================================================
