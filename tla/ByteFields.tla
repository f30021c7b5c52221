----------------------------- MODULE ByteFields -----------------------------
(***************************************************************************)
(* The second access layer of the library, which no slave uses yet:        *)
(* ByteFieldController finds the block of memory an address is in,         *)
(* RegisterController copies registers from and to it, Accessor picks the  *)
(* controller of an address space.  The two spaces may share one           *)
(* controller.                                                             *)
(*                                                                         *)
(* faults records "assert", an assertion reached (a build without          *)
(* assertions goes on as modelled), and "outside", an access outside the   *)
(* array it is meant for; a byte read there is Unknown.                    *)
(***************************************************************************)
EXTENDS Modbus

CONSTANTS
    Fields,        \* the U8Fields of each controller, in their order
    BufferSizes,   \* sizes of the callers' buffers
    MaxAddress,    \* bound: addresses and lengths of a call
    MaxLength,
    MaxCalls,      \* bound: calls made
    SizeMod        \* size_t has the values 0 .. SizeMod - 1

Controllers == {"holding", "input"}
Spaces      == {"kHoldingRegister", "kInputRegister", "kCoil"}

FieldType == [address : Nat, length : Nat, size : Nat]

(* fields_are_sorted, asserted by the constructor of ByteFieldController.  *)
fields_are_sorted(fields) ==
    \A i \in 2 .. Len(fields) :
        fields[i].address >= (fields[i - 1].address + fields[i - 1].length) % SizeMod

ASSUME FieldsAssumption ==
    /\ MaxAddress \in Nat /\ MaxLength \in Nat /\ MaxCalls \in Nat
    /\ BufferSizes \subseteq Nat
    /\ SizeMod \in Nat /\ SizeMod > MaxAddress + MaxLength
    /\ Fields \in [Controllers -> Seq(FieldType)]
    /\ \A c \in Controllers : fields_are_sorted(Fields[c])

VARIABLES
    joint,    \* both spaces were given the holding controller
    memory,   \* the block buffers of each controller
    last,     \* history: the last call and what came of it
    calls,    \* history: number of calls
    faults    \* history: the faults met so far

fieldVars == <<joint, memory, last, calls, faults>>

Unknown == 256

-----------------------------------------------------------------------------
(* ByteFieldController *)

block_end(field) == (field.address + field.length - 1) % SizeMod

(* A plausible slip: the last address of a block is left out.              *)
find_block_short(fields, address) ==
    LET hits == {i \in DOMAIN fields : address < block_end(fields[i])}
    IN  IF hits = {} THEN Len(fields) + 1 ELSE CHOOSE i \in hits : \A j \in hits : i <= j

(* The first block that does not end before address; behind the last one   *)
(* when all of them do.                                                    *)
find_block(fields, address) ==
    LET hits == {i \in DOMAIN fields : address <= block_end(fields[i])}
    IN  IF hits = {} THEN Len(fields) + 1 ELSE CHOOSE i \in hits : \A j \in hits : i <= j

Found(fields, address) == find_block(fields, address) \in DOMAIN fields

(* access_valid: what it may return.  Without a block entries_ is read     *)
(* past its end, and what is found there decides.                          *)
access_valid(fields, address, length) ==
    IF ~Found(fields, address) THEN BOOLEAN
    ELSE LET field == fields[find_block(fields, address)]
         IN  {/\ address >= field.address
              /\ (address + length - 1) % SizeMod <= block_end(field)}

-----------------------------------------------------------------------------
(* RegisterController *)

Smaller(m, n) == IF m < n THEN m ELSE n

transfer_length(field, length, size) ==
    Smaller(Smaller(size, field.size) \div 2, length)

(* A plausible slip: bytes counted from one.                               *)
entry_address_next(address, i) == address + i + 1

(* entry_address of the i-th byte of a transfer: address counts registers, *)
(* but neither is it scaled nor is the start of the block taken off.       *)
entry_address(address, i) == address + i

(* The faults of a transfer of n registers. *)
TransferFaults(field, address, n) ==
    (IF n = 0 THEN {"assert"} ELSE {})
        \cup (IF n > 0 /\ entry_address(address, 2 * n - 1) >= field.size
              THEN {"outside"} ELSE {})

(* A plausible slip: the read counts in registers, the write in bytes.     *)
CopiedScaled(bytes, address, n) ==
    [i \in 1 .. 2 * n |->
        LET at == entry_address(2 * address, i - 1)
        IN  IF at < Len(bytes) THEN bytes[at + 1] ELSE Unknown]

(* The bytes a read of n registers copies. *)
Copied(bytes, address, n) ==
    [i \in 1 .. 2 * n |->
        LET at == entry_address(address, i - 1)
        IN  IF at < Len(bytes) THEN bytes[at + 1] ELSE Unknown]

(* The block buffer after a write of n registers from data.  What goes     *)
(* past its end is not followed further: the call has "outside" among its  *)
(* faults, after which nothing is claimed of any memory.                   *)
Overwritten(bytes, address, n, data) ==
    [k \in 1 .. Len(bytes) |->
        LET i == k - address
        IN  IF i \in 1 .. 2 * n THEN data[i] ELSE bytes[k]]

-----------------------------------------------------------------------------
(* Accessor: calls for a space without a controller do nothing.            *)

(* p_holding_register_ and p_input_register_ *)
Controller(space) ==
    IF space = "kInputRegister" /\ ~joint THEN "input" ELSE "holding"

HasController(space) == space \in {"kHoldingRegister", "kInputRegister"}

(* The call was made; what came of it, for the properties. *)
Note(op, space, address, length, result, data) ==
    /\ calls' = calls + 1
    /\ UNCHANGED joint
    /\ last' = [op |-> op, space |-> space, address |-> address, length |-> length,
                result |-> result, data |-> data]

NoController(op, space, address, length) ==
    /\ ~HasController(space)
    /\ Note(op, space, address, length, 0, << >>)
    /\ UNCHANGED <<memory, faults>>

(* access_valid, 1 for true. *)
Query(space, address, length) ==
    \/ NoController("valid", space, address, length)
    \/ /\ HasController(space)
       /\ LET fields == Fields[Controller(space)]
          IN  /\ \E valid \in access_valid(fields, address, length) :
                    Note("valid", space, address, length, IF valid THEN 1 ELSE 0, << >>)
              /\ faults' = IF Found(fields, address) THEN faults
                           ELSE faults \cup {"outside"}
       /\ UNCHANGED memory

(* read and write as far as both do the same: refused, or without a block  *)
(* (then nothing more is claimed), or n registers transferred.             *)
Refused(op, space, address, length) ==
    /\ HasController(space)
    /\ LET fields == Fields[Controller(space)]
       IN  /\ FALSE \in access_valid(fields, address, length)
           /\ faults' = IF Found(fields, address) THEN faults ELSE faults \cup {"outside"}
    /\ Note(op, space, address, length, 0, << >>)
    /\ UNCHANGED memory

(* The block of a call that goes through, and the registers it moves.      *)
Granted(space, address, length) ==
    /\ HasController(space)
    /\ Found(Fields[Controller(space)], address)
    /\ TRUE \in access_valid(Fields[Controller(space)], address, length)

Block(space, address) == find_block(Fields[Controller(space)], address)

Moved(space, address, length, size) ==
    transfer_length(Fields[Controller(space)][Block(space, address)], length, size)

Read(space, address, length, size) ==
    \/ NoController("read", space, address, length)
    \/ Refused("read", space, address, length)
    \/ /\ Granted(space, address, length)
       /\ LET b == Block(space, address)
              n == Moved(space, address, length, size)
          IN  /\ Note("read", space, address, length, n,
                      Copied(memory[Controller(space)][b], address, n))
              /\ faults' = faults \cup
                     TransferFaults(Fields[Controller(space)][b], address, n)
       /\ UNCHANGED memory

Write(space, address, length, data) ==
    \/ NoController("write", space, address, length)
    \/ Refused("write", space, address, length)
    \/ /\ Granted(space, address, length)
       /\ LET c == Controller(space)
              b == Block(space, address)
              n == Moved(space, address, length, Len(data))
          IN  /\ memory' = [memory EXCEPT ![c][b] = Overwritten(@, address, n, data)]
              /\ Note("write", space, address, length, n, SubSeq(data, 1, 2 * n))
              /\ faults' = faults \cup TransferFaults(Fields[c][b], address, n)

-----------------------------------------------------------------------------
FieldsInit ==
    /\ joint \in BOOLEAN
    /\ memory = [c \in Controllers |->
                    [i \in DOMAIN Fields[c] |-> [k \in 1 .. Fields[c][i].size |-> 0]]]
    /\ last = [op |-> "none", space |-> "kCoil", address |-> 0, length |-> 0,
               result |-> 0, data |-> << >>]
    /\ calls = 0
    /\ faults = {}

(* A caller's data: bytes that no earlier call had. *)
Payload(size) == [i \in 1 .. size |-> 16 * (calls + 1) + i]

FieldsNext ==
  /\ calls < MaxCalls
  /\ \E space \in Spaces, address \in 0 .. MaxAddress, length \in 0 .. MaxLength :
        \/ Query(space, address, length)
        \/ \E size \in BufferSizes :
              \/ Read(space, address, length, size)
              \/ Write(space, address, length, Payload(size))

FieldsSpec == FieldsInit /\ [][FieldsNext]_fieldVars

-----------------------------------------------------------------------------
Covers(field, address, length) ==
    address >= field.address /\ address + length <= field.address + field.length

(* While some block ends at or behind the address, access_valid says       *)
(* exactly whether one block holds all registers of the access: one that   *)
(* begins in a gap, or runs from a block into the next, is refused.        *)
ValidIsInOneBlock ==
    last.op = "valid" /\ last.length > 0 /\ HasController(last.space) =>
        LET fields == Fields[Controller(last.space)]
        IN  (\E i \in DOMAIN fields : last.address <= block_end(fields[i])) =>
                (last.result = 1
                    <=> \E i \in DOMAIN fields :
                           Covers(fields[i], last.address, last.length))

(* A step that reads what the step before it wrote. *)
ReadBackStep ==
    /\ last.op = "write" /\ last'.op = "read"
    /\ last.address = last'.address /\ last.length = last'.length
    /\ last.space = last'.space \/ (joint /\ {last.space, last'.space} \subseteq
                                        {"kHoldingRegister", "kInputRegister"})
    /\ faults' = {}
    => \A k \in 1 .. 2 * Smaller(last.result, last'.result) :
           last.data[k] = last'.data[k]

(* A read straight after a write of the same range gives the bytes back,   *)
(* as far as both buffers go and they stayed in the block buffer; when the *)
(* two spaces are joint, through the other one as well.                    *)
ReadGivesWritten == [][ReadBackStep]_fieldVars

(* A transfer out of a block that starts at address 0 stays in the block's *)
(* buffer when it starts at address 0 itself or when the buffer has two    *)
(* bytes for every register: the index is a register address plus a byte   *)
(* number, which is too much only for a start further up.                  *)
FirstBlockIsNeverLeft ==
    last.op \in {"read", "write"} /\ last.result > 0 =>
        LET field == Fields[Controller(last.space)][Block(last.space, last.address)]
        IN  /\ field.address = 0
            /\ last.address = 0 \/ field.size >= 2 * field.length
            => "outside" \notin TransferFaults(field, last.address, last.result)
=============================================================================
