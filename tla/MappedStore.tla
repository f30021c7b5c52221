---------------------------- MODULE MappedStore ----------------------------
(***************************************************************************)
(* A MappedRegisterDataStore behind the register controllers of            *)
(* include/Modbus/RegisterControl.h, with the application on the other     *)
(* side: commands go through the store's validation, the application sets  *)
(* fields through the wrapper and polls the new-data flag.                 *)
(***************************************************************************)
EXTENDS MemoryMap

CONSTANTS
    Map,       \* the wrapper's entries
    Data       \* the bytes a register may be given: <<high, low>>

(* Entries follow one another, perhaps with padding between them.          *)
ASSUME MapAssumption ==
    /\ Map \in Seq(EntryType) /\ Map # << >>
    /\ \A i, j \in 1 .. Len(Map) : i < j => EndPoints(Map)[i] < Map[j].offset
    /\ Data \subseteq Byte \X Byte

VARIABLES
    bank,       \* the wrapper's data_bank_
    new_data,   \* MappedRegisterDataStore::new_data_
    command,    \* history: the last command and its outcome
    given,      \* history: the value an entry was last given as a whole
    seen        \* history: the fields as the application knows them

storeVars == <<bank, new_data, command, given, seen>>

Entries == 1 .. Len(Map)

(* What a range of registers covers. *)
IsEntry(i, address, count) == address = Map[i].offset /\ count = Map[i].words

OneEntry(address, count) == \E i \in Entries : IsEntry(i, address, count)

NoCommand == [op |-> "none", address |-> 0, count |-> 0, ack |-> FALSE, data |-> << >>]

-----------------------------------------------------------------------------
(* The bytes of a write of count registers. *)
Payloads(count) == {[i \in 1 .. 2 * count |-> d[2 - (i % 2)]] : d \in Data}

(* A plausible slip: the flag is toggled.                                  *)
ToggleFlag(ack) == new_data' = (new_data # ack)

(* SetRegister and SetRegisters raise the flag. *)
RaiseFlag(ack) == new_data' = (new_data \/ ack)

(* HoldingRegisterController: kWriteMultipleHoldingRegisters, and with one *)
(* register kWriteSingleHoldingRegister.                                   *)
Write(address, count, data) ==
    LET ack == check_location_valid(Map, address, count)
    IN  /\ command' = [op |-> "write", address |-> address, count |-> count,
                       ack |-> ack, data |-> data]
        /\ IF ack
           THEN /\ bank' \in MappedSetRegisters(Map, bank, address, data)
                /\ UNCHANGED seen
                /\ given' = [i \in Entries |->
                       IF Map[i].offset # address THEN given[i]
                       ELSE IF IsEntry(i, address, count) THEN data
                       ELSE bank'[i]]
           ELSE UNCHANGED <<bank, given, seen>>
        /\ RaiseFlag(ack)

(* Both controllers: a read of count registers.                            *)
Read(address, count) ==
    LET ack == check_location_valid(Map, address, count)
    IN  /\ command' = [op |-> "read", address |-> address, count |-> count, ack |-> ack,
                       data |-> IF ack THEN MappedGetRegisters(Map, bank, address, count)
                                ELSE << >>]
        /\ UNCHANGED <<bank, new_data, given, seen>>

(* A wrapper's set_<field>: the flag is for commands and stays as it is.   *)
SetEntry(i, value) ==
    /\ bank' = [bank EXCEPT ![i] = value]
    /\ given' = [given EXCEPT ![i] = value]
    /\ seen' = [seen EXCEPT ![i] = value]
    /\ UNCHANGED <<new_data, command>>

(* The application looks at the fields and calls SetNewData(false).        *)
SetNewData(value) ==
    /\ new_data' = value
    /\ seen' = bank
    /\ UNCHANGED <<bank, command, given>>

-----------------------------------------------------------------------------
StoreInit ==
    /\ bank = [i \in Entries |-> Zeros(Width(Map[i]))]
    /\ new_data = FALSE
    /\ command = NoCommand
    /\ given = bank
    /\ seen = bank

(* Any range a command can name up to two registers beyond the last entry. *)
Top == EndPoints(Map)[Len(Map)] + 2

StoreNext ==
    \/ \E address \in 0 .. Top, count \in 0 .. Top :
          \/ \E data \in Payloads(count) : Write(address, count, data)
          \/ Read(address, count)
    \/ \E i \in Entries : \E value \in Payloads(Map[i].words) : SetEntry(i, value)
    \/ SetNewData(FALSE)

StoreSpec == StoreInit /\ [][StoreNext]_storeVars

-----------------------------------------------------------------------------
(* The bank keeps a value of its size for every field. *)
StoreTypeOK ==
    /\ bank \in BankType(Map) /\ given \in BankType(Map)
    /\ seen \in BankType(Map)
    /\ new_data \in BOOLEAN

(* Every field has the value it was last given as a whole, by a command    *)
(* for exactly its registers or by the application: no command for another *)
(* entry, for a part of an entry or for the padding reaches it.  Only a    *)
(* command that spans several entries, or none, leaves the entry it starts *)
(* at with what the wrapper made of it.                                    *)
EntryHoldsLastValue == bank = given

(* No field is ever a mixture of two writes: since every command and every *)
(* set_<field> carries one word over and over, the registers of a field    *)
(* are always equal.                                                       *)
NeverTorn ==
    \A i \in Entries : \A k \in 1 .. Width(Map[i]) : bank[i][k] = bank[i][2 - (k % 2)]

(* An application that polls the flag misses nothing: while it is down,    *)
(* every field is as the application set it or last saw it.                *)
FlagTellsOfCommands == ~new_data => bank = seen

(* A step with a command for exactly one entry. *)
ServeStep ==
    \A i \in Entries :
        command' # command /\ IsEntry(i, command'.address, command'.count) =>
            /\ command'.op = "read" => command'.data = given[i]
            /\ command'.op = "write" => bank'[i] = command'.data

(* A command for exactly one entry is served: a read gives the field as it *)
(* is at that moment, a write leaves its bytes in the field.               *)
EntryServed == [][ServeStep]_storeVars

(* SetRegisters relies on it, in the words of its comment: "Validation has *)
(* made each one of the a complete entry to one of our values".  (A        *)
(* command for no register at all carries no value; it is left aside.)     *)
AcceptedIsOneEntry ==
    command.ack /\ command.count > 0 => OneEntry(command.address, command.count)
=============================================================================
