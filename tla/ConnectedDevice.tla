-------------------------- MODULE ConnectedDevice --------------------------
(***************************************************************************)
(* The connected device example (examples/ConnectedDevice): a slave whose  *)
(* input and holding registers are two structs behind mapped stores, and   *)
(* the master program that reads every input field into a copy of the      *)
(* struct and writes and reads back every holding field.                   *)
(*                                                                         *)
(* The master's libmodbus calls are external: a call sends a request and   *)
(* returns when the reply came or the response timeout passed; it leaves   *)
(* the caller's buffer alone when it fails.  The device's application      *)
(* changes its fields meanwhile.                                           *)
(***************************************************************************)
EXTENDS MemoryMap

CONSTANTS
    Volatile,     \* the input fields the device's application updates
    MaxVersion,   \* bound: values an input field runs through
    MaxLost       \* bound: requests and replies lost

ASSUME DeviceAssumption ==
    MaxVersion \in Nat \ {0} /\ MaxLost \in Nat

-----------------------------------------------------------------------------
(* The structs.  A compiler puts an integer at a multiple of its size.     *)

Array(bytes)   == [size |-> bytes, align |-> 1, kind |-> "bytes"]
Integer(bytes) == [size |-> bytes, align |-> bytes, kind |-> "integer"]

RoundUp(n, align) == ((n + align - 1) \div align) * align

(* A plausible slip: the fields without padding.                           *)
entry_positions_packed(fields) ==
    LET end[i \in 0 .. Len(fields)] ==
            IF i = 0 THEN 0 ELSE end[i - 1] + fields[i].size
    IN  [i \in 1 .. Len(fields) |->
            [offset |-> end[i - 1] \div 2,
             words  |-> fields[i].size \div 2,
             kind   |-> fields[i].kind]]

(* Where every field ends, in bytes; the struct starts at 0.               *)
Ends(fields) ==
    LET end[i \in 0 .. Len(fields)] ==
            IF i = 0 THEN 0 ELSE RoundUp(end[i - 1], fields[i].align) + fields[i].size
    IN  end

(* entry_positions_: offsetof and sizeof of every field, in registers.     *)
entry_positions(fields) ==
    [i \in 1 .. Len(fields) |->
        [offset |-> RoundUp(Ends(fields)[i - 1], fields[i].align) \div 2,
         words  |-> fields[i].size \div 2,
         kind   |-> fields[i].kind]]

(* struct InputRegisters: four texts, the serial number, fault_status, and *)
(* eleven readings from p5_micro_volts to p3_3_reading.                    *)
InputRegisters ==
    <<Array(64), Array(64), Array(64), Array(64), Array(40), Integer(2)>>
        \o [i \in 1 .. 11 |-> Integer(4)]

(* struct HoldingRegisters; the fifth field is slave_address.              *)
HoldingRegisters ==
    <<Integer(4), Integer(4), Integer(4), Integer(4), Integer(2), Integer(4), Integer(4)>>

InputMap   == entry_positions(InputRegisters)
HoldingMap == entry_positions(HoldingRegisters)

-----------------------------------------------------------------------------
(* The master's script, with the addresses and counts it has as literals.  *)

Call(op, address, count) == [op |-> op, address |-> address, count |-> count]

TextReads ==
    <<Call("read", 0, 32), Call("read", 32, 32), Call("read", 64, 32),
      Call("read", 96, 32), Call("read", 128, 20)>>

StatusReads ==
    <<Call("read", 148, 1), Call("read", 150, 2), Call("read", 152, 2),
      Call("read", 154, 2), Call("read", 156, 2), Call("read", 158, 2)>>

MoreReads ==
    <<Call("read", 160, 2), Call("read", 162, 2), Call("read", 164, 2),
      Call("read", 166, 2), Call("read", 168, 2), Call("read", 170, 2)>>

WriteAndReadBack ==
    <<Call("write", 0, 2), Call("print", 0, 2), Call("write", 2, 2), Call("print", 2, 2),
      Call("write", 4, 2), Call("print", 4, 2), Call("write", 6, 2), Call("print", 6, 2),
      Call("write", 8, 1), Call("print", 8, 1), Call("write", 10, 2), Call("print", 10, 2),
      Call("write", 12, 2), Call("print", 12, 2)>>

Script == TextReads \o StatusReads \o MoreReads \o WriteAndReadBack

Reads == Len(InputRegisters)

(* The registers of a write_buffer: 0xffff, 0xffff - 1. *)
WriteBuffer(count) == [k \in 1 .. count |-> kMaxWord - (k - 1)]

(* Modbus::MakeRegistersToBytes *)
MakeRegistersToBytes(registers) ==
    [i \in 1 .. 2 * Len(registers) |-> GetByte(registers[(i + 1) \div 2], i % 2)]

(* libmodbus: registers from the bytes of a reply, and into a request.     *)
RegistersOf(bytes) == [k \in 1 .. Len(bytes) \div 2 |-> MakeMSB(bytes[2 * k - 1], bytes[2 * k])]
BytesOf(registers) == [i \in 1 .. 2 * Len(registers) |->
                          GetByte(registers[(i + 1) \div 2], i % 2)]

-----------------------------------------------------------------------------
VARIABLES
    version,    \* the input fields of the device, each a number of a value
    holding,    \* holding_map_ of the device
    mirror,     \* inregs_struct of the master
    pos,        \* the next call of the script
    phase,      \* "call", "reply" on its way, or "back" from the call
    buffer,     \* the registers the call brought, zero if it failed
    ok,         \* the call succeeded
    lost,       \* history: messages lost
    taken,      \* history: the version each read met, 0 if the call failed
    acked,      \* history: the addresses whose write was acknowledged
    printed     \* history: the registers printed for an address

inputVars  == <<version>>
masterVars == <<mirror, pos, phase, buffer, ok>>
noteVars   == <<lost, taken, acked, printed>>
deviceVars == <<inputVars, holding, masterVars, noteVars>>

(* The v-th value of a field: all its bytes differ from those of others.   *)
Value(v, width) == [i \in 1 .. width |-> (100 * v + i) % 256]

(* The device's struct of input registers. *)
Inputs == [i \in DOMAIN InputMap |-> Value(version[i], Width(InputMap[i]))]

Current == Script[pos]

(* The registers of a buffer the program has just declared. *)
Fresh == Zeros(Current.count)

-----------------------------------------------------------------------------
(* The device's application sets a field through its wrapper.              *)
Update(i) ==
    /\ version[i] < MaxVersion
    /\ version' = [version EXCEPT ![i] = @ + 1]
    /\ UNCHANGED <<holding, masterVars, noteVars>>

(* SetField and GetField of the holding wrapper, by address: all fields    *)
(* are integers.                                                           *)
HoldingSetField(address, registers) ==
    MappedSetRegisters(HoldingMap, holding, address, BytesOf(registers))

HoldingGetField(address, count) ==
    MappedGetRegisters(HoldingMap, holding, address, count)

(* The request arrives and the slave serves it in one go: an exception     *)
(* when the store refuses the range.                                       *)
Serve ==
    /\ pos <= Len(Script) /\ phase = "call"
    /\ phase' = "reply"
    /\ ok' = check_location_valid(IF Current.op = "read" THEN InputMap ELSE HoldingMap,
                                  Current.address, Current.count)
    /\ IF ok' /\ Current.op = "write"
       THEN holding' \in HoldingSetField(Current.address, WriteBuffer(Current.count))
       ELSE UNCHANGED holding
    /\ buffer' = CASE ok' /\ Current.op = "read" ->
                        RegistersOf(MappedGetRegisters(InputMap, Inputs,
                                        Current.address, Current.count))
                   [] ok' /\ Current.op = "print" ->
                        RegistersOf(HoldingGetField(Current.address, Current.count))
                   [] OTHER -> Fresh
    /\ taken' = IF Current.op = "read" THEN [taken EXCEPT ![pos] = version[pos]] ELSE taken
    /\ UNCHANGED <<version, mirror, pos, lost, acked, printed>>

(* The reply arrives ...                                                   *)
Return ==
    /\ phase = "reply"
    /\ phase' = "back"
    /\ UNCHANGED <<version, holding, mirror, pos, buffer, ok, noteVars>>

(* ... or the timeout passes: the request was lost before the device saw   *)
(* it, or the reply behind it.                                             *)
Timeout ==
    /\ pos <= Len(Script) /\ phase \in {"call", "reply"}
    /\ lost < MaxLost
    /\ lost' = lost + 1
    /\ phase' = "back"
    /\ ok' = FALSE
    /\ buffer' = Fresh
    /\ taken' = IF Current.op = "read" THEN [taken EXCEPT ![pos] = 0] ELSE taken
    /\ UNCHANGED <<version, holding, mirror, pos, acked, printed>>

(* After modbus_read_input_registers, whose result nobody looks at: the    *)
(* buffer goes to the copy of the struct.                                  *)
StoreField ==
    /\ mirror' \in MappedSetRegisters(InputMap, mirror, Current.address,
                                      MakeRegistersToBytes(buffer))
    /\ UNCHANGED <<acked, printed>>

(* After modbus_write_registers. *)
NoteWrite ==
    /\ acked' = IF ok THEN acked \cup {Current.address} ELSE acked
    /\ UNCHANGED <<mirror, printed>>

(* ReadPrint: an error is reported, a reply printed.                       *)
ReadPrint ==
    /\ printed' = IF ok THEN [printed EXCEPT ![Current.address] = buffer] ELSE printed
    /\ UNCHANGED <<mirror, acked>>

(* A plausible slip: after a failed call the program waits for a reply.    *)
ContinueOnSuccess ==
    /\ phase = "back"
    /\ IF ok
       THEN /\ CASE Current.op = "read"  -> StoreField
                 [] Current.op = "write" -> NoteWrite
                 [] Current.op = "print" -> ReadPrint
            /\ pos' = pos + 1
            /\ phase' = "call"
            /\ UNCHANGED <<version, holding, buffer, ok, lost, taken>>
       ELSE UNCHANGED deviceVars

(* main() goes on with the next call, whatever became of this one.         *)
Continue ==
    /\ phase = "back"
    /\ CASE Current.op = "read"  -> StoreField
         [] Current.op = "write" -> NoteWrite
         [] Current.op = "print" -> ReadPrint
    /\ pos' = pos + 1
    /\ phase' = "call"
    /\ UNCHANGED <<version, holding, buffer, ok, lost, taken>>

-----------------------------------------------------------------------------
DeviceInit ==
    /\ version = [i \in DOMAIN InputMap |-> 1]
    /\ holding = [i \in DOMAIN HoldingMap |-> Zeros(Width(HoldingMap[i]))]
    /\ mirror = [i \in DOMAIN InputMap |-> Zeros(Width(InputMap[i]))]
    /\ pos = 1 /\ phase = "call" /\ buffer = << >> /\ ok = FALSE
    /\ lost = 0
    /\ taken = [i \in DOMAIN InputMap |-> 0]
    /\ acked = {}
    /\ printed = [a \in {HoldingMap[i].offset : i \in DOMAIN HoldingMap} |-> << >>]

Master == Serve \/ Return \/ Timeout \/ Continue

Finished == pos > Len(Script)

DeviceNext ==
    \/ \E i \in Volatile : Update(i)
    \/ Master
    \/ Finished /\ UNCHANGED deviceVars

(* A libmodbus call returns after its response timeout at the latest, and  *)
(* the program runs on.                                                    *)
DeviceSpec == DeviceInit /\ [][DeviceNext]_deviceVars /\ WF_deviceVars(Master)

-----------------------------------------------------------------------------
(* Once a field was read, the master's copy of it is exactly one value the *)
(* device had for that field, the one at the moment its request was        *)
(* served, or zero if the call failed; until then it is zero.  The         *)
(* script's literal addresses, the padding of the struct, the byte orders  *)
(* and the whole-entry rule of the store all have to agree for it, and no  *)
(* update of the application ever shows by halves.                         *)
MirrorIsSnapshot ==
    \A i \in DOMAIN InputMap :
        mirror[i] = IF pos > i /\ taken[i] # 0 THEN Value(taken[i], Width(InputMap[i]))
                                               ELSE Zeros(Width(InputMap[i]))

(* A holding field of the device is zero or, as a whole, what the script   *)
(* writes to it; and what the script prints for a field whose write was    *)
(* acknowledged is what it wrote.                                          *)
WrittenAndReadBack ==
    \A i \in DOMAIN HoldingMap :
        LET entry   == HoldingMap[i]
            written == WriteBuffer(entry.words)
        IN  /\ holding[i] \in {Zeros(Width(entry)), BytesOf(written)}
            /\ entry.offset \in acked => holding[i] = BytesOf(written)
            /\ entry.offset \in acked /\ printed[entry.offset] # << >> =>
                   printed[entry.offset] = written

(* The script comes to its end, whatever is lost. *)
ScriptEnds == <>Finished
=============================================================================
