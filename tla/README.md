# ModbusBasic: a TLA+ verification project

ModbusBasic is a header-only C++ library for Modbus RTU slaves. A host gives it
bytes one at a time; it finds the end of each request, checks the CRC, runs the
command against a holding and an input register store and leaves a reply for
the host to send. Beside the slave the repository has a second register store
that maps a struct onto registers, an access layer over memory blocks, and
example programs: a slave and a snooper on a serial port, and a device with its
master. This project models all of these, checks the models with TLC and proves
their safety with TLAPS, from the bytes of the receiver up to the whole program
as an implementation of a plain register server.

## The system

| Part | State | Operations | Correct when |
| --- | --- | --- | --- |
| `ReadContext` (`ModbusRtuProtocol.h`) | `state_`, `bytes_to_read_`, and the `Frame` it fills | `ProcessCharacter`, `Reset`, `PacketReceived` | a packet is reported exactly at the end of a request, and no buffer is left |
| `ProtocolRtu` (`ModbusRtuProtocol.h`) | none | `Frame`, `FrameResponse`, `FrameCrcIsValid`, `ReadFrame` | what one side frames the other accepts |
| commands and controllers (`RegisterControl.h`, `DataCommand.h`) | none of their own | validate and run reads and writes | the verdict is exact at every edge of the ranges, and its effect and reply are the request's |
| `RegisterDataStore`, `UpdatingRegisterDataStore` | registers, new-data flags | get, set, range check, callbacks, flag queries | a flag is set iff a command wrote the register |
| `SlaveProtocolBase`, `ProtocolRtuSlave` (`ModbusRtuSlave.h`) | receiver, response, `response_valid_`, `slave_address_` | `ProcessCharacter`, `ProcessMessage`, `Reset`, `SetAddress` | every good request gets its own reply, nothing else has an effect |
| `LinuxSlave`, `UartController` (examples) | ring buffers, time of the last byte | `Run` for ever | the receiver's contract is kept; after damage the slave recovers |
| `MappedRegisterDataStore` with its wrappers | an entry table, the struct, `new_data_` | range check, field access by address, `set_<field>` | an access touches one whole entry, and the application hears of it |
| `ByteFieldController`, `RegisterController`, `Accessor` | blocks of memory | block search, `access_valid`, `read`, `write` | an access stays in one block of its space |
| `SerialSnooper` example | as `LinuxSlave` | `Run` | only frames that were sent are shown |
| `ConnectedDevice` examples | the device's two structs; the master's copy of one | the device's `Run`, the master's script | the master's copy is what the device had |

Interaction is by calls within one thread. The library owns no thread, no timer
and no port: the host decides when a byte is delivered, when a packet is
processed and when a silence ends a frame. What is concurrent is the outside:
masters and other slaves on the same bus, a line that loses, damages and delays
bytes, the clock, and an application that uses the register stores between any
two calls. The hard behaviours are all there: a stream that is cut at the wrong
byte, a byte that comes when nobody waits for one, a timeout racing bytes that
are already buffered, buffers at their limit, arithmetic at the edge of 16 bits
and of `size_t`. `PROJECT.json` lists them as hazards, each with its properties.

## Modules

| Module | Models |
| --- | --- |
| `Modbus` | codes, address spaces, `Frame`, `Response` (`Modbus.h`) |
| `ReadContext` | the receiver, one action per case of its `switch` |
| `RtuProtocol` | framing and CRC; the CRC function is the constant `Crc`, as it is a function pointer in the code |
| `RegisterControl` | stores, validation and commands as operators |
| `RtuSlave` | composes the three: the slave's operations as actions |
| `LinuxSlave` | composes `RtuSlave` with the host loop, the ring buffers, the line, the masters and the clock |
| `Framer`, `FramedReads` | what a receiver promises, without a countdown; the mapping from `ReadContext` to it |
| `RegisterServer`, `RtuServer` | what a slave promises, without bytes; the mapping from `RtuSlave` to it |
| `MemoryMap`, `MappedStore` | entry tables and fields as operators; the mapped store between commands and application |
| `ConnectedDevice` | composes two `MemoryMap`s (the device's structs) with the master program and a line that loses messages |
| `ByteFields` | blocks, controllers and accessor |
| `Snooper` | extends `LinuxSlave`: the same slave, line and clock under the snooper's loop |
| `ReadContextProofs`, `FramedReadsProofs` | theorems on the receiver and its refinement of `Framer` |
| `RtuSlaveProofs`, `RtuCommandProofs` | theorems on the slave: flags, types and replies; steps and the refinement of `RegisterServer` |
| `LinuxSlaveProofs` | theorems on the host loop with its line and masters |
| `MappedStoreProofs`, `ConnectedDeviceProofs`, `ByteFieldsProofs` | theorems on the mapped store, the device with its master, and the blocks |
| `Crc16` | the CRC-16 the examples pass in, for TLC only |
| `MC*` | constants, inputs and restricted next-state relations for TLC |

Variables carry the names of the members they stand for. A `Frame` keeps its
bytes as a sequence whose length is `data_length`; a `Response` is its `length_`
with the bytes that length covers. Register stores are functions from addresses
to words.

*Faults.* `faults` is a history variable for what the program must never do.
`"assert"`: an `assert(0)` was reached; the model goes on as a build without
assertions does. `"overrun"`: a byte was stored beyond an array. The model then
drops the byte (the response, the copy for the CRC) or lets the frame grow past
its array (`ReadContext.Store`); neither is claimed of the memory, so nothing is
claimed after it. The properties of the slave and of the host loop have the
guard `Intact`, and `RegisterServer` has the state `broken`, from which it may do
anything.

*Which store.* The holding controller calls `set_register_callback`, which only
`UpdatingRegisterDataStore` has, so that is the holding store of the model; the
input store is a plain `RegisterDataStore`. A store may have any size
(`CountAssumption`); the `LinuxSlave` program has 1024 registers
(`examples/LinuxSlave/source/LinuxSlave.h:29`). A reply of up to 125 registers
fits the response array; one of 126 has a byte redirected to element 0 and stays
inside; a read of 127 or more leaves the array, which is an overrun
(`FitsResponse`, `LeavesArray`).

*The host.* The `LinuxSlave` example is the only host loop of the repository
that calls `PacketReceived`. It still names coil and discrete input controllers
the library has dropped; the model has the loop without them. One iteration of
`Run` is four steps (`io`, `packet`, `reply`, `char`) so that masters, line and
clock can act between them. `UartController`'s ring buffer comes from a
submodule; `tests/source/test_ringbuffer.cpp` shows that an insertion into a
full buffer is dropped (`Truncate`). The clock is the wall clock
(`gettimeofday`), so besides passing (`Tick`) it may be set (`StepClock`): the
time since the last byte then jumps, below zero too.

*The snooper.* Its loop ends a frame by silence, prints it if the CRC is good
and hands it to `ProcessMessage`; it never asks `PacketReceived` and never sends.
`ProcessMessage` then reads a `Frame` that may be shorter than its fields: behind
`data_length` are the zeros `Frame::Reset` left (`Padded`). In the run an
acknowledgement of another slave is executed as a write in this way.

*The mapped store.* The bank keeps a byte sequence per field, most significant
byte first. `SetField` of an integer with data of another size depends on a
submodule's function, so `MakeMSBInteger` gives both ends it may cut or fill.
The store has no `set_register_callback`, which the holding controller calls on
it; the model has the two meet as their comments intend. The wrappers under
`examples/ConnectedDevice/common` predate the tables `offsets_` and
`end_points_`; the model takes them as the present generator emits them
(`tests/source/Test*MappedDataStore.h`), in registers. `CopyToArray` is the copy
of the example wrappers, which is bounded by the array. The generated wrappers
of the tests (lines 117-127) pass the size of the data on without that bound, as
the mutant `CopyAll` does: with them a range over several entries writes behind
its field.

*The connected device.* The structs are laid out as a compiler does, an integer
at a multiple of its size, so the padding behind the two 16-bit fields is
computed and not written down; the master's addresses are its literals. A call
of libmodbus is a request the device serves in one go, then the reply or the
timeout. A reply that comes after its timeout is taken to be discarded.

*Blocks.* Where `access_valid` reads past its table any verdict is possible, and
a byte read outside a buffer is `Unknown`; both are recorded in `faults` as
`"outside"`.

### Abstract specifications

`Framer` keeps the bytes of the current frame and decides from that prefix alone
how long the request is; there is no countdown and no split into meta data and
data. `FramesByPrefix` says that `ReadContext` implements it. A byte given to a
complete frame is the host's misuse, after which nothing is promised;
`HostKeepsContract` shows that the Linux slave never does it.

`RegisterServer` has two arrays, the request at hand and the reply, and serves a
request in one step in plain integers, until it is `broken`. `ServesRegisters` says that
`RtuSlave` implements it up to its first fault, with the request decoded from a complete frame and the reply as a
master reads it in the response buffer: byte orders, field positions, `size_t`
arithmetic and the lifetime of the response all disappear in the mapping.

## Runs

| Run | Question | Size |
| --- | --- | --- |
| `read_context` | does the countdown find the end of every request? | 1.6 thousand states |
| `rtu_slave` | are requests judged, executed and answered right? | 173 thousand states |
| `rtu_slave_long` | the largest reads and writes | 6.8 thousand states |
| `rtu_slave_full_read` | a read of 126 registers (violated, see below) | |
| `linux_slave` | safety of the whole loop on a faulty bus | 4.3 million states |
| `linux_slave_live` | recovery and answers, the wall clock stepped | 116 thousand states |
| `linux_slave_coils` | is an unsupported function refused? (violated) | |
| `mapped_store` | does every field keep what it was given? | 85 thousand states |
| `mapped_store_span` | is an accepted range one entry? (violated) | |
| `connected_device` | does the master end up with the device's values? | 15 thousand states |
| `byte_fields` | are accesses granted and done in the right place? | 48 thousand states |
| `snooper` | what is shown, and does the snooper recover? | 288 thousand states |

*Bounds.* The receiver branches on the function byte and on the byte count of
a write alone, so `read_context` varies those two (implemented, valid but
unimplemented and invalid codes; counts at 0, at the end of the array and at
255) and uses a filler for the rest. `rtu_slave` has stores of 3 and 2
registers, which have a first, an inner and a last register, and requests on a
grid over and beyond their ends and over 16 bits; its resets come at any byte.
The application's steps are taken between requests and before the processing of
one; they touch nothing the receiver reads, so elsewhere they commute with it.
`rtu_slave_long` has 127 registers and reads of 125, the most a correct reply can
carry, and of 127, the fewest that leave the response array; its writes announce
246, 248 and 254 bytes.
`linux_slave` sends 2 requests with 2 line faults (`MaxRequests`, `MaxFaults`):
enough to splice two frames, to lose bytes of both, and for a timeout to fall
into either; the receive ring of 14 bytes overflows when two requests pile up.
`SizeMod` only has to exceed the sum of two words (`SizeAssumption`).
`linux_slave_live` and `snooper` may also set the clock back beyond the silence
or forward by a tick (`ClockSteps`).
`mapped_store` has an array, a one-register integer, padding and a two-register
integer, which is every neighbourhood the generated maps have, and every range
that starts and ends up to two registers behind them; every command carries one
word over and over, so that a torn field shows (`NeverTorn`). `connected_device`
has the real structs and the whole script; two input fields, a text and the
integer behind the padding, change once (`Volatile`, `MaxVersion`), and one
request or reply is lost (`MaxLost`). `byte_fields` makes three calls: a write, a
call that could disturb it and a read; a gap lies between the blocks, one block
has more room than it needs and one leaves its buffer. `snooper` sends two
frames, with one loss, damage, clock step or hold-up of the loop; the frames are
a request, a read reply and an acknowledgement whose CRC makes it a whole write
for the snooper's slave.

*Fairness.* `main` calls `Run` in an endless loop: weak fairness of the loop's
steps. `ReadIntoRxBuff` reads until the port has no more, so a byte on the line
is read by some later call: strong fairness of a read that gets at least one
byte (a call may find the port empty, and so the step is not continuously
enabled while the loop is elsewhere). Time passes while the line is silent: weak
fairness of such ticks. Nothing is assumed of the masters and the line. The
snooper's loop is called in the same way; its silence also needs an empty ring
buffer, so the fair ticks are those with the line and the buffer empty. In
`connected_device` a libmodbus call returns after its response timeout at the
latest (the program sets one second) and the program runs on: weak fairness of
the master.

### What the runs show

* The receiver reports a packet exactly at a request's end, and stores at most
  262 bytes (`FrameBoundary`, `FrameFits`).
* A ready reply always answers the frame still in the receiver, complete and
  with a good CRC (`ReplyMatchesRequest`). The verdict on a request is that of
  the slave's own rules in plain integers, so no wrap-around of `size_t` changes
  it (`AnsweredByVerdict`). These rules are not the protocol's: the slave
  acknowledges a quantity of 0 inside the store and has no upper limit of the
  quantity, where the protocol asks for exception 03, and it judges the range
  before the rest. Refused and foreign
  frames change nothing (`RejectedHasNoEffect`), writes and reads move the right
  values (`WriteTakesEffect`, `ReadDecodes`).
* The new-data flags follow the master's writes, except that the last
  register's flag is neither reported nor cleared by the two operations that
  end one short of it (`FlagsTrackWrites`, `NewDataReported` state it so).
* Buffers are left only by a write that announces 248 bytes or more, one
  register more than the protocol allows, and by a read of 127 registers or more
  from a store that has them, two more than it allows
  (`OverrunOnlyByLongRequest`). The code has no check of its own against either.
* In the host loop no byte ever meets a complete frame (`HostKeepsContract`),
  what the CRC lets through is, byte by byte, a request that was sent
  (`AcceptedWasSent`, with the real CRC-16 and the fault patterns of the run; a
  CRC cannot exclude every pattern), replies answer requests in order and at
  most once (`RepliesInOrder`), damage never becomes a write
  (`OnlyRequestedWrites`), and silence
  resynchronises the receiver (`Resynchronises`). The ring buffer read before
  the timeout is what makes `CleanRequestAnswered` hold. A stepped clock delays
  the recovery and does not prevent it.
* The slave is an implementation of `RegisterServer` for the small stores and
  for the largest frames, up to an overrun (`ServesRegisters`).
* A field of a mapped store has the value it was last given as a whole; commands
  for parts of entries, for padding and beyond are kept out by the range check,
  since `GetMemoryMapEntryIndex` would give them the first entry
  (`EntryHoldsLastValue`, `EntryServed`, `NeverTorn`), and while the flag is down
  the application knows every field (`FlagTellsOfCommands`).
* The master's literals fit the structs' padding, its copy of a field is one
  value the device had, or zero where a call failed: it does not look at the
  result of a read, so a lost reply looks like a zero (`MirrorIsSnapshot`). What
  is acknowledged can be read back (`WrittenAndReadBack`), and the script ends
  whatever is lost (`ScriptEnds`).
* `access_valid` grants exactly the ranges inside one block as long as some
  block ends at or behind the address (`ValidIsInOneBlock`); reads give back
  writes at the same address, through the joint space too (`ReadGivesWritten`).
* The snooper shows only frames that were sent, whole and in order, wherever the
  stream was cut (`ShownInOrder`), it recovers after silence, and it shows what
  the receiver takes for unfinished (`CleanReplyShown`).

### Disagreements

* `rtu_slave_full_read`: a read of 126 registers passes validation; its reply
  needs 257 bytes, the last CRC byte is redirected to element 0 of the response
  and replaces the slave address.
* `linux_slave_coils`: for a valid function that is not implemented the
  receiver expects three bytes, so a standard Read Coils request is cut, its
  CRC fails and the error reply `documents/design.md` asks for is never sent.
* `mapped_store_span`: a range from the start of one entry to the end of a later
  one is accepted and handed to the first of them as a whole, although the
  comment on `SetRegisters` says that validation has made it one complete entry.
  TLC's trace is a write of three registers over the first two entries. (An
  empty range passes as well where an entry starts right behind another;
  `AcceptedIsOneEntry` leaves that case out and speaks of ranges with registers
  in them.)

More observations come out of the models and have no run of their own:

* A packet with a bad CRC is dropped without an answer
  (`RejectedHasNoEffect`), where `documents/design.md:77` says "Check crc, reject
  send error response or continue". The code agrees with the protocol here,
  under which a damaged request is never answered: its address and function
  cannot be trusted.
* `new_data_available` and `clear_new_data_flags` end one register short: the
  flag of the last register is set by a write and then neither reported nor
  cleared. `FlagsTrackWrites` and `NewDataReported` state this behaviour and do
  not object to it.

* `ByteFieldController::access_valid` reads one past its table when no block
  ends at or behind the address, where `test_RegisterController.cpp` expects
  `false` (the first case of `access_valid` in `ByteFields`).
* `RegisterController` indexes a block's buffer with the register address plus a
  byte number, neither scaled nor relative to the block. In a block at address
  0 a transfer from address 0 is safe from that, and every transfer if the
  buffer has two bytes for each register (`FirstBlockIsNeverLeft`); the tables of
  `test_RegisterController.cpp` have fewer. The third block of the run is left.
* The snooper hands bytes to a complete frame, where the receiver asserts:
  `HostKeepsContract`, which the Linux slave keeps, does not hold of `SnoopSpec`.
  And it looks for packets in `kData` only, so that whole requests, which the
  receiver counts to the end, are never shown: `CleanReplyShown` speaks of the
  other frames. With assertions off, what is shown is still only what was sent
  (`ShownInOrder`).

## Proofs

Every theorem holds for all values of the constants its module admits: stores of
any size, any CRC function, any traffic, ring size and
timeout, any map, any table of blocks. Hypotheses beyond the assumptions on the
constants are named in the theorem.

| Hypothesis | Says | Why the code meets it |
| --- | --- | --- |
| `CrcIsWord` | the CRC of bytes is a 16-bit word | the function pointer returns `uint16_t` |
| `ReadsFit` | no read of more than 125 registers is accepted | the protocol's limit of a read, which the code leaves to the masters; at 126 the statements are false (`rtu_slave_full_read`), so it cannot be dropped |
| `StoresFitReply` | at most 125 registers in a store | gives `ReadsFit` for every traffic (`SmallStoresReply`); not met by the 1024 registers of the `LinuxSlave` program, whose theorems do without it |
| `TxHoldsReply` | the transmit ring holds 257 bytes, the longest reply that stays in its array | `UartController` has rings of 1024 |
| `BlocksHaveRegisters` | no block is empty or ends beyond `size_t` | see below |
| `AcceptedWasSent` | a packet that passes the CRC check for this slave is one that was sent | what the protocol relies on the CRC for; `linux_slave` checks it with the CRC-16 of the examples |

### The receiver

`ReadContextProofs` proves, for every stream of bytes and resets:

* `FramingCorrect`: `CtxTypeOK /\ CountdownInv` is an invariant. It is the
  inductive invariant: the end of a frame is decided by `bytes_to_read_` alone,
  so a statement about complete frames is not inductive; `CountdownInv` says in
  every state that what is stored and what is still expected add up to the meta
  bytes (`kMeta`) or to the whole request (`kData`, `kDone`). Its first part
  holds even after a byte met a complete frame: then the stored bytes are at
  least enough, so no field is read before it is stored.
* `CtxTypeCorrect`, `FrameBoundaryCorrect`, `FrameFitsCorrect`: consequences of
  it.

`FramedReadsProofs` proves the refinement `FramesByPrefixCorrect`: every
behaviour of the receiver is one of `Framer`. One lemma per case of the `switch`
shows that the step takes the byte (`AddressByteTakes`, `FunctionByteTakes`,
`StoredByteTakes`); `CompleteByPrefix` is the bridge between the two notions of
an end: in a reachable state the countdown is at zero exactly when the stored
bytes have the length their own prefix announces. It rests on `FramingCorrect`
before and after the step.

### The slave

* `RangeCheckExact` (`RtuSlaveProofs`): the `size_t` arithmetic of
  `ReadLocationValid` accepts exactly the ranges inside the store, the
  wrap-around of a count of zero at address 0 included.
* `NewDataCorrect`, `FlagsCorrect`: `FlagsTrackWrites` and `NewDataReported`.
  The inductive invariant `FlagsInv` adds the receiver's, because a command's
  fields are only words when its frame is complete, and with them the range
  check keeps every flagged register inside the store.
* `SlaveTypeCorrect`, `ReplyCorrect`: `SlaveTypeOK` and
  `ReplyMatchesRequest`, the latter while `ReadsFit` holds; `SmallStoresReply`
  has it without that hypothesis for small stores. The inductive invariant `SlaveInv` joins the types to
  the receiver's and the flags' invariants; `ReplyMatchesRequest` is inductive
  relative to it. The work is in lemmas about the operators:
  `FrameResponseShape` (what the CRC and the header do to a response),
  `VerdictExact` (validation in `size_t` is the verdict in integers),
  `WriteReply`, `ReadReply` and `RefusalReply` (the bytes of each kind of
  answer), `WriteStores` (the registers after a write).
* `RejectedCorrect`, `AnsweredCorrect`, `WriteCorrect`, `ReadCorrect`,
  `OverrunCorrect` (`RtuCommandProofs`): the action properties of the run
  `rtu_slave` and `rtu_slave_long`, each from `SlaveInv` and those lemmas;
  `ReadCorrect` needs `ReadsFit`. `FaultsStay` says that a fault is never
  forgotten, so that a guard on the state after a step is one on that before.
* `ServesCorrect`: the refinement of `RegisterServer` up to the first fault,
  under `ReadsFit`. A byte given to a complete frame or a store outside an array
  is `Break`. `JudgeExact` shows that the server's judgement of the
  decoded request is the code's verdict on the frame, `RefusalRead`, `WriteRead`
  and `ReadRead` that a master's reading of the reply is the server's answer,
  `WriteWritten` that the registers agree; `ServedAtOnce` puts them together. A
  byte is a stutter or `Arrive`, a reset is `Leave`, the application's writes
  are the server's own. The run of the same property also has the host process
  a packet only once; the proof shows that this is not needed.

### The host loop

`LinuxSlaveProofs` works with `HostInv`: `TypeOK`, `SlaveInv` and `LoopInv`, what
the program counter knows (at `char` no packet is complete; from `packet` to
`reply` the transmit ring is empty, because `Run` served it before; no assertion
was met; a response has at most 257 bytes). Without `LoopInv` neither the
contract nor the queueing is inductive: both depend on the order of the checks
in `Run`.

* `HostTypeCorrect`: `TypeOK`, the bounds of the ring buffers included.
* `HostRunsSlave`: every behaviour of loop, line, masters and clock is a
  behaviour of `RtuSlave`, so that all its theorems hold in the program.
* `HostContractKept`: `HostKeepsContract` unless an array was left. For any
  traffic a master may announce 248 bytes or more or read 127 registers;
  `OverrunCorrect` says that these are the only ways. The traffic of the run does not, so there the invariant
  holds as it stands.
* `QueuedWhole`: `ReplyQueuedWhole`, for stores of every size and every read, up
  to an overrun. `WriteResponse` hands `GetLength()` bytes to the ring, which at
  126 registers is one more than the array has.
* `HostServes`: `Spec /\ []ReadsFit => ServesRegisters`. Whatever the bus does, and
  for stores of every size, the program is a register server up to the first
  overrun: from `HostRunsSlave` and `ServesCorrect`. With the program's 1024
  registers it is the masters, and not the store, that keep `ReadsFit`; a master
  that does not gets a damaged reply at 126 registers, and from 127 on the
  program leaves its array.
* `RequestedWrites`: `OnlyRequestedWrites`, as long as `AcceptedWasSent` holds.
  The hypothesis says that the bytes of the packet are those of some request;
  what is proved is all that lies between those bytes and the registers. A frame
  has the CRC behind its data, so `FrameOfRequest` and `WritesOfRequest` show
  that the fields the code reads are the request's and that a byte count it
  accepts never reaches into the CRC; `WriteStores`, `ReadLeavesStore` and the
  refusals show that nothing else is stored, `SentKept` that a value keeps its
  origin. The invariant `PacketHeld` supplies that the address is the one of
  start-up.
* `AnsweredWasAsked`: under the same hypothesis and `ReadsFit`, and while no array
  was left,
  every reply in the history has the address and function of a request sent to
  this slave (`RepliesToRequests`, the part of `RepliesInOrder` without the
  order). `PacketHeld` says that a valid response exists only at `reply`, with
  the packet it is for still accepted: without it `ReplyCorrect`, which speaks
  of the frame in the receiver, could not be tied to a request.

### Mapped store and blocks

`MappedStoreProofs` proves `StoreTypeCorrect`, `LastValueKept`,
`FieldsNeverTorn`, `FlagCorrect` and the action property `EntriesServed` for
every map whose entries lie apart (`MapAssumption`). The inductive invariant
`StoreInv` says that every field has its width and repeats one word (`Untorn`):
`NeverTorn` alone does not bound a field, and then the bytes a command moves
cannot be followed. `AcceptedRange` shows that an accepted range takes at least the whole
first entry, which is why the code's check is enough for `NeverTorn` although it
is not for `AcceptedIsOneEntry`.

`ConnectedDeviceProofs` proves `CopyIsSnapshot` and `ReadBackIsWritten`, the two
invariants of the run `connected_device`, for any set of changing fields, any
number of changes and any number of lost messages. The layout is that of the
program: `EndsRecursion` unfolds the recursive `Ends` one field at a time, so
that the provers compute the padded offsets of both structs, and
`ScriptFitsMaps` shows that each literal of the script names exactly one field
with its width. `FieldFound`, `FieldSet` and `FieldGot` then say what the store
does with such a range, `BytesThroughRegisters` and `RegistersThroughBytes` that
the byte order of the device and those of the master cancel out. The inductive
invariant `DeviceInv` adds what is under way: `CallInv` says that the buffer of a
finished call is the value noted in `taken`, zeros or, for a print, the field,
and `PrintInv` that nothing is printed for an address before its turn, which is
why a later acknowledgement cannot contradict an earlier print.

`ByteFieldsProofs` proves `ValidCorrect`, `FirstBlockCorrect` and the action
property `WrittenIsRead` for every sorted table. The inductive
invariant `FieldsInv` says that the bytes of the last write are still where it
put them (`WrittenThere`). `fields_are_sorted` compares neighbours only;
`BlocksApart` gets from there to all pairs by a least counterexample, which is
the one way to an induction that the provers accept (`LeastElement`, from the
well-foundedness of `<`). Finding its hypotheses showed one more thing about the
code: a block of length 0 at address 0 has `block_end` wrap to the largest
`size_t`, so that every access is taken for one in that block;
`BlocksHaveRegisters` excludes it; the tables of `test_RegisterController.cpp`
have none.

### Model-checked only

* Liveness (`Resynchronises`, `CleanRequestAnswered`, `ScriptEnds`,
  `CleanReplyShown`): fairness is out of the prover's reach.
* `AcceptedWasSent`: it rests on the CRC-16 telling the damaged frames of the
  run from good ones, which no theorem about an arbitrary `Crc` can have, and
  the CRC is a recursive definition.
* The order in `RepliesInOrder` and in the snooper's `ShownInOrder`: besides the
  CRC it needs to know which of two equal requests a packet's bytes came from,
  a history of every byte on the line that the model does not keep.

## Not modelled

* Coils, discrete inputs and the other functions: not implemented by the code.
* `FunctionIsSupported` and `GetSupportedFunctions`: never called.
* `printf`, serial port set-up: I/O without effect on the protocol state.
* The connected device's byte-level loop: it is the Linux slave's, and the
  composition of bytes, two stores and the master's script adds no interaction
  that `linux_slave` and `connected_device` do not have.
* The other master scripts (`libmodbus_master.cpp`, `asynchronous_server.py`):
  calls of third-party libraries without logic of their own.
* The map generators and the generated test wrappers, and the stub
  `RtuProtocol.h`.

## Coverage of the plan

1. The receiver, the slave and the Linux host loop; the mapped store and the
   connected device; the block layer; the snooper; the abstract specifications
   with both refinements: modelled and checked.
2. The receiver, the slave and its steps, the host loop, the mapped store, the
   connected device, the blocks and both refinements: proved.
3. The snooper's loop, the order of replies and liveness stay with TLC, for the
   reasons under *Model-checked only*.
