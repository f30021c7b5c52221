------------------------------ MODULE RtuSlave ------------------------------
(***************************************************************************)
(* SlaveProtocolBase and ProtocolRtuSlave                                  *)
(* (include/Modbus/ModbusRtu/ModbusRtuSlave.h): the receiver, the response *)
(* buffer and the command dispatch over a holding and an input register    *)
(* store.  The library owns no thread: a host delivers bytes, asks whether *)
(* a packet is complete, has it processed, sends the response and resets;  *)
(* the application reads and writes the same stores in between.            *)
(***************************************************************************)
EXTENDS ReadContext, RtuProtocol, RegisterControl

VARIABLES
    slave_address,    \* ProtocolRtuSlave::slave_address_
    response,         \* SlaveProtocolBase::response_
    response_valid,   \* SlaveProtocolBase::response_valid_
    holding,          \* the holding registers
    flags,            \* their new-data flags
    inputs,           \* the input registers
    unseen            \* history: registers a command wrote since the
                      \* application last cleared their flags

storeVars == <<holding, flags, inputs, unseen>>
slaveVars == <<ctxVars, slave_address, response, response_valid, storeVars>>

-----------------------------------------------------------------------------
(* ProtocolRtuSlave::ValidateMessage: only an implemented function gets to *)
(* the controller of its address space.                                    *)
ValidateMessage(f) ==
    IF f.function \notin ImplementedFunctions
    THEN kIllegalFunction
    ELSE CASE GetAddressSpaceFromFunction(f.function) = "kInputRegister" ->
                  InputValidateFrame(f)
           [] GetAddressSpaceFromFunction(f.function) = "kHoldingRegister" ->
                  HoldingValidateFrame(f)
           [] OTHER -> kIllegalFunction

(* The registers a write command names: the history's view of a command.   *)
WrittenBy(f) ==
    CASE f.function = kWriteSingleHoldingRegister ->
             {ReadAddressStart(f.data)}
      [] f.function = kWriteMultipleHoldingRegisters ->
             ReadAddressStart(f.data)
                 .. ReadAddressStart(f.data) + ReadRegisterCount(f.data) - 1
      [] OTHER -> {}

(* ProtocolRtuSlave::RunCommand.  A controller that refuses leaves an empty *)
(* response and response_valid_ as it was.                                  *)
RunCommand(f) ==
    LET space == GetAddressSpaceFromFunction(f.function)
        input == InputReadFrame(f, inputs)
        hold  == HoldingReadFrame(f, holding, flags)
        reply == CASE space = "kInputRegister"   -> input
                   [] space = "kHoldingRegister" -> hold
                   [] OTHER -> [code |-> -1, response |-> EmptyResponse]
    IN  /\ response' = IF reply.code = 0 THEN FrameResponse(f, reply.response)
                                         ELSE reply.response
        /\ response_valid' = (response_valid \/ reply.code = 0)
        /\ faults' = IF reply.code = 0 /\ FrameResponseAsserts(reply.response)
                     THEN faults \cup {"assert"} ELSE faults
        /\ IF space = "kHoldingRegister"
           THEN holding' = hold.values /\ flags' = hold.flags
           ELSE UNCHANGED <<holding, flags>>
        /\ unseen' = unseen \cup WrittenBy(f)

(* SlaveProtocolBase::SendErrorResponse *)
SendErrorResponse(f, exception) ==
    /\ response' = FrameResponse([address  |-> f.address,
                                  function |-> GetErrorFunction(f.function)],
                                 [length |-> 3, data |-> <<0, 0, exception>>])
    /\ response_valid' = TRUE
    /\ UNCHANGED <<faults, holding, flags, unseen>>

-----------------------------------------------------------------------------
(* A plausible slip: frames of other slaves are served as well.            *)
IgnoredByCrcOnly(filter) == filter \in BOOLEAN /\ ~FrameCrcIsValid(frame)

(* ProtocolRtuSlave::ProcessMessage(filter_address), called by a host once *)
(* a packet is complete: another slave's frame and one with a bad CRC are  *)
(* dropped, a good one is run or refused.                                  *)
Ignored(filter) ==
    \/ filter /\ frame.address # slave_address
    \/ ~FrameCrcIsValid(frame)

(* The processing of the frame writes outside an array: the copy of        *)
(* FrameCrcIsValid when the frame is too long for it, the Response when    *)
(* the registers of a read are.                                            *)
LeavesArray(filter) ==
    /\ ~filter \/ frame.address = slave_address
    /\ \/ ~FitsCrcBuffer(frame)
       \/ /\ FrameCrcIsValid(frame)
          /\ ValidateMessage(frame) = kAck
          /\ ~FitsResponse(frame)

ProcessMessage(filter) ==
    /\ PacketReceived
    /\ ~LeavesArray(filter)
    /\ UNCHANGED <<state, bytes_to_read, frame, slave_address, inputs>>
    /\ IF Ignored(filter)
       THEN UNCHANGED <<response, response_valid, faults, holding, flags, unseen>>
       ELSE IF ValidateMessage(frame) = kAck
       THEN RunCommand(frame)
       ELSE SendErrorResponse(frame, ValidateMessage(frame))

(* The same call when it leaves an array.  Any of the variables may then   *)
(* have any value; the model leaves them and records the fault, after      *)
(* which no property claims anything (Intact).                             *)
ProcessOversized(filter) ==
    /\ PacketReceived
    /\ LeavesArray(filter)
    /\ faults' = faults \cup {"overrun"}
    /\ UNCHANGED <<state, bytes_to_read, frame, slave_address,
                   response, response_valid, storeVars>>

(* SlaveProtocolBase::ProcessCharacter *)
ReceiveCharacter(pt) ==
    /\ ProcessCharacter(pt)
    /\ UNCHANGED <<slave_address, response, response_valid, storeVars>>

(* A plausible slip: the reply survives the reset of the receiver.         *)
ResetKeepsResponse ==
    /\ ResetRead
    /\ UNCHANGED <<slave_address, response, response_valid, storeVars>>

(* ProtocolRtuSlave::Reset: ResetResponse, then ResetRead.                 *)
Reset ==
    /\ ResetRead
    /\ response' = EmptyResponse
    /\ response_valid' = FALSE
    /\ UNCHANGED <<slave_address, storeVars>>

SetAddress(address) ==
    /\ slave_address' = address
    /\ UNCHANGED <<ctxVars, response, response_valid, storeVars>>

(* HoldingRegisterController::WriteRegister, used by the application: the  *)
(* new-data flags are for the master's writes and stay as they are.        *)
WriteHolding(address, value) ==
    /\ holding' = SetRegister(holding, address, value)
    /\ UNCHANGED <<ctxVars, slave_address, response, response_valid,
                   flags, inputs, unseen>>

(* InputRegisterController::WriteRegister *)
WriteInput(address, value) ==
    /\ inputs' = SetRegister(inputs, address, value)
    /\ UNCHANGED <<ctxVars, slave_address, response, response_valid,
                   holding, flags, unseen>>

(* UpdatingRegisterDataStore::clear_new_data_flags; the history forgets    *)
(* every register.                                                         *)
ClearFlags ==
    /\ flags' = ClearNewDataFlags(flags)
    /\ unseen' = {}
    /\ UNCHANGED <<ctxVars, slave_address, response, response_valid, holding, inputs>>

-----------------------------------------------------------------------------
SlaveInit ==
    /\ CtxInit
    /\ slave_address \in Byte
    /\ response = EmptyResponse
    /\ response_valid = FALSE
    /\ holding = [a \in HoldingAddress |-> 0]
    /\ flags = [a \in HoldingAddress |-> FALSE]
    /\ inputs = [a \in InputAddress |-> 0]
    /\ unseen = {}

SlaveNext ==
    \/ \E pt \in Byte : ReceiveCharacter(pt)
    \/ \E filter \in BOOLEAN : ProcessMessage(filter) \/ ProcessOversized(filter)
    \/ Reset
    \/ \E address \in Byte : SetAddress(address)
    \/ \E address \in HoldingAddress, value \in Word : WriteHolding(address, value)
    \/ \E address \in InputAddress, value \in Word : WriteInput(address, value)
    \/ ClearFlags

SlaveSpec == SlaveInit /\ [][SlaveNext]_slaveVars

-----------------------------------------------------------------------------
(* Every variable keeps its C++ type, and the stores their size.           *)
SlaveTypeOK ==
    /\ CtxTypeOK
    /\ slave_address \in Byte
    /\ response \in ResponseType
    /\ response_valid \in BOOLEAN
    /\ holding \in [HoldingAddress -> Word]
    /\ flags \in [HoldingAddress -> BOOLEAN]
    /\ inputs \in [InputAddress -> Word]
    /\ unseen \in SUBSET HoldingAddress

(* Nothing was written outside an array yet: what the properties are about. *)
Intact == "overrun" \notin faults

(* Whatever is ready to send answers the frame still in the receiver: its  *)
(* slave address, its function or its function with the error bit and an   *)
(* exception code, a length that fits the response array and all of it     *)
(* filled, and a CRC the master will accept.                               *)
ReplyMatchesRequest ==
    response_valid /\ faults = {} =>
        LET bytes == response.data
        IN  /\ PacketReceived
            /\ response.length = Len(bytes)
            /\ Len(bytes) \in 5 .. kMaxFrameLength
            /\ bytes[1] = frame.address
            /\ \/ bytes[2] = frame.function
               \/ /\ bytes[2] = frame.function + kStatusResponseAddValue
                  /\ Len(bytes) = 5
                  /\ bytes[3] \in {kIllegalFunction, kIllegalDataAddress,
                                   kIllegalDataValue}
            /\ BufferCrcIsValid(bytes)

(* A register's new-data flag says exactly whether a command wrote it since *)
(* the application last cleared the flags, for every register the           *)
(* application can clear; the last one is never cleared and may only be     *)
(* late.                                                                    *)
FlagsTrackWrites ==
    Intact =>
        \A a \in HoldingAddress :
            /\ a \in unseen => flags[a]
            /\ a + 1 \in HoldingAddress /\ flags[a] => a \in unseen

(* The application is told of new data when a register other than the last *)
(* was written.                                                            *)
NewDataReported ==
    Intact => ((unseen \ {HoldingCount - 1} # {}) <=> NewDataAvailable(flags))

-----------------------------------------------------------------------------
(* How a step may leave an array. *)
OverrunStep ==
    faults = {} /\ "overrun" \in faults' =>
        \/ /\ frame.function = kWriteMultipleHoldingRegisters
           /\ frame.data[5] >= 248
        \/ /\ frame.function \in {kReadMultipleHoldingRegisters, kReadInputRegisters}
           /\ ReadRegisterCount(frame.data) >= 127

(* The slave only leaves an array with a request the protocol does not     *)
(* allow: the frame array and the CRC check's copy of it with a write of   *)
(* several registers that announces at least 248 data bytes (the protocol  *)
(* has at most 246), the response array with a read of at least 127        *)
(* registers (at most 125).                                                *)
OverrunOnlyByLongRequest == [][OverrunStep]_slaveVars

(* What the slave's own rules give a request in plain integers, without    *)
(* the wrap-around of size_t: the exception, or kAck.  The rules are those *)
(* of the controllers: first the range of registers, then the byte count   *)
(* of a write.  A count of 0 passes them and they have no upper limit, for *)
(* both of which the Modbus protocol asks for exception 3.                 *)
InRange(size, address, count) == address < size /\ address + count <= size

Verdict(f) ==
    LET address == ReadAddressStart(f.data)
        count   == ReadRegisterCount(f.data)
        size    == IF f.function = kReadInputRegisters THEN InputCount ELSE HoldingCount
    IN  CASE f.function \notin ImplementedFunctions -> kIllegalFunction
          [] f.function = kWriteSingleHoldingRegister ->
                 IF address < size THEN kAck ELSE kIllegalDataAddress
          [] f.function = kWriteMultipleHoldingRegisters ->
                 IF ~InRange(size, address, count) THEN kIllegalDataAddress
                 ELSE IF ReadDataByteCount(f.data) # 2 * count THEN kIllegalDataValue
                 ELSE kAck
          [] OTHER -> IF InRange(size, address, count) THEN kAck ELSE kIllegalDataAddress

(* A frame the slave has to act on. *)
Accepted(filter) ==
    /\ PacketReceived /\ FitsCrcBuffer(frame)
    /\ ~filter \/ frame.address = slave_address
    /\ BufferCrcIsValid(FrameBytes(frame))

(* A step that processes an accepted frame answers it as it deserves. *)
AnswerStep ==
    \A filter \in BOOLEAN :
      Intact /\ ProcessMessage(filter) /\ Accepted(filter) =>
          /\ response_valid'
          /\ IF Verdict(frame) = kAck
             THEN response'.data[2] = frame.function
             ELSE /\ response'.data[2] = frame.function + kStatusResponseAddValue
                  /\ response'.data[3] = Verdict(frame)

(* Every complete frame with a good CRC for this slave is answered, with   *)
(* the exception its range and byte count deserve in plain integers or     *)
(* without one: the size_t sums of the range check wrap around for no      *)
(* address and count.                                                      *)
AnsweredByVerdict == [][AnswerStep]_slaveVars

(* A step that processes a frame the slave does not act on, or refuses. *)
RejectStep ==
    \A filter \in BOOLEAN :
      Intact /\ ProcessMessage(filter) /\ (~Accepted(filter) \/ Verdict(frame) # kAck) =>
          /\ UNCHANGED <<holding, flags, inputs>>
          /\ ~Accepted(filter) => UNCHANGED <<response, response_valid>>

(* A frame for another slave, one with a bad CRC and one that is refused   *)
(* change no register and no flag and, but for the refusal, answer         *)
(* nothing.  (documents/design.md:77 would have a bad CRC answered with an *)
(* error response; the code drops the frame.)                              *)
RejectedHasNoEffect == [][RejectStep]_slaveVars

(* The value a write command has for register a, as the master encoded it. *)
ValueFor(f, a) ==
    LET i == IF f.function = kWriteSingleHoldingRegister THEN 3
             ELSE 6 + 2 * (a - ReadAddressStart(f.data))
    IN  256 * f.data[i] + f.data[i + 1]

(* The step that runs an acceptable command of one of these functions.     *)
Serves(filter, functions) ==
    /\ Intact
    /\ frame.function \in functions
    /\ Accepted(filter)
    /\ Verdict(frame) = kAck
    /\ ProcessMessage(filter)

(* A step that serves a write. *)
WriteStep ==
    \A filter \in BOOLEAN :
      Serves(filter, {kWriteSingleHoldingRegister, kWriteMultipleHoldingRegisters}) =>
          /\ \A a \in HoldingAddress :
                 holding'[a] = IF a \in WrittenBy(frame) THEN ValueFor(frame, a)
                                                         ELSE holding[a]
          /\ SubSeq(response'.data, 3, 6) = SubSeq(frame.data, 1, 4)

(* An accepted write puts the values the master encoded into the registers *)
(* it named and touches no other register; the acknowledgement echoes      *)
(* address and count or value.                                             *)
WriteTakesEffect == [][WriteStep]_slaveVars

(* A step that serves a read. *)
ReadStep ==
    \A filter \in BOOLEAN :
      Serves(filter, {kReadMultipleHoldingRegisters, kReadInputRegisters}) =>
          LET values == IF frame.function = kReadInputRegisters THEN inputs ELSE holding
              reply  == ReadFrame(response'.data).data
              count  == ReadRegisterCount(frame.data)
          IN  /\ reply[1] = 2 * count
              /\ Len(reply) = 1 + 2 * count
              /\ \A k \in 0 .. count - 1 :
                    MakeMSB(reply[2 * k + 2], reply[2 * k + 3])
                        = values[ReadAddressStart(frame.data) + k]

(* A master that decodes the reply to an accepted read finds the byte      *)
(* count it expects and the values the registers have.                     *)
ReadDecodes == [][ReadStep]_slaveVars
=============================================================================
