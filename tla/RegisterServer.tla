--------------------------- MODULE RegisterServer ---------------------------
(***************************************************************************)
(* What a Modbus slave promises its master and its application, without    *)
(* bytes: two arrays of registers, the request at hand and the reply to    *)
(* it.  The application writes registers at any time; a request is served  *)
(* in one step, against the registers as they are at that moment.  Once    *)
(* the server is broken (its program left an array or was misused) it      *)
(* promises nothing more.                                                  *)
(***************************************************************************)
EXTENDS Modbus

CONSTANTS HoldingCount, InputCount   \* numbers of registers

VARIABLES
    holding, inputs,   \* the registers
    request,           \* the request at hand, or NoRequest
    reply,             \* the reply that is ready, or NoReply
    broken             \* nothing is promised any more

serverVars == <<holding, inputs, request, reply, broken>>

NoRequest == [function |-> kNone]
NoReply   == [function |-> kNone]

(* A request has its function and, for the implemented functions, the      *)
(* first register, the number of registers, the number of data bytes it    *)
(* announces and the values it carries.                                    *)
IsRead(r)  == r.function \in {kReadMultipleHoldingRegisters, kReadInputRegisters}
IsWrite(r) == r.function \in {kWriteSingleHoldingRegister, kWriteMultipleHoldingRegisters}

Registers(r) == IF r.function = kReadInputRegisters THEN inputs ELSE holding
Size(r)      == IF r.function = kReadInputRegisters THEN InputCount ELSE HoldingCount

(* The exception a request deserves, or kAck.  A request for no register   *)
(* needs a first address all the same.                                     *)
Judge(r) ==
    IF ~IsRead(r) /\ ~IsWrite(r) THEN kIllegalFunction
    ELSE IF r.address >= Size(r) \/ r.address + r.count > Size(r) THEN kIllegalDataAddress
    ELSE IF IsWrite(r) /\ r.bytes # 2 * r.count THEN kIllegalDataValue
    ELSE kAck

(* A reply has the function and either the exception or the words that     *)
(* follow: values read, or what a write acknowledges.                      *)
Refusal(r) == [function |-> r.function, exception |-> Judge(r), words |-> << >>]

Answer(r) ==
    [function  |-> r.function,
     exception |-> kAck,
     words     |-> IF IsRead(r)
                   THEN [k \in 1 .. r.count |-> Registers(r)[r.address + k - 1]]
                   ELSE IF r.function = kWriteSingleHoldingRegister
                   THEN <<r.address, r.values[1]>>
                   ELSE <<r.address, r.count>>]

Written(r) ==
    [a \in DOMAIN holding |->
        IF a \in r.address .. r.address + r.count - 1
        THEN r.values[a - r.address + 1] ELSE holding[a]]

-----------------------------------------------------------------------------
Arrive ==
    /\ request = NoRequest
    /\ request' # NoRequest
    /\ UNCHANGED <<holding, inputs, reply, broken>>

(* The request is done with, answered or not, and the reply is sent. *)
Leave ==
    /\ request' = NoRequest
    /\ reply' = NoReply
    /\ UNCHANGED <<holding, inputs, broken>>

Serve ==
    /\ request # NoRequest
    /\ IF Judge(request) = kAck
       THEN /\ reply' = Answer(request)
            /\ holding' = IF IsWrite(request) THEN Written(request) ELSE holding
       ELSE /\ reply' = Refusal(request)
            /\ UNCHANGED holding
    /\ UNCHANGED <<inputs, request, broken>>

(* The application gives one register another value. *)
SetHolding ==
    /\ \E a \in DOMAIN holding : holding' = [holding EXCEPT ![a] = holding'[a]]
    /\ UNCHANGED <<inputs, request, reply, broken>>

SetInput ==
    /\ \E a \in DOMAIN inputs : inputs' = [inputs EXCEPT ![a] = inputs'[a]]
    /\ UNCHANGED <<holding, request, reply, broken>>

(* From here on anything may happen, for ever. *)
Break == broken' = TRUE

ServerInit ==
    /\ holding = [a \in 0 .. HoldingCount - 1 |-> 0]
    /\ inputs = [a \in 0 .. InputCount - 1 |-> 0]
    /\ request = NoRequest
    /\ reply = NoReply
    /\ broken = FALSE

ServerNext == Arrive \/ Leave \/ Serve \/ SetHolding \/ SetInput \/ Break

ServerSpec == ServerInit /\ [][ServerNext]_serverVars
=============================================================================
