------------------------------- MODULE Framer -------------------------------
(***************************************************************************)
(* What a receiver of requests promises, without a countdown: the bytes    *)
(* since the start of the frame, and whether they are one whole request.   *)
(* A prefix decides alone how long the request is.  Once a byte was given  *)
(* to a complete frame the receiver was misused and promises nothing more. *)
(***************************************************************************)
EXTENDS Modbus

VARIABLES
    got,        \* the bytes of the frame so far
    complete,   \* the receiver reports a packet
    misused     \* a byte came to a complete frame

framerVars == <<got, complete, misused>>

(* The bytes of a request, address and function included, as far as the    *)
(* first bytes tell; the three-byte tail of a function the slave does not  *)
(* implement is the receiver's own convention.                             *)
WholeLength(bytes) ==
    IF Len(bytes) < 2 THEN 2
    ELSE IF bytes[2] \in {kReadMultipleHoldingRegisters, kReadInputRegisters,
                          kWriteSingleHoldingRegister} THEN 8
    ELSE IF bytes[2] = kWriteMultipleHoldingRegisters
    THEN IF Len(bytes) < 7 THEN 9 ELSE 9 + bytes[7]
    ELSE 5

(* The first two bytes can start a request. *)
Possible(bytes) == Len(bytes) = 2 => bytes[2] \in ValidFunctions

(* Take is the next byte of a request; after an impossible function code   *)
(* the receiver starts afresh with the byte that follows.                  *)
Take(byte) ==
    /\ ~complete
    /\ LET bytes == Append(got, byte)
       IN  /\ got' = IF Possible(bytes) THEN bytes ELSE << >>
           /\ complete' = (Len(got') > 2 /\ Len(got') >= WholeLength(got'))
    /\ UNCHANGED misused

(* The host gives the frame up or is done with it. *)
Drop ==
    /\ got' = << >>
    /\ complete' = FALSE
    /\ UNCHANGED misused

Misuse == complete /\ misused' = TRUE

FramerInit == got = << >> /\ complete = FALSE /\ misused = FALSE

FramerNext ==
    \/ \E byte \in Byte : Take(byte)
    \/ Drop
    \/ Misuse
    \/ misused /\ misused'

FramerSpec == FramerInit /\ [][FramerNext]_framerVars
=============================================================================
