----------------------------- MODULE MCSnooper -----------------------------
(***************************************************************************)
(* Snooper for TLC: requests and replies of a bus with two slaves.         *)
(***************************************************************************)
EXTENDS Snooper, Crc16

CONSTANT OtherAddress

Request == FillFrameWriteSingle(OtherAddress, 0, 258)

(* A read reply. *)
Reply(address, values) ==
    [address |-> address, function |-> kReadMultipleHoldingRegisters,
     data |-> <<Len(values)>> \o values]

(* Slave OwnAddress acknowledges a write of 19 registers.  Its CRC starts  *)
(* with 38, so that for the snooper's slave it is a whole write command.   *)
Acknowledgement ==
    [address |-> OwnAddress, function |-> kWriteMultipleHoldingRegisters,
     data |-> <<0, 0, 0, 19>>]

BusTraffic == {Request, Reply(OwnAddress, <<0, 1>>), Acknowledgement}

(* The wall clock set back beyond the silence, or forward. *)
ClockJumps == {-2, 1}
=============================================================================
