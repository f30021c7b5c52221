---------------------------- MODULE MCLinuxSlave ----------------------------
(***************************************************************************)
(* LinuxSlave for TLC: one holding and one input register, and a handful   *)
(* of requests for this slave and another.                                 *)
(***************************************************************************)
EXTENDS LinuxSlave, Crc16

CONSTANT OtherAddress

WriteOne  == FillFrameWriteSingle(OwnAddress, 0, 258)
WriteMany == FillFrameWriteMultiple(OwnAddress, 0, 1, <<772>>)
ReadBad   == FillFrameRead(OwnAddress, kReadInputRegisters, 1, 1)
Foreign   == FillFrameWriteSingle(OtherAddress, 0, 515)

(* What another slave answers to a read: it is on the same bus, and the    *)
(* receiver takes it for a request that is one byte longer.                *)
ForeignReply == [address |-> OtherAddress, function |-> kReadMultipleHoldingRegisters,
                 data |-> <<2, 2, 3>>]

(* Read Coils, as a master that supports it sends it. *)
ReadCoils == FillFrameRead(OwnAddress, kReadCoils, 0, 1)

RegisterTraffic == {WriteMany, ReadBad, Foreign, ForeignReply}
CoilTraffic     == {ReadCoils}
LiveTraffic     == {WriteOne, ForeignReply}

(* The wall clock set back beyond the timeout, or forward. *)
ClockJumps == {-2, 1}
=============================================================================
