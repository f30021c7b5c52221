----------------------------- MODULE FramedReads -----------------------------
(***************************************************************************)
(* ReadContext as an implementation of Framer.  The bytes of the frame are *)
(* spread over the Frame's address, function and data; which of them are   *)
(* meant is what the state of the receiver says.                           *)
(***************************************************************************)
EXTENDS ReadContext

got ==
    CASE state = "kAddress"  -> << >>
      [] state = "kFunction" -> <<frame.address>>
      [] OTHER               -> <<frame.address, frame.function>> \o frame.data

complete == PacketReceived

misused == "assert" \in faults

Framing == INSTANCE Framer WITH got <- got, complete <- complete, misused <- misused

(* The countdown of ReadContext is an implementation of framing by prefix: *)
(* seen as the bytes of the current frame, every step of the receiver      *)
(* takes a byte, drops a frame or is a byte too many for the host's        *)
(* account, and the receiver reports a packet with the very byte that      *)
(* completes a request.                                                    *)
FramesByPrefix == Framing!FramerSpec
=============================================================================
