---------------------------- MODULE MCReadContext ----------------------------
(***************************************************************************)
(* ReadContext for TLC.  The receiver looks at three bytes of a frame only *)
(* (function, and the byte count of a write), so those range over sets and *)
(* the others are one filler byte.                                         *)
(***************************************************************************)
EXTENDS FramedReads

CONSTANTS
    FunctionBytes,   \* codes sent where a function is expected
    CountBytes,      \* byte counts sent in a write of several registers
    Filler           \* every other byte

ASSUME MCInputs == FunctionBytes \subseteq Byte /\ CountBytes \subseteq Byte
                   /\ Filler \in Byte

(* The bytes the line may deliver next. *)
Candidates ==
    CASE state = "kFunction" -> FunctionBytes
      [] state = "kMeta" /\ frame.function = kWriteMultipleHoldingRegisters
             /\ Len(frame.data) = 4 -> CountBytes
      [] OTHER -> {Filler}

(* Bytes are explored until the first frame after a receiver assertion. *)
MCNext ==
    \/ /\ "assert" \notin faults
       /\ \E pt \in Candidates : ProcessCharacter(pt)
    \/ ResetRead

MCSpec == CtxInit /\ [][MCNext]_ctxVars
=============================================================================
