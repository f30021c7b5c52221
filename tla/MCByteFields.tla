---------------------------- MODULE MCByteFields ----------------------------
(***************************************************************************)
(* ByteFields for TLC: two blocks with a gap between them, then two that   *)
(* touch.                                                                  *)
(***************************************************************************)
EXTENDS ByteFields

(* Two bytes for every register of the first block, and room for every     *)
(* index the copying uses in the second.  The third has fewer bytes, as    *)
(* the tables of the tests do; it and the fourth are left.                 *)
SomeFields ==
    [holding |-> <<[address |-> 0, length |-> 2, size |-> 4],
                   [address |-> 3, length |-> 2, size |-> 8]>>,
     input   |-> <<[address |-> 0, length |-> 3, size |-> 4],
                   [address |-> 3, length |-> 2, size |-> 4]>>]
=============================================================================
