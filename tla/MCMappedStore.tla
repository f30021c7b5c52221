---------------------------- MODULE MCMappedStore ----------------------------
(***************************************************************************)
(* MappedStore for TLC: an array at 0, a one-register integer behind it,   *)
(* padding, and a two-register integer.                                    *)
(***************************************************************************)
EXTENDS MappedStore

SmallMap ==
    <<[offset |-> 0, words |-> 2, kind |-> "bytes"],
      [offset |-> 2, words |-> 1, kind |-> "integer"],
      [offset |-> 4, words |-> 2, kind |-> "integer"]>>

TwoValues == {<<1, 2>>, <<255, 0>>}
=============================================================================
