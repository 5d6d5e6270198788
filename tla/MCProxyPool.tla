----------------------------- MODULE MCProxyPool -----------------------------
(* Instances of ProxyPool for TLC.                                         *)
EXTENDS ProxyPool, TLC

CONSTANTS a1, a2, a3

(* Lists of one and of two addresses in both orders, one with an address   *)
(* that does not parse.                                                    *)
ShortLists == {<<a1>>, <<a2, a1>>}
MixedLists == {<<a3, a1>>, <<a1>>}

(* A source that fails now and then, and otherwise lists one address that  *)
(* makes a client: all goroutines and handlers meet at it.                 *)
OutageLists == {<<>>, <<a3, a1>>, <<a1>>}

Symmetry == Permutations(Gen) \cup Permutations(Slot)
=============================================================================
