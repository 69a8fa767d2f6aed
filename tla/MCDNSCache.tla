----------------------------- MODULE MCDNSCache -----------------------------
(* Names of which one begins another and one is shorter than a pointer, and  *)
(* slots they fight for.                                                     *)
EXTENDS DNSCache, TLC

MCHost == {<<1, 2, 1>>, <<1, 2, 1, 1>>, <<3>>}
MCWord == (<<1, 2, 1>> :> <<0, 1, 0>>) @@ (<<1, 2, 1, 1>> :> <<1, 0, 1>>) @@ (<<3>> :> <<0, 1, 1>>)
DNSSymmetry == Permutations(Proc)
=============================================================================
