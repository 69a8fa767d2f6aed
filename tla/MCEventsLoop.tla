---------------------------- MODULE MCEventsLoop ----------------------------
(* Small instances of EventsLoop for TLC.                                   *)
EXTENDS EventsLoop, TLC

LoopSymmetry == Permutations(Client) \cup Permutations(Chan)
=============================================================================
