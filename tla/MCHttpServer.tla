---------------------------- MODULE MCHttpServer ----------------------------
(* Small instances of HttpServer for TLC.                                   *)
EXTENDS HttpServer, TLC

HttpSymmetry == Permutations(Client) \cup Permutations(Chan)
=============================================================================
