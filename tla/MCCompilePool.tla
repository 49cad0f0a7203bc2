---------------------------- MODULE MCCompilePool ----------------------------
(* Three units, one of them the main file, on two pool threads.            *)
EXTENDS CompilePool
MCTmp == {3}
=============================================================================
