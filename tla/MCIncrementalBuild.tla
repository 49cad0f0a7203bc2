-------------------------- MODULE MCIncrementalBuild --------------------------
(* Sources are interchangeable.                                              *)
EXTENDS IncrementalBuild, TLC
Symmetry == Permutations(Sources)
===============================================================================
