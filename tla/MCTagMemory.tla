---------------------------- MODULE MCTagMemory -----------------------------
(* Small instances of TagMemory, with the widths and sizes of the code.    *)
EXTENDS TagMemory

CONSTANTS NLens, Lengths

(* size bytes that begin with the length n and then tell their place.      *)
Numbered(base, n, size) ==
  [i \in 1..size |-> IF i = 1 THEN n \div 256 ELSE IF i = 2 THEN n % 256 ELSE base + i]

MCContents == {Numbered(1000, n, FileSize) : n \in NLens}
MCDatas    == {Numbered(2000, n - 2, n) : n \in Lengths}
===========================================================================
