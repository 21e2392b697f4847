------------------------------ MODULE Buffers -------------------------------
(* Buffers of bytes, as sequences, and the integers that index them.       *)
EXTENDS Integers, Sequences

(* An uint8_t.                                                             *)
U8(n) == n % 256
Smaller(a, b) == IF a <= b THEN a ELSE b

Zeros(n) == [i \in 1..n |-> 0]

(* memcpy(to + at, from, Len(from)), in a buffer that grows.               *)
Copy(to, at, from) ==
  [i \in 1..(IF Len(to) >= at + Len(from) THEN Len(to) ELSE at + Len(from)) |->
     IF i \in (at + 1)..(at + Len(from)) THEN from[i - at]
     ELSE IF i <= Len(to) THEN to[i] ELSE 0]
===========================================================================
