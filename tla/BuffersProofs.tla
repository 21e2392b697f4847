---------------------------- MODULE BuffersProofs ---------------------------
(***************************************************************************)
(* Lemmas about Buffers, for the proofs of the modules that use them.      *)
(***************************************************************************)
EXTENDS Buffers, TLAPS

LEMMA TuplesAreSequences ==
  ASSUME NEW S, NEW n \in Nat, NEW f \in [1..n -> S]
  PROVE  f \in Seq(S) /\ Len(f) = n
PROOF OBVIOUS

LEMMA SameSequence ==
  ASSUME NEW n \in Nat, NEW s \in Seq(Nat), NEW t \in Seq(Nat), Len(s) = n, Len(t) = n,
         \A i \in 1..n: s[i] = t[i]
  PROVE  s = t
PROOF OBVIOUS

(* What a copy leaves: its bytes where they go, the others as they were.   *)
CopyOf(c, to, at, from) ==
  /\ c \in Seq(Nat)
  /\ Len(c) = IF Len(to) >= at + Len(from) THEN Len(to) ELSE at + Len(from)
  /\ \A i \in 1..Len(c): c[i] = IF i > at /\ i <= at + Len(from)
                                THEN from[i - at] ELSE to[i]

LEMMA Copied ==
  ASSUME NEW to \in Seq(Nat), NEW from \in Seq(Nat), NEW at \in Nat, at <= Len(to),
         NEW c, c = Copy(to, at, from)
  PROVE  CopyOf(c, to, at, from)
PROOF
<1>1. PICK n : n = IF Len(to) >= at + Len(from) THEN Len(to) ELSE at + Len(from)
  OBVIOUS
<1>2. n \in Nat /\ Len(to) \in Nat /\ Len(from) \in Nat
  BY <1>1
<1>3. c = [i \in 1..n |-> IF i \in (at + 1)..(at + Len(from)) THEN from[i - at]
                          ELSE IF i <= Len(to) THEN to[i] ELSE 0]
  BY <1>1 DEF Copy
<1>4. \A i \in 1..n: c[i] = IF i > at /\ i <= at + Len(from) THEN from[i - at] ELSE to[i]
  BY <1>1, <1>2, <1>3
<1>5. \A i \in 1..n: c[i] \in Nat
  <2> SUFFICES ASSUME NEW i \in 1..n PROVE c[i] \in Nat
    OBVIOUS
  <2>1. CASE i > at /\ i <= at + Len(from)
    <3>1. i - at \in 1..Len(from)
      BY <1>2, <2>1
    <3>2. QED
      BY <1>4, <2>1, <3>1, SMTT(40)
  <2>2. CASE ~(i > at /\ i <= at + Len(from))
    <3>1. i \in 1..Len(to)
      BY <1>1, <1>2, <2>2
    <3>2. QED
      BY <1>4, <2>2, <3>1
  <2>3. QED
    BY <2>1, <2>2
<1>6. c \in [1..n -> Nat]
  BY <1>3, <1>5
<1>7. c \in Seq(Nat) /\ Len(c) = n
  BY <1>2, <1>6, TuplesAreSequences
<1>8. QED
  BY <1>1, <1>4, <1>7 DEF CopyOf

(* Any copy is a buffer.                                                   *)
LEMMA CopyTyped ==
  ASSUME NEW to \in Seq(Nat), NEW from \in Seq(Nat), NEW at \in Nat,
         NEW c, c = Copy(to, at, from)
  PROVE  c \in Seq(Nat)
PROOF
<1>1. PICK n : n = IF Len(to) >= at + Len(from) THEN Len(to) ELSE at + Len(from)
  OBVIOUS
<1>2. n \in Nat /\ Len(to) \in Nat /\ Len(from) \in Nat
  BY <1>1
<1>3. c = [i \in 1..n |-> IF i \in (at + 1)..(at + Len(from)) THEN from[i - at]
                          ELSE IF i <= Len(to) THEN to[i] ELSE 0]
  BY <1>1 DEF Copy
<1>4. ASSUME NEW i \in 1..n PROVE c[i] \in Nat
  <2>1. CASE i \in (at + 1)..(at + Len(from))
    <3>1. i - at \in 1..Len(from)
      BY <1>2, <2>1
    <3>2. QED
      BY <1>3, <2>1, <3>1
  <2>2. CASE i \notin (at + 1)..(at + Len(from))
    <3>1. i <= Len(to) => i \in 1..Len(to)
      BY <1>2
    <3>2. QED
      BY <1>3, <2>2, <3>1
  <2>3. QED
    BY <2>1, <2>2
<1>5. c \in [1..n -> Nat]
  BY <1>3, <1>4
<1>6. QED
  BY <1>2, <1>5, TuplesAreSequences

(* A piece of a buffer.                                                    *)
LEMMA Pieces ==
  ASSUME NEW s \in Seq(Nat), NEW a \in Nat, NEW n \in Nat, a + n <= Len(s),
         NEW p, p = SubSeq(s, a + 1, a + n)
  PROVE  /\ p \in Seq(Nat) /\ Len(p) = n
         /\ \A i \in 1..n: p[i] = s[a + i]
PROOF
<1>1. Len(s) \in Nat
  OBVIOUS
<1>2. \A i \in (a + 1)..(a + n): i \in 1..Len(s)
  BY <1>1
<1>3. /\ p = [i \in 1..n |-> s[a + i]]
  BY <1>1
<1>4. \A i \in 1..n: s[a + i] \in Nat
  BY <1>1
<1>5. p \in [1..n -> Nat]
  BY <1>3, <1>4
<1>6. QED
  BY <1>3, <1>5, TuplesAreSequences

(* The same as one fact, for a piece with a name.                          *)
PartOf(p, s, a, n) ==
  p \in Seq(Nat) /\ Len(p) = n /\ \A i \in 1..n: p[i] = s[a + i]

LEMMA PartIs ==
  \A s \in Seq(Nat), a \in Nat, n \in Nat:
    a + n <= Len(s) => PartOf(SubSeq(s, a + 1, a + n), s, a, n)
PROOF BY Pieces DEF PartOf
===========================================================================
