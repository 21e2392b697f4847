---------------------------- MODULE Mfrc522Proofs ---------------------------
(***************************************************************************)
(* Proofs about Mfrc522: for every set of tags with UIDs of one to three   *)
(* levels, however many of them are in the field, and every noise.         *)
(***************************************************************************)
EXTENDS Mfrc522, Integers, TLAPS

---------------------------------------------------------------------------
(* UIDs.                                                                   *)

LEMMA UidFacts ==
  ASSUME NEW t \in Tags
  PROVE  /\ Uid[t] \in Seq(Level) /\ Len(Uid[t]) \in 1..3
         /\ \A l \in 1..Len(Uid[t]):
              /\ Uid[t][l] \in Level
              /\ Uid[t][l][1] = CT <=> l < Len(Uid[t])
PROOF
<1>1. /\ Uid[t] \in Seq(Level) /\ Len(Uid[t]) \in 1..3
      /\ \A l \in DOMAIN Uid[t]: Uid[t][l][1] = CT <=> l < Len(Uid[t])
  BY TagsAssumption DEF MaxLevel
<1>2. DOMAIN Uid[t] = 1..Len(Uid[t])
  BY <1>1
<1>3. \A l \in 1..Len(Uid[t]): Uid[t][l] \in Level
  BY <1>1
<1>4. QED
  BY <1>1, <1>2, <1>3

(* The places of the bytes of a level, in a UID of n levels.               *)
LEMMA PlacesOf ==
  ASSUME NEW n \in 1..3
  PROVE  /\ \A i \in 1..(3 * n + 1):
              IF i <= 3 * (n - 1) THEN \E l \in 1..n, k \in 1..4:
                                        l = (i - 1) \div 3 + 1 /\ k = ((i - 1) % 3) + 2
              ELSE \E k \in 1..4: k = i - 3 * (n - 1)
         /\ n \in 1..n
PROOF OBVIOUS

LEMMA LastPlaces ==
  \A n \in 1..3: \A j \in 1..4: \E i \in 1..(3 * n + 1):
    i = 3 * (n - 1) + j /\ ~(i <= 3 * (n - 1)) /\ i - 3 * (n - 1) = j
PROOF OBVIOUS

LEMMA EarlierPlaces ==
  \A n \in 1..3: \A l \in 1..(n - 1), j \in 1..3: \E i \in 1..(3 * n + 1):
    /\ i = 3 * (l - 1) + j /\ i <= 3 * (n - 1)
    /\ (i - 1) \div 3 + 1 = l /\ ((i - 1) % 3) + 2 = j + 1
PROOF
<1> SUFFICES ASSUME NEW n \in 1..3, NEW l \in 1..(n - 1), NEW j \in 1..3
             PROVE  \E i \in 1..(3 * n + 1):
                      /\ i = 3 * (l - 1) + j /\ i <= 3 * (n - 1)
                      /\ (i - 1) \div 3 + 1 = l /\ ((i - 1) % 3) + 2 = j + 1
  OBVIOUS
<1>1. PICK i \in 1..(3 * n + 1): i = 3 * (l - 1) + j /\ i <= 3 * (n - 1)
  OBVIOUS
<1>2. l \in {1, 2} /\ j \in {1, 2, 3}
  OBVIOUS
<1>3. (i - 1) \div 3 + 1 = l /\ ((i - 1) % 3) + 2 = j + 1
  BY <1>1, <1>2
<1>4. QED
  BY <1>1, <1>3

LEMMA LevelsUpTo ==
  \A n \in 1..3: \A l \in 1..n: l = n \/ (l \in 1..(n - 1) /\ l < n)
PROOF OBVIOUS

LEMMA BytesOfLevel == \A i \in 1..4: i = 1 \/ (i - 1 \in 1..3 /\ (i - 1) + 1 = i)
PROOF OBVIOUS

(* Where the bytes of a level are in the whole UID.                        *)
LEMMA FullUidBytes ==
  ASSUME NEW t \in Tags, NEW n \in 1..3, n = Len(Uid[t])
  PROVE  /\ FullUid(t) \in [1..(3 * n + 1) -> Byte]
         /\ \A l \in 1..(n - 1), j \in 1..3: FullUid(t)[3 * (l - 1) + j] = Uid[t][l][j + 1]
         /\ \A j \in 1..4: FullUid(t)[3 * (n - 1) + j] = Uid[t][n][j]
PROOF
<1>1. PICK f : f = FullUid(t)
  OBVIOUS
<1>2. f = [i \in 1..(3 * n + 1) |->
        IF i <= 3 * (n - 1) THEN Uid[t][(i - 1) \div 3 + 1][((i - 1) % 3) + 2]
        ELSE Uid[t][n][i - 3 * (n - 1)]]
  BY <1>1 DEF FullUid
<1>3. \A l \in 1..n: Uid[t][l] \in [1..4 -> 0..255]
  BY UidFacts DEF Level, Byte
<1>4. ASSUME NEW i \in 1..(3 * n + 1) PROVE f[i] \in 0..255
  <2>1. CASE i <= 3 * (n - 1)
    <3>1. PICK l \in 1..n, k \in 1..4: l = (i - 1) \div 3 + 1 /\ k = ((i - 1) % 3) + 2
      BY <2>1, PlacesOf
    <3>2. f[i] = Uid[t][l][k]
      BY <1>2, <2>1, <3>1
    <3>3. QED
      BY <1>3, <3>2
  <2>2. CASE ~(i <= 3 * (n - 1))
    <3>1. PICK k \in 1..4: k = i - 3 * (n - 1)
      BY <2>2, PlacesOf
    <3>2. f[i] = Uid[t][n][k]
      BY <1>2, <2>2, <3>1
    <3>3. n \in 1..n
      BY PlacesOf
    <3>4. QED
      BY <1>3, <3>2, <3>3
  <2>3. QED
    BY <2>1, <2>2
<1>5. f \in [1..(3 * n + 1) -> Byte]
  BY <1>2, <1>4 DEF Byte
<1>6. ASSUME NEW l \in 1..(n - 1), NEW j \in 1..3
      PROVE  f[3 * (l - 1) + j] = Uid[t][l][j + 1]
  <2>1. PICK i \in 1..(3 * n + 1):
          /\ i = 3 * (l - 1) + j /\ i <= 3 * (n - 1)
          /\ (i - 1) \div 3 + 1 = l /\ ((i - 1) % 3) + 2 = j + 1
    BY EarlierPlaces
  <2>2. QED
    BY <1>2, <2>1
<1>7. ASSUME NEW j \in 1..4 PROVE f[3 * (n - 1) + j] = Uid[t][n][j]
  <2>1. PICK i \in 1..(3 * n + 1):
          i = 3 * (n - 1) + j /\ ~(i <= 3 * (n - 1)) /\ i - 3 * (n - 1) = j
    BY LastPlaces
  <2>2. QED
    BY <1>2, <2>1
<1>8. QED
  BY <1>1, <1>5, <1>6, <1>7

(* Two tags have two UIDs.                                                 *)
LEMMA FullUidInjective ==
  ASSUME NEW t \in Tags, NEW u \in Tags, FullUid(t) = FullUid(u)
  PROVE  t = u
PROOF
<1>1. PICK n \in 1..3: n = Len(Uid[t])
  BY UidFacts
<1>2. PICK m \in 1..3: m = Len(Uid[u])
  BY UidFacts
<1>3. DOMAIN FullUid(t) = 1..(3 * n + 1) /\ DOMAIN FullUid(u) = 1..(3 * m + 1)
  BY <1>1, <1>2, FullUidBytes
<1>4. n = m
  <2>1. 1..(3 * n + 1) = 1..(3 * m + 1)
    BY <1>3
  <2>2. 3 * n + 1 \in 1..(3 * m + 1) /\ 3 * m + 1 \in 1..(3 * n + 1)
    BY <2>1
  <2>3. QED
    BY <2>2
<1>5. /\ \A l \in 1..n: Uid[t][l] \in Level /\ (Uid[t][l][1] = CT <=> l < n)
      /\ \A l \in 1..(n - 1), j \in 1..3: FullUid(t)[3 * (l - 1) + j] = Uid[t][l][j + 1]
      /\ \A j \in 1..4: FullUid(t)[3 * (n - 1) + j] = Uid[t][n][j]
  BY <1>1, UidFacts, FullUidBytes
<1>6. /\ \A l \in 1..n: Uid[u][l] \in Level /\ (Uid[u][l][1] = CT <=> l < n)
      /\ \A l \in 1..(n - 1), j \in 1..3: FullUid(u)[3 * (l - 1) + j] = Uid[u][l][j + 1]
      /\ \A j \in 1..4: FullUid(u)[3 * (n - 1) + j] = Uid[u][n][j]
  BY <1>2, <1>4, UidFacts, FullUidBytes
<1>7. ASSUME NEW l \in 1..n PROVE Uid[t][l] = Uid[u][l]
  <2>1. Uid[t][l] \in [1..4 -> Byte] /\ Uid[u][l] \in [1..4 -> Byte]
    BY <1>5, <1>6 DEF Level
  <2>2. \A i \in 1..4: Uid[t][l][i] = Uid[u][l][i]
    <3>1. CASE l = n
      BY <1>5, <1>6, <3>1
    <3>2. CASE l # n
      <4>1. l \in 1..(n - 1) /\ l < n
        BY <3>2, LevelsUpTo
      <4>2. Uid[t][l][1] = Uid[u][l][1]
        BY <1>5, <1>6, <4>1
      <4>3. \A j \in 1..3: Uid[t][l][j + 1] = Uid[u][l][j + 1]
        BY <1>5, <1>6, <4>1
      <4>4. QED
        BY <4>2, <4>3, BytesOfLevel
    <3>3. QED
      BY <3>1, <3>2
  <2>3. QED
    BY <2>1, <2>2
<1>8. Uid[t] = Uid[u]
  <2>1. /\ Uid[t] \in Seq(Level) /\ Len(Uid[t]) = n
        /\ Uid[u] \in Seq(Level) /\ Len(Uid[u]) = n
    BY <1>1, <1>2, <1>4, UidFacts
  <2>2. QED
    BY <1>7, <2>1
<1>9. QED
  BY <1>8, TagsAssumption

---------------------------------------------------------------------------
(* Exchanges.                                                              *)

(* What becomes of a tag in state s that hears f.                          *)
HeardOf(s, t, f, n) ==
  /\ n \in Picc
  /\ n.state = "away" <=> s.state = "away"
  /\ n.state = "protocol" => s.state = "protocol" \/ Activates(s, t, f)
  /\ n.state = "active" => IsSelected(s, t, f) /\ ~(s.level < Len(Uid[t]))
  /\ n.state = "ready" => \/ n.level = 1 /\ Wakes(s, f)
                          \/ n.level = s.level + 1 /\ IsSelected(s, t, f) /\ s.level < Len(Uid[t])
                          \/ n = s /\ Heeds(s, f)
  /\ Activates(s, t, f) => n.state = "protocol"
  /\ IsSelected(s, t, f) /\ ~(s.level < Len(Uid[t])) => n.state = "active"
  /\ s.state = "protocol" /\ f.kind # "DESELECT" => n.state = "protocol"

LEMMA HearsWhat ==
  ASSUME NEW t \in Tags, NEW s \in Picc, NEW f
  PROVE  HeardOf(s, t, f, Hears(s, t, f))
PROOF
<1>1. PICK n : n = Hears(s, t, f)
  OBVIOUS
<1>2. PICK len \in 1..3: len = Len(Uid[t])
  BY UidFacts
<1>3. /\ s.state \in PiccStates /\ s.level \in 1..3 /\ s.star \in BOOLEAN
      /\ s = [state |-> s.state, level |-> s.level, star |-> s.star]
  BY DEF Picc, MaxLevel
<1>4. CASE Wakes(s, f)
  <2>1. /\ ~IsSelected(s, t, f) /\ ~Activates(s, t, f) /\ ~Halts(s, f)
        /\ ~Deselects(s, f) /\ ~Ignores(s, f) /\ s.state \in {"idle", "halt"}
    BY <1>4 DEF Wakes, IsSelected, Activates, Halts, Deselects, Ignores
  <2>2. n = [state |-> "ready", level |-> 1, star |-> s.state = "halt"]
    BY <1>1, <1>4, <2>1 DEF Hears
  <2>3. n \in Picc
    BY <2>2 DEF Picc, MaxLevel, PiccStates, Woken
  <2>4. QED
    BY <1>1, <1>4, <2>1, <2>2, <2>3 DEF HeardOf
<1>5. CASE IsSelected(s, t, f)
  <2>1. /\ ~Wakes(s, f) /\ ~Activates(s, t, f) /\ ~Halts(s, f)
        /\ ~Deselects(s, f) /\ ~Ignores(s, f) /\ s.state = "ready"
    BY <1>5 DEF Wakes, IsSelected, Activates, Halts, Deselects, Ignores, Woken, Heeds
  <2>2. n = IF s.level < len THEN [s EXCEPT !.level = @ + 1] ELSE [s EXCEPT !.state = "active"]
    BY <1>1, <1>2, <1>5, <2>1 DEF Hears
  <2>3. CASE s.level < len
    <3>1. n = [state |-> "ready", level |-> s.level + 1, star |-> s.star]
      BY <1>3, <2>1, <2>2, <2>3
    <3>2. s.level + 1 \in 1..3
      BY <1>3, <2>3
    <3>3. n \in Picc
      BY <1>3, <3>1, <3>2 DEF Picc, MaxLevel, PiccStates, Woken
    <3>4. QED
      BY <1>1, <1>2, <1>5, <2>1, <2>3, <3>1, <3>3 DEF HeardOf
  <2>4. CASE ~(s.level < len)
    <3>1. n = [state |-> "active", level |-> s.level, star |-> s.star]
      BY <1>3, <2>2, <2>4
    <3>2. n \in Picc
      BY <1>3, <3>1 DEF Picc, MaxLevel, PiccStates, Woken
    <3>3. QED
      BY <1>1, <1>2, <1>5, <2>1, <2>4, <3>1, <3>2 DEF HeardOf
  <2>5. QED
    BY <2>3, <2>4
<1>6. CASE Activates(s, t, f)
  <2>1. /\ ~Wakes(s, f) /\ ~IsSelected(s, t, f) /\ ~Halts(s, f)
        /\ ~Deselects(s, f) /\ ~Ignores(s, f) /\ s.state = "active"
    BY <1>6 DEF Wakes, IsSelected, Activates, Halts, Deselects, Ignores, Woken, Heeds
  <2>2. n = In("protocol")
    BY <1>1, <1>6, <2>1 DEF Hears
  <2>3. QED
    BY <1>1, <1>6, <2>1, <2>2 DEF HeardOf, In, Picc, MaxLevel, PiccStates, Woken
<1>7. CASE Halts(s, f) \/ Deselects(s, f)
  <2>1. /\ ~Wakes(s, f) /\ ~IsSelected(s, t, f) /\ ~Activates(s, t, f) /\ ~Ignores(s, f)
        /\ s.state = "active" \/ (s.state = "protocol" /\ f.kind = "DESELECT")
    BY <1>7 DEF Wakes, IsSelected, Activates, Halts, Deselects, Ignores, Woken, Heeds
  <2>2. n = In("halt")
    BY <1>1, <1>7, <2>1 DEF Hears
  <2>3. QED
    BY <1>1, <2>1, <2>2 DEF HeardOf, In, Picc, MaxLevel, PiccStates, Woken
<1>8. CASE /\ ~Wakes(s, f) /\ ~IsSelected(s, t, f) /\ ~Activates(s, t, f)
           /\ ~(Halts(s, f) \/ Deselects(s, f))
  <2>1. CASE Ignores(s, f)
    <3>1. n = s
      BY <1>1, <1>8, <2>1 DEF Hears
    <3>2. QED
      BY <1>1, <1>3, <1>8, <2>1, <3>1 DEF HeardOf, Ignores, Woken, Heeds
  <2>2. CASE ~Ignores(s, f)
    <3>1. n = In(IF s.star THEN "halt" ELSE "idle")
      BY <1>1, <1>8, <2>2 DEF Hears
    <3>2. s.state \in Woken
      BY <1>8, <2>2 DEF Ignores
    <3>3. QED
      BY <1>1, <1>8, <3>1, <3>2 DEF HeardOf, In, Picc, MaxLevel, PiccStates, Woken
  <2>3. QED
    BY <2>1, <2>2
<1>9. QED
  BY <1>4, <1>5, <1>6, <1>7, <1>8

(* Sets of at most n numbers in a row have a least one.                    *)
LeastOf(S) == \E p \in S: \A q \in S: p <= q
Leasts(n) == \A a \in Nat: \A S \in SUBSET (a..(a + n - 1)): S # {} => LeastOf(S)

LEMMA LeastsTwice ==
  ASSUME NEW n \in Nat, NEW m \in Nat, m = n + n, Leasts(n)
  PROVE  Leasts(m)
PROOF
<1> SUFFICES ASSUME NEW a \in Nat, NEW S \in SUBSET (a..(a + m - 1)), S # {}
             PROVE  LeastOf(S)
  BY DEF Leasts
<1>1. PICK L \in SUBSET (a..(a + n - 1)): L = S \cap (a..(a + n - 1))
  OBVIOUS
<1>2. CASE L # {}
  <2>1. PICK p \in L: \A q \in L: p <= q
    BY <1>1, <1>2 DEF Leasts, LeastOf
  <2>2. p \in S /\ \A q \in S: p <= q
    BY <1>1, <2>1
  <2>3. QED
    BY <2>2 DEF LeastOf
<1>3. CASE L = {}
  <2>1. a + n \in Nat /\ S \in SUBSET ((a + n)..((a + n) + n - 1))
    BY <1>1, <1>3
  <2>2. QED
    BY <2>1 DEF Leasts
<1>4. QED
  BY <1>2, <1>3

LEMMA LeastsOfThirtyTwo == Leasts(32)
PROOF
<1>1. Leasts(1)
  <2> SUFFICES ASSUME NEW a \in Nat, NEW S \in SUBSET (a..(a + 1 - 1)), S # {}
               PROVE  LeastOf(S)
    BY DEF Leasts
  <2>1. \A q \in S: q = a
    OBVIOUS
  <2>2. \E q \in S: q = a
    <3>1. S # {}
      OBVIOUS
    <3>2. QED
      BY <2>1, <3>1, Zenon
  <2>3. a <= a
    OBVIOUS
  <2>4. QED
    BY <2>1, <2>2, <2>3, Zenon DEF LeastOf
<1>2. Leasts(2)
  BY <1>1, LeastsTwice
<1>3. Leasts(4)
  BY <1>2, LeastsTwice
<1>4. Leasts(8)
  BY <1>3, LeastsTwice
<1>5. Leasts(16)
  BY <1>4, LeastsTwice
<1>6. QED
  BY <1>5, LeastsTwice

(* What the driver may learn from an exchange.                             *)
ReceptionOf(f, r) ==
  /\ r.heard \in BOOLEAN
  /\ r.status \in {"ok", "timeout", "empty", "collision"}
  /\ r.at \in 0..32
  /\ r.status = "ok" => r.heard /\ Answerers(f) # {}
  /\ r.status = "ok" /\ f.kind = "APDU" => ~(Cardinality(Answerers(f)) > 1)

LEMMA DifferRange ==
  ASSUME NEW f, f.kind = "AC", Differ(f) # {}
  PROVE  (CHOOSE p \in Differ(f): \A q \in Differ(f): p <= q) \in 0..32
PROOF
<1>1. PICK D : D = Differ(f)
  OBVIOUS
<1>2. D \in SUBSET (1..(1 + 32 - 1)) /\ D # {}
  BY <1>1 DEF Differ, Bits
<1>3. \E p \in D: \A q \in D: p <= q
  BY <1>2, LeastsOfThirtyTwo DEF Leasts, LeastOf
<1>4. PICK c : c = CHOOSE p \in D: \A q \in D: p <= q
  OBVIOUS
<1>5. c \in D
  BY <1>3, <1>4
<1>6. c \in 0..32
  BY <1>2, <1>5
<1>7. QED
  BY <1>1, <1>4, <1>6

LEMMA ExpectedIs ==
  ASSUME NEW f
  PROVE  ReceptionOf(f, Expected(f))
PROOF
<1>1. CASE Answerers(f) = {}
  BY <1>1 DEF Expected, ReceptionOf
<1>2. CASE Answerers(f) # {} /\ f.kind = "AC" /\ Differ(f) # {}
  <2>1. PICK p \in 0..32: p = CHOOSE x \in Differ(f): \A y \in Differ(f): x <= y
    BY <1>2, DifferRange
  <2>2. Expected(f) = [heard |-> TRUE, status |-> "collision", at |-> p]
    BY <1>2, <2>1 DEF Expected
  <2>3. QED
    BY <2>2 DEF ReceptionOf
<1>3. CASE Answerers(f) # {} /\ ~(f.kind = "AC" /\ Differ(f) # {})
  BY <1>3 DEF Expected, ReceptionOf, CollPosNotValid
<1>4. QED
  BY <1>1, <1>2, <1>3

LEMMA ReceptionsAre ==
  ASSUME NEW f, NEW r \in Receptions(f)
  PROVE  ReceptionOf(f, r)
PROOF
<1>1. CASE r = Expected(f)
  BY <1>1, ExpectedIs
<1>2. CASE r \in [heard: BOOLEAN, status: {Polled(p): p \in Polls}, at: {0}]
  <2>1. \A p \in Polls: Polled(p) \in {"empty", "timeout"}
    BY DEF Polled
  <2>2. r.heard \in BOOLEAN /\ r.status \in {"empty", "timeout"} /\ r.at = 0
    BY <1>2, <2>1
  <2>3. QED
    BY <2>2 DEF ReceptionOf
<1>3. CASE r \in [heard: BOOLEAN, status: {"collision"},
                  at: IF f.kind = "AC" THEN Noise ELSE {CollPosNotValid}]
  <2>1. \A p \in Noise: p \in 0..32
    BY NoiseAssumption
  <2>2. r.at \in Noise \/ r.at = 0
    BY <1>3 DEF CollPosNotValid
  <2>3. r.at \in 0..32
    BY <2>1, <2>2
  <2>4. r.heard \in BOOLEAN /\ r.status = "collision"
    BY <1>3
  <2>5. QED
    BY <2>3, <2>4 DEF ReceptionOf
<1>4. QED
  BY <1>1, <1>2, <1>3 DEF Receptions

---------------------------------------------------------------------------
(* The buffer of PICC_Select.                                              *)

LEMMA Weights == \A k \in 0..7: Weight(k) \in {1, 2, 4, 8, 16, 32, 64, 128}
PROOF
<1> SUFFICES ASSUME NEW k \in 0..7
             PROVE  Weight(k) \in {1, 2, 4, 8, 16, 32, 64, 128}
  OBVIOUS
<1>1. k \in {0, 1, 2, 3, 4, 5, 6, 7}
  OBVIOUS
<1>2. QED
  BY <1>1 DEF Weight

LEMMA RemainderFits ==
  ASSUME NEW b \in 0..255, NEW w \in {1, 2, 4, 8, 16, 32, 64, 128}
  PROVE  b % w \in 0..255 /\ b - (b % w) \in 0..255
PROOF
<1>1. CASE w = 1
  BY <1>1
<1>2. CASE w = 2
  BY <1>2
<1>3. CASE w = 4
  BY <1>3
<1>4. CASE w = 8
  BY <1>4
<1>5. CASE w = 16
  BY <1>5
<1>6. CASE w = 32
  BY <1>6
<1>7. CASE w = 64
  BY <1>7
<1>8. CASE w = 128
  BY <1>8
<1>9. QED
  BY <1>1, <1>2, <1>3, <1>4, <1>5, <1>6, <1>7, <1>8

LEMMA Remainders ==
  \A b \in 0..255, k \in Nat: /\ k % 8 \in 0..7
                             /\ b % Weight(k % 8) \in 0..255
                             /\ b - (b % Weight(k % 8)) \in 0..255
PROOF
<1> SUFFICES ASSUME NEW b \in 0..255, NEW k \in Nat
             PROVE  /\ k % 8 \in 0..7
                    /\ b % Weight(k % 8) \in 0..255
                    /\ b - (b % Weight(k % 8)) \in 0..255
  OBVIOUS
<1>1. k % 8 \in 0..7
  OBVIOUS
<1>2. PICK w \in {1, 2, 4, 8, 16, 32, 64, 128}: w = Weight(k % 8)
  BY <1>1, Weights
<1>3. b % w \in 0..255 /\ b - (b % w) \in 0..255
  BY RemainderFits
<1>4. QED
  BY <1>1, <1>2, <1>3

LEMMA BeforeLevel ==
  ASSUME NEW bytes \in Level, NEW n \in Nat
  PROVE  Before(bytes, n) \in Level
PROOF
<1>1. \A i \in 1..4: bytes[i] \in 0..255
  BY DEF Level, Byte
<1>2. \A i \in 1..4: bytes[i] % Weight(n % 8) \in 0..255
  BY <1>1, Remainders
<1>3. QED
  BY <1>1, <1>2 DEF Before, Level, Byte

LEMMA ReadInLevel ==
  ASSUME NEW bytes \in Level, NEW buf \in Level, NEW n \in Nat
  PROVE  ReadIn(buf, n, bytes) \in Level
PROOF
<1>1. \A i \in 1..4: bytes[i] \in 0..255 /\ buf[i] \in 0..255
  BY DEF Level, Byte
<1>2. \A i \in 1..4: bytes[i] - (bytes[i] % Weight(n % 8)) \in 0..255
  BY <1>1, Remainders
<1>3. QED
  BY <1>1, <1>2 DEF ReadIn, Level, Byte

(* A bit that is clear can be set.                                         *)
LEMMA BitFits ==
  ASSUME NEW b \in 0..255, NEW w \in {1, 2, 4, 8, 16, 32, 64, 128}, (b \div w) % 2 = 0
  PROVE  b + w \in 0..255
PROOF
<1>1. CASE w = 1
  BY <1>1
<1>2. CASE w = 2
  BY <1>2
<1>3. CASE w = 4
  BY <1>3
<1>4. CASE w = 8
  BY <1>4
<1>5. CASE w = 16
  BY <1>5
<1>6. CASE w = 32
  BY <1>6
<1>7. CASE w = 64
  BY <1>7
<1>8. CASE w = 128
  BY <1>8
<1>9. QED
  BY <1>1, <1>2, <1>3, <1>4, <1>5, <1>6, <1>7, <1>8

LEMMA MarkLevel ==
  ASSUME NEW buf \in Level, NEW p \in 1..32
  PROVE  Mark(buf, p) \in Level
PROOF
<1>1. PICK bit \in 0..7: bit = (p - 1) % 8
  OBVIOUS
<1>2. PICK k \in 0..5: k = p \div 8 + (IF bit # 0 THEN 1 ELSE 0)
  <2>1. p \div 8 \in 0..4
    OBVIOUS
  <2>2. QED
    BY <2>1
<1>3. Mark(buf, p) = IF k \in 1..4 /\ Bit(buf, 8 * (k - 1) + bit) = 0
                     THEN [buf EXCEPT ![k] = @ + Weight(bit)] ELSE buf
  BY <1>1, <1>2 DEF Mark
<1>4. ASSUME k \in 1..4, Bit(buf, 8 * (k - 1) + bit) = 0
      PROVE  buf[k] + Weight(bit) \in 0..255
  <2>1. PICK i \in 0..31: i = 8 * (k - 1) + bit
    BY <1>4
  <2>2. i \div 8 + 1 = k /\ i % 8 = bit
    BY <1>4, <2>1
  <2>3. (buf[k] \div Weight(bit)) % 2 = 0
    BY <1>4, <2>1, <2>2 DEF Bit
  <2>4. buf[k] \in 0..255
    BY <1>4 DEF Level, Byte
  <2>5. PICK w \in {1, 2, 4, 8, 16, 32, 64, 128}: w = Weight(bit)
    BY Weights
  <2>6. QED
    BY <2>3, <2>4, <2>5, BitFits
<1>5. QED
  BY <1>3, <1>4 DEF Level, Byte

(* The first k bytes of uid are those of t's.                              *)
Told(uid, t, k) == \A i \in 1..k: uid.byte[i] = FullUid(t)[i]
SelType == [level: 1..MaxLevel, known: 0..32, buf: Level]
(* Level l is complete in the buffer; whether it is t's last.              *)
Reads(t, l)  == sel.level = l /\ sel.buf = Uid[t][l]
IsLast(t, l) == Len(Uid[t]) = l
IsEarlier(t, l) == l < Len(Uid[t])
(* Byte i of uid with the level that begins behind byte at copied into it. *)
Middle(uid, at, i) == IF i - at \in 1..3 THEN sel.buf[i - at + 1] ELSE uid.byte[i]
Last(uid, at, i)   == IF i - at \in 1..4 THEN sel.buf[i - at] ELSE uid.byte[i]

LEMMA CopyPlaces ==
  \A l \in 1..3: \E at \in 0..6:
    /\ at = 3 * (l - 1) /\ 3 * l = at + 3 /\ 3 * l + 1 = at + 4
    /\ \A i \in 1..10: /\ i - at \in 1..3 => i - at + 1 \in 1..4 /\ i = at + (i - at)
                       /\ i - at \in 1..4 => i - at + 0 = i - at /\ i = at + (i - at)
                       /\ i \in 1..(at + 3) /\ i - at \notin 1..3 => i \in 1..at
                       /\ i \in 1..(at + 4) /\ i - at \notin 1..4 => i \in 1..at
    /\ \A i \in 1..(at + 4): i \in 1..10
    /\ \A i \in 1..(at + 3): i \in 1..10
PROOF OBVIOUS

LEMMA CopiedIs ==
  ASSUME sel \in SelType, NEW uid \in UidType,
         NEW at \in 0..6, at = 3 * (sel.level - 1)
  PROVE  /\ Copied(uid) \in UidType
         /\ sel.buf[1] = CT => \A i \in 1..10: Copied(uid).byte[i] = Middle(uid, at, i)
         /\ sel.buf[1] # CT => \A i \in 1..10: Copied(uid).byte[i] = Last(uid, at, i)
PROOF
<1>1. PICK cut \in 0..1: cut = IF sel.buf[1] = CT THEN 1 ELSE 0
  OBVIOUS
<1>2. PICK b : b = [i \in 1..10 |->
        IF i - at \in 1..(4 - cut) THEN sel.buf[i - at + cut] ELSE uid.byte[i]]
  OBVIOUS
<1>3. Copied(uid) = [uid EXCEPT !.byte = b]
  BY <1>1, <1>2 DEF Copied
<1>4. b \in [1..10 -> Byte]
  <2>1. \A j \in 1..4: sel.buf[j] \in Byte
    BY DEF SelType, Level
  <2>2. \A i \in 1..10: i - at \in 1..(4 - cut) => i - at + cut \in 1..4
    OBVIOUS
  <2>3. \A i \in 1..10: uid.byte[i] \in Byte
    BY DEF UidType
  <2>4. \A i \in 1..10: b[i] \in Byte
    BY <1>2, <2>1, <2>2, <2>3
  <2>5. QED
    BY <1>2, <2>4
<1>5. Copied(uid) = [size |-> uid.size, byte |-> b]
  BY <1>3 DEF UidType
<1>6. CASE sel.buf[1] = CT
  <2>1. cut = 1 /\ 4 - cut = 3
    BY <1>1, <1>6
  <2>2. \A i \in 1..10: b[i] = Middle(uid, at, i)
    BY <1>2, <2>1 DEF Middle
  <2>3. QED
    BY <1>4, <1>5, <1>6, <2>2 DEF UidType
<1>7. CASE sel.buf[1] # CT
  <2>1. cut = 0 /\ 4 - cut = 4 /\ \A i \in 1..10: i - at + cut = i - at
    BY <1>1, <1>7
  <2>2. \A i \in 1..10: b[i] = Last(uid, at, i)
    BY <1>2, <2>1 DEF Last
  <2>3. QED
    BY <1>4, <1>5, <1>7, <2>2 DEF UidType
<1>8. QED
  BY <1>6, <1>7

LEMMA CopiedType ==
  ASSUME sel \in SelType, NEW uid \in UidType
  PROVE  Copied(uid) \in UidType
PROOF
<1>1. PICK l \in 1..3: l = sel.level
  BY DEF SelType, MaxLevel
<1>2. PICK at \in 0..6: at = 3 * (l - 1)
  OBVIOUS
<1>3. QED
  BY <1>1, <1>2, CopiedIs

(* A level that is not the last adds three bytes.                          *)
LEMMA CopiedMiddle ==
  ASSUME sel \in SelType, NEW uid \in UidType, NEW t \in Tags,
         NEW l \in 1..3, Reads(t, l), IsEarlier(t, l), Told(uid, t, 3 * (l - 1))
  PROVE  Told(Copied(uid), t, 3 * l)
PROOF
<1>1. PICK at \in 0..6:
        /\ at = 3 * (l - 1) /\ 3 * l = at + 3
        /\ \A i \in 1..10: /\ i - at \in 1..3 => i - at + 1 \in 1..4 /\ i = at + (i - at)
                           /\ i \in 1..(at + 3) /\ i - at \notin 1..3 => i \in 1..at
        /\ \A i \in 1..(at + 3): i \in 1..10
  BY CopyPlaces
<1>2. /\ sel.buf[1] = CT
      /\ \A j \in 1..3: FullUid(t)[at + j] = sel.buf[j + 1]
  <2>1. PICK n \in 1..3: n = Len(Uid[t])
    BY UidFacts
  <2>2. l \in 1..(n - 1) /\ l \in 1..n
    <3>1. l < n
      BY <2>1 DEF IsEarlier
    <3>2. ASSUME NEW k \in 1..3, l < k PROVE l \in 1..(k - 1) /\ l \in 1..k
      BY <3>2
    <3>3. QED
      BY <3>1, <3>2
  <2>3. Uid[t][l][1] = CT
    BY <2>1, <2>2, UidFacts DEF IsEarlier
  <2>4. \A j \in 1..3: FullUid(t)[3 * (l - 1) + j] = Uid[t][l][j + 1]
    BY <2>1, <2>2, FullUidBytes
  <2>5. QED
    BY <1>1, <2>3, <2>4 DEF Reads
<1>3. \A i \in 1..10: Copied(uid).byte[i] = Middle(uid, at, i)
  BY <1>1, <1>2, CopiedIs DEF Reads
<1>4. ASSUME NEW i \in 1..(at + 3)
      PROVE  Copied(uid).byte[i] = FullUid(t)[i]
  <2>1. i \in 1..10 /\ Copied(uid).byte[i] = Middle(uid, at, i)
    BY <1>1, <1>3
  <2>2. CASE i - at \in 1..3
    BY <1>1, <1>2, <2>1, <2>2 DEF Middle
  <2>3. CASE i - at \notin 1..3
    <3>1. i \in 1..(3 * (l - 1))
      BY <1>1, <2>1, <2>3
    <3>2. QED
      BY <2>1, <2>3, <3>1 DEF Told, Middle
  <2>4. QED
    BY <2>2, <2>3
<1>5. QED
  BY <1>1, <1>4 DEF Told

(* The last level completes the UID.                                       *)
LEMMA CopiedLast ==
  ASSUME sel \in SelType, NEW uid \in UidType, NEW t \in Tags,
         NEW l \in 1..3, Reads(t, l), IsLast(t, l), Told(uid, t, 3 * (l - 1)),
         NEW whole, whole = [Copied(uid) EXCEPT !.size = 3 * l + 1]
  PROVE  whole \in UidType /\ getUID(whole) = FullUid(t)
PROOF
<1>1. PICK at \in 0..6:
        /\ at = 3 * (l - 1) /\ 3 * l + 1 = at + 4
        /\ \A i \in 1..10: /\ i - at \in 1..4 => i - at + 0 = i - at /\ i = at + (i - at)
                           /\ i \in 1..(at + 4) /\ i - at \notin 1..4 => i \in 1..at
        /\ \A i \in 1..(at + 4): i \in 1..10
  BY CopyPlaces
<1>2. /\ sel.buf[1] # CT
      /\ \A j \in 1..4: FullUid(t)[at + j] = sel.buf[j]
      /\ FullUid(t) \in [1..(at + 4) -> Byte]
  <2>1. l \in 1..l /\ ~(l < l)
    OBVIOUS
  <2>2. Uid[t][l][1] # CT
    BY <2>1, UidFacts DEF IsLast
  <2>3. /\ FullUid(t) \in [1..(3 * l + 1) -> Byte]
        /\ \A j \in 1..4: FullUid(t)[3 * (l - 1) + j] = Uid[t][l][j]
    BY FullUidBytes DEF IsLast
  <2>4. QED
    BY <1>1, <2>2, <2>3 DEF Reads
<1>3. PICK m \in 0..10: m = at + 4
  OBVIOUS
<1>4. PICK c \in UidType: c = Copied(uid)
  BY CopiedType
<1>5. \A i \in 1..10: c.byte[i] = Last(uid, at, i)
  BY <1>1, <1>2, <1>4, CopiedIs DEF Reads
<1>6. ASSUME NEW i \in 1..(at + 4)
      PROVE  c.byte[i] = FullUid(t)[i]
  <2>1. i \in 1..10 /\ c.byte[i] = Last(uid, at, i)
    BY <1>1, <1>5
  <2>2. CASE i - at \in 1..4
    BY <1>1, <1>2, <2>1, <2>2 DEF Last
  <2>3. CASE i - at \notin 1..4
    <3>1. i \in 1..(3 * (l - 1))
      BY <1>1, <2>1, <2>3
    <3>2. QED
      BY <2>1, <2>3, <3>1 DEF Told, Last
  <2>4. QED
    BY <2>2, <2>3
<1>7. whole = [size |-> m, byte |-> c.byte] /\ c.byte \in [1..10 -> Byte]
  BY <1>1, <1>3, <1>4 DEF UidType
<1>8. whole \in UidType
  <2>1. [size |-> m, byte |-> c.byte] \in [size: 0..10, byte: [1..10 -> Byte]]
    BY <1>7
  <2>2. QED
    BY <1>7, <2>1 DEF UidType
<1>9. SubSeq(c.byte, 1, m) = FullUid(t)
  <2>1. SubSeq(c.byte, 1, m) = [i \in 1..m |-> c.byte[i]]
    BY <1>7
  <2>2. QED
    BY <1>2, <1>3, <1>6, <2>1
<1>10. QED
  BY <1>7, <1>8, <1>9 DEF getUID

---------------------------------------------------------------------------
(* The inductive invariant.                                                *)

(* A tag is not asked for a level its UID does not have.                   *)
ReadyInv == \A t \in Tags: picc[t].state = "ready" => picc[t].level <= Len(Uid[t])

(* Which exchanges a call goes through.                                    *)
SelIdle == pc # "select" => sel = NoSel
CallInv ==
  /\ pc = "deselect" => call \in {"readPassiveTargetID", "TCL_Deselect"}
  /\ pc = "halt" => call \in {"readPassiveTargetID", "PICC_HaltA"}
  /\ pc \in {"reqa", "wupa"} => call \in {"readPassiveTargetID", "PICC_IsNewCardPresent"}
  /\ pc \in {"select", "rats", "pps"} => call \in {"readPassiveTargetID", "PICC_ReadCardSerial"}

(* Past the first level, the tags still asked are the ones whose UIDs      *)
(* begin with what has been read.                                          *)
SelInv ==
  pc = "select" /\ sel.level # 1 =>
    \A t \in Tags: picc[t].state = "ready" =>
      picc[t].level = sel.level /\ Told(tag.uid, t, 3 * (sel.level - 1))

(* The driver has selected u, and told its UID.                            *)
Chosen(u) == base.selected /\ tag.iso = "SELECTED" /\ getUID(base.uid) = FullUid(u)
RatsInv ==
  pc = "rats" => \E u \in Iso4:
    /\ Chosen(u) /\ picc[u].state \in {"active", "away"}
    /\ \A t \in Tags: picc[t].state = "active" => t = u
PpsInv ==
  pc = "pps" => \E u \in Iso4:
    /\ Chosen(u) /\ tag.ats /\ picc[u].state \in {"protocol", "away"}
    /\ \A t \in Tags: picc[t].state # "active"

(* No tag but the one the driver tells is in its block protocol.           *)
SureInv ==
  sure => /\ pc \in {"halt", "reqa", "wupa", "select", "rats"} => Linked = {}
          /\ call = "PICC_IsNewCardPresent" => Linked = {}
          /\ pc \in {"idle", "deselect", "pps"} =>
               \A t \in Linked: base.selected /\ tag.ats /\ getUID(base.uid) = FullUid(t)

IInv ==
  /\ TypeOK
  /\ ReadyInv /\ SelIdle /\ CallInv
  /\ SelInv /\ RatsInv /\ PpsInv /\ SureInv
  /\ LinkReady /\ AnsweredByTold

---------------------------------------------------------------------------
(* What an exchange does to the tags.                                      *)

(* t is as before, or has heard f.                                         *)
Moves(t, f) == picc'[t] = picc[t] \/ HeardOf(picc[t], t, f, picc'[t])

LEMMA ExchangeMoves ==
  ASSUME TypeOK, NEW f, NEW r \in Receptions(f), Exchange(f, r)
  PROVE  /\ picc' \in [Tags -> Picc] /\ antenna' \in BOOLEAN /\ target' \subseteq Tags
         /\ \A t \in Tags: Moves(t, f)
         /\ r.heard => \A t \in Tags: HeardOf(picc[t], t, f, picc'[t])
PROOF
<1>1. \A t \in Tags: picc[t] \in Picc
  BY DEF TypeOK
<1>2. \A t \in Tags: HeardOf(picc[t], t, f, Hears(picc[t], t, f))
  BY <1>1, HearsWhat
<1>3. antenna' \in BOOLEAN /\ target' \subseteq Tags
  BY DEF Exchange, TypeOK
<1>4. CASE r.heard
  <2>1. picc' = [t \in Tags |-> Hears(picc[t], t, f)]
    BY <1>4 DEF Exchange
  <2>2. \A t \in Tags: picc'[t] = Hears(picc[t], t, f)
    BY <2>1
  <2>3. \A t \in Tags: HeardOf(picc[t], t, f, picc'[t])
    BY <1>2, <2>2
  <2>4. picc' \in [Tags -> Picc]
    BY <2>1, <2>2, <2>3 DEF HeardOf
  <2>5. QED
    BY <1>3, <2>3, <2>4 DEF Moves
<1>5. CASE ~r.heard
  <2>1. picc' = picc
    BY <1>5 DEF Exchange
  <2>2. QED
    BY <1>3, <1>5, <2>1 DEF Moves, TypeOK
<1>6. QED
  BY <1>4, <1>5

LEMMA ReadyKept ==
  ASSUME TypeOK, ReadyInv, NEW f, \A t \in Tags: Moves(t, f)
  PROVE  ReadyInv'
PROOF
<1> SUFFICES ASSUME NEW t \in Tags, picc'[t].state = "ready"
             PROVE  picc'[t].level <= Len(Uid[t])
  BY DEF ReadyInv
<1>1. PICK len \in 1..3: len = Len(Uid[t])
  BY UidFacts
<1>2. picc[t].level \in 1..3
  BY DEF TypeOK, Picc, MaxLevel
<1>3. CASE picc'[t] = picc[t]
  BY <1>3 DEF ReadyInv
<1>4. CASE HeardOf(picc[t], t, f, picc'[t])
  <2>1. \/ picc'[t].level = 1
        \/ picc'[t].level = picc[t].level + 1 /\ picc[t].level < len
        \/ picc'[t] = picc[t]
    BY <1>1, <1>4 DEF HeardOf
  <2>2. CASE picc'[t].level = 1
    BY <1>1, <2>2
  <2>3. CASE picc'[t].level = picc[t].level + 1 /\ picc[t].level < len
    <3>1. \A n \in 1..3, m \in 1..3: n < m => n + 1 <= m
      OBVIOUS
    <3>2. QED
      BY <1>1, <1>2, <2>3, <3>1
  <2>4. CASE picc'[t] = picc[t]
    BY <2>4 DEF ReadyInv
  <2>5. QED
    BY <2>1, <2>2, <2>3, <2>4
<1>5. QED
  BY <1>3, <1>4 DEF Moves

(* Only RATS starts a block protocol.                                      *)
LEMMA LinkedShrinks ==
  ASSUME NEW f, \A t \in Tags: Moves(t, f), f.kind # "RATS"
  PROVE  Linked' \subseteq Linked
PROOF
<1> SUFFICES ASSUME NEW t \in Tags, picc'[t].state = "protocol"
             PROVE  picc[t].state = "protocol"
  BY DEF Linked
<1>1. Moves(t, f)
  OBVIOUS
<1>2. QED
  BY <1>1 DEF Moves, HeardOf, Activates

(* Frames of other kinds than SELECT leave no new tag active, and those    *)
(* that do not wake leave no new one ready.                                *)
LEMMA ActiveShrinks ==
  ASSUME NEW f, \A t \in Tags: Moves(t, f), f.kind # "SEL",
         NEW t \in Tags, picc'[t].state = "active"
  PROVE  picc[t].state = "active"
PROOF
<1>1. Moves(t, f)
  OBVIOUS
<1>2. QED
  BY <1>1 DEF Moves, HeardOf, IsSelected

LEMMA FrameKind ==
  ASSUME NEW kind, NEW f, f = ShortFrame(kind)
  PROVE  /\ f.kind = kind /\ f.level = sel.level /\ f.known = sel.known
         /\ f.bytes = sel.buf /\ f.right = Right(kind)
PROOF BY DEF ShortFrame

---------------------------------------------------------------------------
(* Calls.                                                                  *)

LEMMA StartStep ==
  ASSUME IInv, NEW c \in ApiCalls, Starts(c), sel' = sel,
         crc' \in BOOLEAN, sure' \in BOOLEAN,
         pc' \in {"deselect", "halt", "reqa", "select"}, CallInv', SureInv'
  PROVE  IInv' /\ TellsOneTag
PROOF
<1>1. /\ pc = "idle" /\ call' = c
      /\ result' = [ok |-> FALSE, uid |-> <<>>, by |-> {}]
      /\ target' \subseteq Tags
      /\ picc' = picc /\ antenna' = antenna /\ base' = base /\ tag' = tag
  BY DEF Starts, Findable
<1>2. sel = NoSel
  BY <1>1 DEF IInv, SelIdle
<1>3. TypeOK'
  <2>1. result' \in [ok: BOOLEAN, uid: Seq(Byte), by: SUBSET Tags]
    BY <1>1
  <2>2. pc' \in Locations
    BY DEF Locations
  <2>3. QED
    BY <1>1, <2>1, <2>2 DEF IInv, TypeOK
<1>4. ReadyInv' /\ SelIdle'
  BY <1>1, <1>2 DEF IInv, ReadyInv, SelIdle
<1>5. SelInv' /\ RatsInv' /\ PpsInv'
  BY <1>2 DEF SelInv, RatsInv, PpsInv, NoSel
<1>6. LinkReady' /\ AnsweredByTold'
  BY <1>1 DEF LinkReady, AnsweredByTold
<1>7. TellsOneTag
  BY <1>1 DEF TellsOneTag, Tells
<1>8. QED
  BY <1>3, <1>4, <1>5, <1>6, <1>7 DEF IInv

LEMMA ReadPassiveTargetIDStep ==
  ASSUME IInv, CallReadPassiveTargetID
  PROVE  IInv' /\ TellsOneTag
PROOF
<1>1. Starts("readPassiveTargetID") /\ sel' = sel /\ sure' = sure
  BY DEF CallReadPassiveTargetID
<1>2. /\ pc = "idle" /\ call' = "readPassiveTargetID"
      /\ picc' = picc /\ base' = base /\ tag' = tag
  BY <1>1 DEF Starts
<1>3. pc' = IF ~base.selected THEN "reqa" ELSE IF tag.ats THEN "deselect" ELSE "halt"
  BY DEF CallReadPassiveTargetID, LetGo
<1>4. sure => \A t \in Linked: base.selected /\ tag.ats /\ getUID(base.uid) = FullUid(t)
  BY <1>2 DEF IInv, SureInv
<1>5. SureInv'
  BY <1>1, <1>2, <1>3, <1>4 DEF SureInv, Linked
<1>6. CallInv'
  BY <1>2, <1>3 DEF CallInv
<1>7. crc' \in BOOLEAN /\ sure' \in BOOLEAN
  BY <1>1 DEF CallReadPassiveTargetID, IInv, TypeOK
<1>8. QED
  BY <1>1, <1>3, <1>5, <1>6, <1>7, StartStep DEF ApiCalls

LEMMA IsNewCardPresentStep ==
  ASSUME IInv, CallIsNewCardPresent
  PROVE  IInv' /\ TellsOneTag
PROOF
<1>1. /\ Starts("PICC_IsNewCardPresent") /\ sel' = sel /\ pc' = "reqa" /\ crc' = FALSE
      /\ sure' = (sure /\ Linked = {})
  BY DEF CallIsNewCardPresent
<1>2. call' = "PICC_IsNewCardPresent" /\ picc' = picc
  BY <1>1 DEF Starts
<1>3. SureInv' /\ CallInv'
  BY <1>1, <1>2 DEF SureInv, CallInv, Linked
<1>4. QED
  BY <1>1, <1>3, StartStep DEF ApiCalls

LEMMA ReadCardSerialStep ==
  ASSUME IInv, CallReadCardSerial
  PROVE  IInv' /\ TellsOneTag
PROOF
<1>1. /\ Starts("PICC_ReadCardSerial") /\ sel' = sel /\ pc' = "select" /\ crc' = crc
      /\ sure' = sure /\ call = "PICC_IsNewCardPresent"
  BY DEF CallReadCardSerial
<1>2. call' = "PICC_ReadCardSerial" /\ picc' = picc
  BY <1>1 DEF Starts
<1>3. SureInv' /\ CallInv'
  BY <1>1, <1>2 DEF IInv, SureInv, CallInv, Linked
<1>4. QED
  BY <1>1, <1>3, StartStep DEF ApiCalls, IInv, TypeOK

LEMMA HaltAStep ==
  ASSUME IInv, CallHaltA
  PROVE  IInv' /\ TellsOneTag
PROOF
<1>1. /\ Starts("PICC_HaltA") /\ sel' = sel /\ pc' = "halt" /\ crc' = crc
      /\ sure' = (sure /\ Linked = {})
  BY DEF CallHaltA
<1>2. call' = "PICC_HaltA" /\ picc' = picc
  BY <1>1 DEF Starts
<1>3. SureInv' /\ CallInv'
  BY <1>1, <1>2 DEF SureInv, CallInv, Linked
<1>4. QED
  BY <1>1, <1>3, StartStep DEF ApiCalls, IInv, TypeOK

LEMMA CallDeselectStep ==
  ASSUME IInv, CallDeselect
  PROVE  IInv' /\ TellsOneTag
PROOF
<1>1. /\ Starts("TCL_Deselect") /\ sel' = sel /\ pc' = "deselect" /\ crc' = crc
      /\ sure' = sure
  BY DEF CallDeselect
<1>2. pc = "idle" /\ call' = "TCL_Deselect" /\ picc' = picc /\ base' = base /\ tag' = tag
  BY <1>1 DEF Starts
<1>3. SureInv' /\ CallInv'
  BY <1>1, <1>2 DEF IInv, SureInv, CallInv, Linked
<1>4. QED
  BY <1>1, <1>3, StartStep DEF ApiCalls, IInv, TypeOK

LEMMA InPicc ==
  ASSUME NEW state \in PiccStates
  PROVE  In(state) \in Picc /\ In(state).state = state
PROOF BY DEF In, Picc, MaxLevel

LEMMA Cleared ==
  /\ NoBase \in [selected: BOOLEAN, uid: UidType]
  /\ NoTag \in [uid: UidType, ats: BOOLEAN, iso: {"IDLE", "SELECTED"}]
  /\ NoSel \in SelType
PROOF
<1>1. NoUid \in UidType
  BY DEF NoUid, UidType, Byte
<1>2. NoBytes \in Level
  BY DEF NoBytes, Level, Byte
<1>3. QED
  BY <1>1, <1>2 DEF NoBase, NoTag, NoSel, SelType, MaxLevel

(* A call that returns nothing.                                            *)
ReturnsNothing ==
  pc' = "idle" /\ \E ok \in BOOLEAN: result' = [ok |-> ok, uid |-> <<>>, by |-> {}]

LEMMA NothingType ==
  ASSUME ReturnsNothing
  PROVE  result' \in [ok: BOOLEAN, uid: Seq(Byte), by: SUBSET Tags]
PROOF BY DEF ReturnsNothing

LEMMA BeginStep ==
  ASSUME IInv, NEW reset \in BOOLEAN, NEW configured \in BOOLEAN, Begin(reset, configured)
  PROVE  IInv' /\ TellsOneTag
PROOF
<1>1. /\ pc = "idle" /\ call' = "begin" /\ sel' = sel /\ tag' = tag /\ target' = {}
      /\ antenna' = Powered(reset, configured) /\ crc' = (crc /\ ~reset)
      /\ base' = IF configured THEN NoBase ELSE base
      /\ sure' = (reset \/ (sure /\ Linked = {}))
      /\ ReturnsNothing
  BY DEF Begin, Return, ReturnsNothing
<1>2. \A t \in Tags:
        /\ picc'[t] \in {picc[t], In("off"), In("idle")}
        /\ picc'[t] = picc[t] => ~reset \/ picc[t].state = "away"
                                 \/ picc[t] \in {In("off"), In("idle")}
  BY DEF Begin, Powered
<1>3. /\ In("off") \in Picc /\ In("off").state = "off"
      /\ In("idle") \in Picc /\ In("idle").state = "idle"
  BY InPicc DEF PiccStates
<1>4. TypeOK'
  <2>1. picc' \in [Tags -> Picc]
    <3>1. \A t \in Tags: picc'[t] \in Picc
      BY <1>2, <1>3 DEF IInv, TypeOK
    <3>2. picc' = [t \in Tags |-> picc'[t]]
      BY DEF Begin
    <3>3. QED
      BY <3>1, <3>2
  <2>2. antenna' \in BOOLEAN /\ crc' \in BOOLEAN /\ sure' \in BOOLEAN
    BY <1>1 DEF Powered, IInv, TypeOK
  <2>3. pc' \in Locations /\ call' \in ApiCalls /\ target' \subseteq Tags
    BY <1>1 DEF Locations, ApiCalls, ReturnsNothing
  <2>4. base' \in [selected: BOOLEAN, uid: UidType]
    BY <1>1, Cleared DEF IInv, TypeOK
  <2>5. QED
    BY <1>1, <2>1, <2>2, <2>3, <2>4, NothingType DEF IInv, TypeOK
<1>5. ReadyInv'
  BY <1>2, <1>3 DEF IInv, ReadyInv
<1>6. Linked' \subseteq Linked /\ (reset => Linked' = {})
  BY <1>2, <1>3 DEF Linked
<1>7. SureInv'
  BY <1>1, <1>6 DEF SureInv
<1>8. SelIdle' /\ CallInv' /\ SelInv' /\ RatsInv' /\ PpsInv' /\ LinkReady' /\ AnsweredByTold'
  BY <1>1 DEF IInv, ReturnsNothing, SelIdle, CallInv, SelInv, RatsInv, PpsInv, LinkReady,
              AnsweredByTold
<1>9. TellsOneTag
  BY <1>1 DEF TellsOneTag, Tells
<1>10. QED
  BY <1>4, <1>5, <1>7, <1>8, <1>9 DEF IInv

---------------------------------------------------------------------------
(* Letting a tag go, and calling tags.                                     *)

LEMMA DeselectStep ==
  ASSUME IInv, pc = "deselect", NEW r \in Receptions(ShortFrame("DESELECT")), Deselect(r)
  PROVE  IInv' /\ TellsOneTag
PROOF
<1>1. PICK f : f = ShortFrame("DESELECT")
  OBVIOUS
<1>2. /\ Exchange(f, r) /\ call' = call /\ sel' = sel /\ crc' = crc
      /\ sure' = (sure /\ Linked' = {})
      /\ \/ base' = NoBase /\ tag' = NoTag
         \/ base' = base /\ tag' = tag
      /\ IF call = "TCL_Deselect" THEN ReturnsNothing ELSE pc' = "halt" /\ result' = result
  <2>1. PICK ok : ok = (r.status \in {"ok", "empty"})
    OBVIOUS
  <2> ok \in BOOLEAN
    BY <2>1
  <2>2. IF ok THEN base' = NoBase /\ tag' = NoTag ELSE base' = base /\ tag' = tag
    BY <2>1 DEF Deselect, DeselectedTag
  <2>3. IF call = "TCL_Deselect" THEN Return(ok, <<>>, {})
        ELSE pc' = "halt" /\ result' = result
    BY <2>1 DEF Deselect
  <2>4. Return(ok, <<>>, {}) => ReturnsNothing
    BY DEF Return, ReturnsNothing
  <2>5. QED
    BY <1>1, <2>2, <2>3, <2>4 DEF Deselect
<1>3. /\ picc' \in [Tags -> Picc] /\ antenna' \in BOOLEAN /\ target' \subseteq Tags
      /\ ReadyInv'
  BY <1>1, <1>2, ExchangeMoves, ReadyKept DEF IInv
<1>4. call \in {"readPassiveTargetID", "TCL_Deselect"} /\ sel = NoSel
  BY DEF IInv, CallInv, SelIdle
<1>5. TypeOK'
  <2>1. sure' \in BOOLEAN /\ pc' \in Locations
    BY <1>2 DEF Locations, ReturnsNothing, IInv, TypeOK
  <2>2. result' \in [ok: BOOLEAN, uid: Seq(Byte), by: SUBSET Tags]
    BY <1>2, NothingType DEF IInv, TypeOK
  <2>3. /\ base' \in [selected: BOOLEAN, uid: UidType]
        /\ tag' \in [uid: UidType, ats: BOOLEAN, iso: {"IDLE", "SELECTED"}]
    BY <1>2, Cleared DEF IInv, TypeOK
  <2>4. QED
    BY <1>2, <1>3, <2>1, <2>2, <2>3 DEF IInv, TypeOK
<1>6. SelIdle' /\ CallInv' /\ SelInv' /\ RatsInv' /\ PpsInv'
  BY <1>2, <1>4 DEF ReturnsNothing, SelIdle, CallInv, SelInv, RatsInv, PpsInv
<1>7. SureInv'
  BY <1>2 DEF SureInv
<1>8. LinkReady' /\ AnsweredByTold' /\ TellsOneTag
  BY <1>2, <1>4 DEF LinkReady, AnsweredByTold, TellsOneTag, Tells
<1>9. QED
  BY <1>3, <1>5, <1>6, <1>7, <1>8 DEF IInv

LEMMA HaltStep ==
  ASSUME IInv, pc = "halt", NEW r \in Receptions(ShortFrame("HLTA")), Halt(r)
  PROVE  IInv' /\ TellsOneTag
PROOF
<1>1. PICK f : f = ShortFrame("HLTA")
  OBVIOUS
<1>2. /\ Exchange(f, r) /\ call' = call /\ sel' = sel /\ sure' = sure
      /\ IF call = "PICC_HaltA"
         THEN base' = NoBase /\ ReturnsNothing /\ tag' = tag /\ crc' = crc
         ELSE /\ base' = NoBase /\ tag' = NoTag /\ crc' = FALSE /\ pc' = "reqa"
              /\ result' = result
  BY <1>1 DEF Halt, clearTag, Return, ReturnsNothing
<1>3. /\ picc' \in [Tags -> Picc] /\ antenna' \in BOOLEAN /\ target' \subseteq Tags
      /\ ReadyInv' /\ Linked' \subseteq Linked
  BY <1>1, <1>2, ExchangeMoves, ReadyKept, LinkedShrinks, FrameKind DEF IInv
<1>4. call \in {"readPassiveTargetID", "PICC_HaltA"} /\ sel = NoSel
  BY DEF IInv, CallInv, SelIdle
<1>5. TypeOK'
  <2>1. crc' \in BOOLEAN /\ pc' \in Locations
    BY <1>2 DEF Locations, ReturnsNothing, IInv, TypeOK
  <2>2. result' \in [ok: BOOLEAN, uid: Seq(Byte), by: SUBSET Tags]
    BY <1>2, NothingType DEF IInv, TypeOK
  <2>3. /\ base' \in [selected: BOOLEAN, uid: UidType]
        /\ tag' \in [uid: UidType, ats: BOOLEAN, iso: {"IDLE", "SELECTED"}]
    BY <1>2, Cleared DEF IInv, TypeOK
  <2>4. QED
    BY <1>2, <1>3, <2>1, <2>2, <2>3 DEF IInv, TypeOK
<1>6. SelIdle' /\ CallInv' /\ SelInv' /\ RatsInv' /\ PpsInv'
  BY <1>2, <1>4 DEF ReturnsNothing, SelIdle, CallInv, SelInv, RatsInv, PpsInv
<1>7. SureInv'
  <2>1. sure => Linked = {}
    BY DEF IInv, SureInv
  <2>2. QED
    BY <1>2, <1>3, <2>1 DEF SureInv
<1>8. LinkReady' /\ AnsweredByTold' /\ TellsOneTag
  BY <1>2, <1>4 DEF LinkReady, AnsweredByTold, TellsOneTag, Tells
<1>9. QED
  BY <1>3, <1>5, <1>6, <1>7, <1>8 DEF IInv

LEMMA HaltNotSentStep ==
  ASSUME IInv, HaltNotSent
  PROVE  IInv' /\ TellsOneTag
PROOF
<1>1. /\ pc = "halt" /\ call = "PICC_HaltA" /\ ReturnsNothing
      /\ picc' = picc /\ antenna' = antenna /\ call' = call /\ sel' = sel /\ base' = base
      /\ tag' = tag /\ crc' = crc /\ sure' = sure /\ target' = target
  BY DEF HaltNotSent, history, Fail, Return, ReturnsNothing
<1>2. TypeOK'
  BY <1>1, NothingType DEF IInv, TypeOK, Locations, ReturnsNothing
<1>3. ReadyInv' /\ SelIdle' /\ CallInv' /\ SelInv' /\ RatsInv' /\ PpsInv'
  BY <1>1 DEF IInv, ReturnsNothing, ReadyInv, SelIdle, CallInv, SelInv, RatsInv, PpsInv
<1>4. SureInv'
  BY <1>1 DEF IInv, SureInv, Linked
<1>5. LinkReady' /\ AnsweredByTold' /\ TellsOneTag
  BY <1>1 DEF LinkReady, AnsweredByTold, TellsOneTag, Tells
<1>6. QED
  BY <1>2, <1>3, <1>4, <1>5 DEF IInv

LEMMA RequestStep ==
  ASSUME IInv, NEW kind \in {"REQA", "WUPA"}, pc \in {"reqa", "wupa"},
         NEW r \in Receptions(ShortFrame(kind)), Request(kind, r)
  PROVE  IInv' /\ TellsOneTag
PROOF
<1>1. PICK f : f = ShortFrame(kind)
  OBVIOUS
<1>2. /\ Exchange(f, r) /\ call' = call /\ sel' = sel /\ crc' = crc /\ sure' = sure
      /\ \/ base' = NoBase /\ tag' = NoTag
         \/ base' = base /\ tag' = tag
      /\ \/ pc' \in {"select", "wupa"} /\ result' = result
         \/ ReturnsNothing /\ (call = "readPassiveTargetID" => ~result'.ok)
  <2>1. Found(r) \in BOOLEAN
    BY DEF Found
  <2>2. QED
    BY <1>1, <2>1 DEF Request, clearTag, Return, ReturnsNothing
<1>3. /\ picc' \in [Tags -> Picc] /\ antenna' \in BOOLEAN /\ target' \subseteq Tags
      /\ ReadyInv' /\ Linked' \subseteq Linked
  BY <1>1, <1>2, ExchangeMoves, ReadyKept, LinkedShrinks, FrameKind DEF IInv
<1>4. call \in {"readPassiveTargetID", "PICC_IsNewCardPresent"} /\ sel = NoSel
  BY DEF IInv, CallInv, SelIdle
<1>5. TypeOK'
  <2>1. pc' \in Locations
    BY <1>2 DEF Locations, ReturnsNothing
  <2>2. result' \in [ok: BOOLEAN, uid: Seq(Byte), by: SUBSET Tags]
    BY <1>2, NothingType DEF IInv, TypeOK
  <2>3. /\ base' \in [selected: BOOLEAN, uid: UidType]
        /\ tag' \in [uid: UidType, ats: BOOLEAN, iso: {"IDLE", "SELECTED"}]
    BY <1>2, Cleared DEF IInv, TypeOK
  <2>4. QED
    BY <1>2, <1>3, <2>1, <2>2, <2>3 DEF IInv, TypeOK
<1>6. SelIdle' /\ SelInv' /\ RatsInv' /\ PpsInv'
  BY <1>2, <1>4 DEF ReturnsNothing, SelIdle, SelInv, RatsInv, PpsInv, NoSel
<1>7. CallInv'
  <2>1. pc' = "select" => call = "readPassiveTargetID"
    BY <1>2, <1>4 DEF Request, Return, ReturnsNothing
  <2>2. QED
    BY <1>2, <1>4, <2>1 DEF CallInv, ReturnsNothing
<1>8. SureInv'
  <2>1. sure => Linked = {}
    BY DEF IInv, SureInv
  <2>2. QED
    BY <1>2, <1>3, <2>1 DEF SureInv
<1>9. LinkReady' /\ AnsweredByTold' /\ TellsOneTag
  BY <1>2, <1>4 DEF LinkReady, AnsweredByTold, TellsOneTag, Tells, ReturnsNothing
<1>10. QED
  BY <1>3, <1>5, <1>6, <1>7, <1>8, <1>9 DEF IInv

---------------------------------------------------------------------------
(* PICC_Select.                                                            *)

LEMMA AnswerBitsLevel ==
  ASSUME TypeOK, ReadyInv, NEW f, f.kind = "AC", f.level = sel.level
  PROVE  AnswerBits(f) \in Level
PROOF
<1>1. CASE Answerers(f) = {}
  <2>1. NoBytes \in Level
    BY DEF NoBytes, Level, Byte
  <2>2. QED
    BY <1>1, <2>1 DEF AnswerBits
<1>2. CASE Answerers(f) # {}
  <2>1. PICK t : t = CHOOSE u \in Answerers(f): TRUE
    OBVIOUS
  <2>2. t \in Answerers(f)
    BY <1>2, <2>1
  <2>3. t \in Tags /\ Answers(picc[t], t, f)
    BY <2>2 DEF Answerers
  <2>4. picc[t].state = "ready" /\ picc[t].level = f.level
    BY <2>3 DEF Answers, Wakes, Matches, Heeds, IsSelected, Activates, Deselects, Serves
  <2>5. f.level \in 1..3
    BY <2>3, <2>4 DEF TypeOK, Picc, MaxLevel
  <2>6. PICK n \in 1..3: n = Len(Uid[t])
    BY <2>3, UidFacts
  <2>7. f.level <= n
    BY <2>3, <2>4, <2>6 DEF ReadyInv
  <2>8. f.level \in 1..n
    BY <2>5, <2>7
  <2>9. Uid[t][f.level] \in Level
    BY <2>3, <2>6, <2>8, UidFacts
  <2>10. AnswerBits(f) = Uid[t][f.level]
    BY <1>2, <2>1 DEF AnswerBits
  <2>11. QED
    BY <2>9, <2>10
<1>3. QED
  BY <1>1, <1>2

(* The search of a level fails.                                            *)
LEMMA SelectFailsStep ==
  ASSUME IInv, pc = "select", NEW newTag \in [uid: UidType, ats: BOOLEAN, iso: {"IDLE", "SELECTED"}],
         SelectFails(newTag), call' = call, crc' = crc, sure' = sure,
         picc' \in [Tags -> Picc], antenna' \in BOOLEAN, target' \subseteq Tags,
         ReadyInv', Linked' \subseteq Linked
  PROVE  IInv' /\ TellsOneTag
PROOF
<1>1. /\ tag' = newTag /\ base' = [base EXCEPT !.uid = newTag.uid] /\ sel' = NoSel
      /\ pc' = "idle" /\ result' = [ok |-> FALSE, uid |-> <<>>, by |-> {}]
  BY DEF SelectFails, Fail, Return
<1>2. call \in {"readPassiveTargetID", "PICC_ReadCardSerial"}
  BY DEF IInv, CallInv
<1>3. TypeOK'
  <2>1. base' \in [selected: BOOLEAN, uid: UidType]
    BY <1>1 DEF IInv, TypeOK
  <2>2. result' \in [ok: BOOLEAN, uid: Seq(Byte), by: SUBSET Tags]
    BY <1>1
  <2>3. sel' \in SelType /\ pc' \in Locations
    BY <1>1, Cleared DEF Locations
  <2>4. QED
    BY <1>1, <2>1, <2>2, <2>3 DEF IInv, TypeOK, SelType
<1>4. SelIdle' /\ CallInv' /\ SelInv' /\ RatsInv' /\ PpsInv'
  BY <1>1 DEF SelIdle, CallInv, SelInv, RatsInv, PpsInv
<1>5. SureInv'
  <2>1. sure => Linked = {}
    BY DEF IInv, SureInv
  <2>2. QED
    BY <1>1, <1>2, <2>1 DEF SureInv
<1>6. LinkReady' /\ AnsweredByTold' /\ TellsOneTag
  BY <1>1 DEF LinkReady, AnsweredByTold, TellsOneTag, Tells
<1>7. QED
  BY <1>3, <1>4, <1>5, <1>6 DEF IInv

LEMMA AnticollisionStep ==
  ASSUME IInv, Asks, NEW r \in Receptions(ShortFrame("AC")), Anticollision(r)
  PROVE  IInv' /\ TellsOneTag
PROOF
<1>1. PICK f : f = ShortFrame("AC")
  OBVIOUS
<1>2. /\ f.kind = "AC" /\ f.level = sel.level /\ pc = "select"
      /\ Exchange(f, r) /\ call' = call /\ crc' = crc /\ sure' = sure
  BY <1>1, FrameKind DEF Anticollision, Asks
<1>3. /\ picc' \in [Tags -> Picc] /\ antenna' \in BOOLEAN /\ target' \subseteq Tags
      /\ ReadyInv' /\ Linked' \subseteq Linked
      /\ \A t \in Tags: Moves(t, f)
  BY <1>1, <1>2, ExchangeMoves, ReadyKept, LinkedShrinks DEF IInv
<1>4. PICK bits \in Level: bits = AnswerBits(f)
  BY <1>2, AnswerBitsLevel DEF IInv
<1>5. /\ sel \in SelType /\ sel.known \in 0..32 /\ sel.buf \in Level /\ sel.level \in 1..3
      /\ sel.known \in Nat /\ r.at \in 0..32
  <2>1. sel \in SelType
    BY DEF IInv, TypeOK, SelType
  <2>2. sel.known \in 0..32 /\ sel.buf \in Level /\ sel.level \in 1..3
    BY <2>1 DEF SelType, MaxLevel
  <2>3. r.at \in 0..32
    BY <1>1, ReceptionsAre DEF ReceptionOf
  <2>4. QED
    BY <2>1, <2>2, <2>3
<1>6. ASSUME NEW k \in 0..32, NEW b \in Level,
             sel' = [sel EXCEPT !.known = k, !.buf = b],
             pc' = pc, base' = base, tag' = tag, result' = result
      PROVE  IInv' /\ TellsOneTag
  <2>2. sel' \in SelType /\ sel'.level = sel.level
    BY <1>5, <1>6 DEF SelType
  <2>3. TypeOK'
    BY <1>2, <1>3, <1>6, <2>2 DEF IInv, TypeOK, SelType
  <2>4. SelIdle' /\ CallInv' /\ RatsInv' /\ PpsInv'
    BY <1>2, <1>6 DEF IInv, SelIdle, CallInv, RatsInv, PpsInv
  <2>5. SelInv'
    <3>1. ASSUME NEW t \in Tags, picc'[t].state = "ready" PROVE picc'[t] = picc[t]
      <4>1. Moves(t, f)
        BY <1>3
      <4>2. QED
        BY <1>2, <3>1, <4>1 DEF Moves, HeardOf, Wakes, IsSelected
    <3>2. QED
      BY <1>2, <1>6, <2>2, <3>1 DEF IInv, SelInv
  <2>6. SureInv'
    <3>1. /\ sure => Linked = {}
          /\ pc' = "select"
      BY <1>2, <1>6 DEF IInv, SureInv
    <3>2. QED
      BY <1>2, <1>3, <3>1 DEF SureInv
  <2>7. LinkReady' /\ TellsOneTag
    BY <1>2, <1>6 DEF LinkReady, TellsOneTag, Tells
  <2>8. AnsweredByTold'
    BY <1>2, <1>6 DEF IInv, CallInv, AnsweredByTold
  <2>9. QED
    BY <1>3, <2>3, <2>4, <2>5, <2>6, <2>7, <2>8 DEF IInv
<1>7. CASE SelectFails(tag)
  BY <1>2, <1>3, <1>7, SelectFailsStep DEF IInv, TypeOK
<1>8. CASE /\ r.status = "ok"
           /\ sel' = [sel EXCEPT !.known = 32, !.buf = ReadIn(@, sel.known, AnswerBits(f))]
           /\ UNCHANGED <<pc, base, tag, result>>
  <2>1. ReadIn(sel.buf, sel.known, bits) \in Level
    BY <1>5, ReadInLevel
  <2>2. PICK b \in Level: b = ReadIn(sel.buf, sel.known, AnswerBits(f))
    BY <1>4, <2>1
  <2>3. /\ sel' = [sel EXCEPT !.known = 32, !.buf = b] /\ 32 \in 0..32
        /\ pc' = pc /\ base' = base /\ tag' = tag /\ result' = result
    BY <1>8, <2>2
  <2>4. QED
    BY <1>6, <2>3
<1>9. CASE r.status = "empty" /\ sel' = [sel EXCEPT !.known = 32] /\ UNCHANGED <<pc, base, tag, result>>
  <2>1. sel' = [sel EXCEPT !.known = 32, !.buf = sel.buf]
    BY <1>5, <1>9 DEF SelType
  <2>2. /\ pc' = pc /\ base' = base /\ tag' = tag /\ result' = result
        /\ 32 \in 0..32 /\ sel.buf \in Level
    BY <1>5, <1>9
  <2>3. QED
    BY <1>6, <2>1, <2>2
<1>10. CASE /\ Resolves(r)
            /\ sel' = [sel EXCEPT !.known = r.at,
                 !.buf = Mark(ReadIn(@, sel.known, Before(AnswerBits(f), r.at - 1)), r.at)]
            /\ UNCHANGED <<pc, base, tag, result>>
  <2>1. r.at \in 1..32 /\ r.at - 1 \in Nat
    BY <1>5, <1>10 DEF Resolves
  <2>2. Before(bits, r.at - 1) \in Level
    BY <2>1, BeforeLevel
  <2>3. ReadIn(sel.buf, sel.known, Before(bits, r.at - 1)) \in Level
    BY <1>5, <2>2, ReadInLevel
  <2>4. Mark(ReadIn(sel.buf, sel.known, Before(bits, r.at - 1)), r.at) \in Level
    BY <2>1, <2>3, MarkLevel
  <2>5. PICK b \in Level:
          b = Mark(ReadIn(sel.buf, sel.known, Before(AnswerBits(f), r.at - 1)), r.at)
    BY <1>4, <2>4
  <2>6. PICK k \in 0..32: k = r.at
    BY <1>5
  <2>7. /\ sel' = [sel EXCEPT !.known = k, !.buf = b]
        /\ pc' = pc /\ base' = base /\ tag' = tag /\ result' = result
    BY <1>10, <2>5, <2>6
  <2>8. QED
    BY <1>6, <2>7
<1>11. QED
  BY <1>1, <1>7, <1>8, <1>9, <1>10 DEF Anticollision

(* The SELECT of a level that is not the last.                             *)
LEMMA EarlierLevelStep ==
  ASSUME IInv, Selects, NEW f, f = ShortFrame("SEL"), NEW r \in Receptions(f),
         Exchange(f, r), r.status = "ok", sel.level < MaxLevel,
         sel' = [NoSel EXCEPT !.level = sel.level + 1],
         tag' = [tag EXCEPT !.uid = Copied(tag.uid)],
         pc' = pc, base' = base, result' = result, call' = call, crc' = crc, sure' = sure
  PROVE  IInv' /\ TellsOneTag
PROOF
<1>1. /\ f.kind = "SEL" /\ f.level = sel.level /\ f.bytes = sel.buf /\ pc = "select"
      /\ r.heard
  BY FrameKind, ReceptionsAre DEF Selects, ReceptionOf
<1>2. /\ picc' \in [Tags -> Picc] /\ antenna' \in BOOLEAN /\ target' \subseteq Tags
      /\ ReadyInv' /\ Linked' \subseteq Linked
      /\ \A t \in Tags: HeardOf(picc[t], t, f, picc'[t])
  BY <1>1, ExchangeMoves, ReadyKept, LinkedShrinks DEF IInv
<1>3. sel \in SelType /\ tag.uid \in UidType
  BY DEF IInv, TypeOK, SelType
<1>4. PICK l \in 1..3: l = sel.level
  BY <1>3 DEF SelType, MaxLevel
<1>5. l + 1 \in 1..3 /\ l + 1 - 1 = l
  BY <1>4 DEF MaxLevel
<1>6. NoSel \in SelType
  BY Cleared
<1>7. sel' \in SelType /\ sel'.level = l + 1
  BY <1>4, <1>5, <1>6 DEF SelType, MaxLevel
<1>8. tag' \in [uid: UidType, ats: BOOLEAN, iso: {"IDLE", "SELECTED"}] /\ tag'.uid = Copied(tag.uid)
  BY <1>3, CopiedType DEF IInv, TypeOK
<1>9. TypeOK'
  BY <1>1, <1>2, <1>7, <1>8 DEF IInv, TypeOK, SelType
<1>10. SelIdle' /\ CallInv' /\ RatsInv' /\ PpsInv'
  BY <1>1 DEF IInv, SelIdle, CallInv, RatsInv, PpsInv
<1>11. ASSUME NEW t \in Tags, picc'[t].state = "ready"
       PROVE  picc'[t].level = sel'.level /\ Told(tag'.uid, t, 3 * l)
  <2>1. HeardOf(picc[t], t, f, picc'[t])
    BY <1>2
  <2>2. /\ IsSelected(picc[t], t, f) /\ picc[t].level < Len(Uid[t])
        /\ picc'[t].level = picc[t].level + 1
    BY <1>1, <1>11, <2>1 DEF HeardOf, Wakes, Heeds
  <2>3. /\ picc[t].state = "ready" /\ picc[t].level = l
        /\ Reads(t, l) /\ IsEarlier(t, l)
    BY <1>1, <1>4, <2>2 DEF IsSelected, Reads, IsEarlier
  <2>4. Told(tag.uid, t, 3 * (l - 1))
    <3>1. CASE l = 1
      <4>1. \A i \in 1..(3 * (l - 1)): FALSE
        BY <3>1
      <4>2. QED
        BY <4>1 DEF Told
    <3>2. CASE l # 1
      BY <1>1, <1>4, <2>3, <3>2 DEF IInv, SelInv
    <3>3. QED
      BY <3>1, <3>2
  <2>5. Told(Copied(tag.uid), t, 3 * l)
    BY <1>3, <2>3, <2>4, CopiedMiddle
  <2>6. QED
    BY <1>7, <1>8, <2>2, <2>3, <2>5
<1>12. SelInv'
  <2>1. sel'.level - 1 = l
    BY <1>5, <1>7
  <2>2. QED
    BY <1>11, <2>1 DEF SelInv, Told
<1>13. SureInv'
  <2>1. sure => Linked = {}
    BY <1>1 DEF IInv, SureInv
  <2>2. QED
    BY <1>1, <1>2, <2>1 DEF SureInv
<1>14. LinkReady' /\ TellsOneTag
  BY <1>1 DEF LinkReady, TellsOneTag, Tells
<1>15. AnsweredByTold'
  BY <1>1 DEF IInv, CallInv, AnsweredByTold
<1>16. QED
  BY <1>2, <1>9, <1>10, <1>12, <1>13, <1>14, <1>15 DEF IInv

LEMMA FullUidSeq ==
  ASSUME NEW t \in Tags
  PROVE  FullUid(t) \in Seq(Byte)
PROOF
<1>1. PICK n \in 1..3: n = Len(Uid[t])
  BY UidFacts
<1>2. PICK m \in Nat: m = 3 * n + 1
  OBVIOUS
<1>3. FullUid(t) \in [1..m -> Byte]
  BY <1>1, <1>2, FullUidBytes
<1>4. QED
  BY <1>3

(* A tag that answers the SELECT of its last level: what has been read is  *)
(* its UID.                                                                *)
LEMMA SelectedIsRead ==
  ASSUME IInv, Selects, NEW f, f = ShortFrame("SEL"), NEW t \in Answerers(f),
         ~(sel.level < Len(Uid[t])),
         NEW whole, whole = [Copied(tag.uid) EXCEPT !.size = 3 * sel.level + 1]
  PROVE  /\ whole \in UidType /\ getUID(whole) = FullUid(t)
         /\ IsSelected(picc[t], t, f) /\ ~(picc[t].level < Len(Uid[t]))
PROOF
<1>1. /\ f.kind = "SEL" /\ f.level = sel.level /\ f.bytes = sel.buf /\ pc = "select"
  BY FrameKind DEF Selects
<1>2. t \in Tags /\ IsSelected(picc[t], t, f)
  BY <1>1 DEF Answerers, Answers, Wakes, Matches, Heeds, Activates, Deselects, Serves
<1>3. sel \in SelType /\ tag.uid \in UidType
  BY DEF IInv, TypeOK, SelType
<1>4. PICK l \in 1..3: l = sel.level
  BY <1>3 DEF SelType, MaxLevel
<1>5. picc[t].state = "ready" /\ picc[t].level = l /\ Reads(t, l)
  BY <1>1, <1>2, <1>4 DEF IsSelected, Reads
<1>6. IsLast(t, l)
  <2>1. PICK n \in 1..3: n = Len(Uid[t])
    BY <1>2, UidFacts
  <2>2. l <= n /\ ~(l < n)
    BY <1>2, <1>4, <1>5, <2>1 DEF IInv, ReadyInv
  <2>3. n = l
    BY <2>2
  <2>4. QED
    BY <2>1, <2>3 DEF IsLast
<1>7. Told(tag.uid, t, 3 * (l - 1))
  <2>1. CASE l = 1
    <3>1. \A i \in 1..(3 * (l - 1)): FALSE
      BY <2>1
    <3>2. QED
      BY <3>1 DEF Told
  <2>2. CASE l # 1
    BY <1>1, <1>2, <1>4, <1>5, <2>2 DEF IInv, SelInv
  <2>3. QED
    BY <2>1, <2>2
<1>8. whole = [Copied(tag.uid) EXCEPT !.size = 3 * l + 1]
  BY <1>4
<1>9. whole \in UidType /\ getUID(whole) = FullUid(t)
  BY <1>2, <1>3, <1>5, <1>6, <1>7, <1>8, CopiedLast
<1>10. QED
  BY <1>2, <1>4, <1>5, <1>9

(* The SELECT of the last level: one tag has answered, and is told.        *)
LEMMA LastLevelStep ==
  ASSUME IInv, Selects, NEW f, f = ShortFrame("SEL"), NEW r \in Receptions(f),
         Exchange(f, r), r.status = "ok",
         ~\E t \in Answerers(f): sel.level < Len(Uid[t]),
         sel' = NoSel,
         NEW whole, whole = [Copied(tag.uid) EXCEPT !.size = 3 * sel.level + 1],
         Selected(whole, Answerers(f) \subseteq Iso4),
         call' = call, crc' = crc, sure' = sure
  PROVE  IInv' /\ TellsOneTag
PROOF
<1>1. /\ f.kind = "SEL" /\ pc = "select" /\ r.heard /\ Answerers(f) # {}
  BY FrameKind, ReceptionsAre DEF Selects, ReceptionOf
<1>2. /\ picc' \in [Tags -> Picc] /\ antenna' \in BOOLEAN /\ target' \subseteq Tags
      /\ ReadyInv' /\ Linked' \subseteq Linked
      /\ \A t \in Tags: HeardOf(picc[t], t, f, picc'[t])
  BY <1>1, ExchangeMoves, ReadyKept, LinkedShrinks DEF IInv
<1>3. \A t \in Answerers(f):
        /\ whole \in UidType /\ getUID(whole) = FullUid(t)
        /\ IsSelected(picc[t], t, f) /\ ~(picc[t].level < Len(Uid[t]))
  BY SelectedIsRead
<1>4. PICK u : u \in Answerers(f)
  BY <1>1
<1>5. u \in Tags /\ whole \in UidType /\ getUID(whole) = FullUid(u)
  BY <1>3, <1>4 DEF Answerers
<1>6. \A t \in Answerers(f): t = u
  <2>1. ASSUME NEW t \in Answerers(f) PROVE t = u
    <3>1. t \in Tags /\ FullUid(t) = FullUid(u)
      BY <1>3, <1>5, <2>1 DEF Answerers
    <3>2. QED
      BY <1>5, <3>1, FullUidInjective
  <2>2. QED
    BY <2>1
<1>7. picc'[u].state = "active"
  <2>1. HeardOf(picc[u], u, f, picc'[u])
    BY <1>2, <1>5
  <2>2. QED
    BY <1>3, <1>4, <2>1 DEF HeardOf
<1>8. ASSUME NEW t \in Tags, picc'[t].state = "active"
      PROVE  t = u
  <2>1. HeardOf(picc[t], t, f, picc'[t])
    BY <1>2
  <2>2. IsSelected(picc[t], t, f)
    BY <1>8, <2>1 DEF HeardOf
  <2>3. t \in Answerers(f)
    BY <2>2 DEF Answerers, Answers
  <2>4. QED
    BY <1>6, <2>3
<1>9. /\ tag' = [tag EXCEPT !.uid = whole, !.iso = "SELECTED"]
      /\ base' = [selected |-> TRUE, uid |-> whole]
      /\ IF u \in Iso4 THEN pc' = "rats" /\ result' = result
         ELSE pc' = "idle" /\ result' = [ok |-> TRUE, uid |-> FullUid(u), by |-> {}]
  <2>1. (Answerers(f) \subseteq Iso4) <=> u \in Iso4
    BY <1>4, <1>6
  <2>2. QED
    BY <1>5, <2>1 DEF Selected, Return
<1>10. call \in {"readPassiveTargetID", "PICC_ReadCardSerial"}
  BY <1>1 DEF IInv, CallInv
<1>11. TypeOK'
  <2>1. tag' \in [uid: UidType, ats: BOOLEAN, iso: {"IDLE", "SELECTED"}]
    BY <1>5, <1>9 DEF IInv, TypeOK
  <2>2. base' \in [selected: BOOLEAN, uid: UidType]
    BY <1>5, <1>9
  <2>3. FullUid(u) \in Seq(Byte)
    BY <1>5, FullUidSeq
  <2>4. result' \in [ok: BOOLEAN, uid: Seq(Byte), by: SUBSET Tags]
    <3>1. CASE u \in Iso4
      BY <1>9, <3>1 DEF IInv, TypeOK
    <3>2. CASE u \notin Iso4
      <4>1. PICK x \in Seq(Byte): x = FullUid(u)
        BY <2>3
      <4>2. result' = [ok |-> TRUE, uid |-> x, by |-> {}]
        BY <1>9, <3>2, <4>1
      <4>3. QED
        BY <4>2
    <3>3. QED
      BY <3>1, <3>2
  <2>5. sel' \in SelType /\ pc' \in Locations
    BY <1>9, Cleared DEF Locations
  <2>6. QED
    BY <1>2, <2>1, <2>2, <2>4, <2>5 DEF IInv, TypeOK, SelType
<1>12. SelIdle' /\ CallInv' /\ SelInv' /\ PpsInv'
  BY <1>9, <1>10 DEF SelIdle, CallInv, SelInv, PpsInv
<1>13. base'.selected /\ tag'.iso = "SELECTED" /\ getUID(base'.uid) = FullUid(u)
  <2>1. tag'.iso = "SELECTED"
    BY <1>9 DEF IInv, TypeOK
  <2>2. base'.selected /\ base'.uid = whole
    BY <1>9
  <2>3. QED
    BY <1>5, <2>1, <2>2
<1>14. RatsInv'
  BY <1>5, <1>7, <1>8, <1>9, <1>13 DEF RatsInv, Chosen, getUID
<1>15. SureInv'
  <2>1. sure => Linked = {}
    BY <1>1 DEF IInv, SureInv
  <2>2. QED
    BY <1>2, <1>9, <1>10, <2>1 DEF SureInv
<1>16. LinkReady'
  <2>1. ASSUME pc' = "idle", NEW t \in Iso4, result'.uid = FullUid(t)
        PROVE  FALSE
    <3>1. u \notin Iso4 /\ FullUid(t) = FullUid(u)
      BY <1>9, <2>1
    <3>2. t \in Tags
      BY TagsAssumption
    <3>3. QED
      BY <1>5, <3>1, <3>2, FullUidInjective
  <2>2. QED
    BY <2>1 DEF LinkReady
<1>17. TellsOneTag
  BY <1>1, <1>5, <1>7, <1>9 DEF TellsOneTag, Tells
<1>18. AnsweredByTold'
  BY <1>10 DEF AnsweredByTold
<1>19. QED
  BY <1>2, <1>11, <1>12, <1>14, <1>15, <1>16, <1>17, <1>18 DEF IInv

LEMMA SelectLevelStep ==
  ASSUME IInv, Selects, NEW r \in Receptions(ShortFrame("SEL")), SelectLevel(r)
  PROVE  IInv' /\ TellsOneTag
PROOF
<1>1. PICK f : f = ShortFrame("SEL")
  OBVIOUS
<1>2. r \in Receptions(f) /\ Exchange(f, r) /\ call' = call /\ crc' = crc /\ sure' = sure
  BY <1>1 DEF SelectLevel
<1>3. CASE /\ r.status = "ok" /\ sel.level < MaxLevel
           /\ sel' = [NoSel EXCEPT !.level = sel.level + 1]
           /\ tag' = [tag EXCEPT !.uid = Copied(tag.uid)]
           /\ UNCHANGED <<pc, base, result>>
  BY <1>1, <1>2, <1>3, EarlierLevelStep
<1>4. CASE /\ r.status = "ok" /\ ~\E t \in Answerers(f): sel.level < Len(Uid[t])
           /\ sel' = NoSel
           /\ Selected([Copied(tag.uid) EXCEPT !.size = 3 * sel.level + 1], Answerers(f) \subseteq Iso4)
  <2>1. PICK whole : whole = [Copied(tag.uid) EXCEPT !.size = 3 * sel.level + 1]
    OBVIOUS
  <2>2. Selected(whole, Answerers(f) \subseteq Iso4)
    BY <1>4, <2>1
  <2>3. QED
    BY <1>1, <1>2, <1>4, <2>1, <2>2, LastLevelStep
<1>5. CASE SelectFails(IF r.status = "empty" THEN [tag EXCEPT !.uid = Copied(tag.uid)] ELSE tag)
  <2>1. f.kind = "SEL" /\ pc = "select"
    BY <1>1, FrameKind DEF Selects
  <2>2. /\ picc' \in [Tags -> Picc] /\ antenna' \in BOOLEAN /\ target' \subseteq Tags
        /\ ReadyInv' /\ Linked' \subseteq Linked
    BY <1>2, <2>1, ExchangeMoves, ReadyKept, LinkedShrinks DEF IInv
  <2>3. Copied(tag.uid) \in UidType
    BY CopiedType DEF IInv, TypeOK, SelType
  <2>4. PICK newTag \in [uid: UidType, ats: BOOLEAN, iso: {"IDLE", "SELECTED"}]:
          newTag = IF r.status = "empty" THEN [tag EXCEPT !.uid = Copied(tag.uid)] ELSE tag
    BY <2>3 DEF IInv, TypeOK
  <2>5. SelectFails(newTag)
    BY <1>5, <2>4
  <2>6. QED
    BY <1>2, <2>1, <2>2, <2>5, SelectFailsStep
<1>6. QED
  BY <1>1, <1>3, <1>4, <1>5 DEF SelectLevel, SakValid

---------------------------------------------------------------------------
(* RATS and PPS, APDUs, the tags.                                          *)

LEMMA RequestATSStep ==
  ASSUME IInv, pc = "rats", NEW r \in Receptions(ShortFrame("RATS")), RequestATS(r)
  PROVE  IInv' /\ TellsOneTag
PROOF
<1>1. PICK f : f = ShortFrame("RATS")
  OBVIOUS
<1>2. /\ f.kind = "RATS" /\ Exchange(f, r) /\ r \in Receptions(f)
      /\ call' = call /\ sel' = sel /\ base' = base /\ crc' = crc
      /\ IF r.status = "ok"
         THEN tag' = [tag EXCEPT !.ats = TRUE] /\ pc' = "pps" /\ result' = result /\ sure' = sure
         ELSE ReturnsNothing /\ ~result'.ok /\ sure' = (sure /\ Linked' = {}) /\ tag' = tag
  <2>1. ASSUME Fail PROVE ReturnsNothing /\ ~result'.ok
    <3>1. pc' = "idle" /\ result' = [ok |-> FALSE, uid |-> <<>>, by |-> {}]
      BY <2>1 DEF Fail, Return
    <3>2. ReturnsNothing
      BY <3>1 DEF ReturnsNothing
    <3>3. QED
      BY <3>1, <3>2
  <2>2. /\ Exchange(f, r) /\ r \in Receptions(f)
        /\ call' = call /\ sel' = sel /\ base' = base /\ crc' = crc
        /\ IF r.status = "ok"
           THEN tag' = [tag EXCEPT !.ats = TRUE] /\ pc' = "pps" /\ result' = result /\ sure' = sure
           ELSE Fail /\ sure' = (sure /\ Linked' = {}) /\ tag' = tag
    BY <1>1 DEF RequestATS
  <2>3. QED
    BY <1>1, <2>1, <2>2, FrameKind
<1>3. /\ picc' \in [Tags -> Picc] /\ antenna' \in BOOLEAN /\ target' \subseteq Tags
      /\ ReadyInv' /\ \A t \in Tags: Moves(t, f)
  BY <1>2, ExchangeMoves, ReadyKept DEF IInv
<1>4. call \in {"readPassiveTargetID", "PICC_ReadCardSerial"} /\ sel = NoSel
  BY DEF IInv, CallInv, SelIdle
<1>5. TypeOK'
  <2>1. /\ sure' \in BOOLEAN /\ pc' \in Locations
        /\ tag' \in [uid: UidType, ats: BOOLEAN, iso: {"IDLE", "SELECTED"}]
    BY <1>2 DEF Locations, ReturnsNothing, IInv, TypeOK
  <2>2. result' \in [ok: BOOLEAN, uid: Seq(Byte), by: SUBSET Tags]
    BY <1>2, NothingType DEF IInv, TypeOK
  <2>3. QED
    BY <1>2, <1>3, <2>1, <2>2 DEF IInv, TypeOK
<1>6. SelIdle' /\ CallInv' /\ SelInv' /\ RatsInv'
  BY <1>2, <1>4 DEF ReturnsNothing, SelIdle, CallInv, SelInv, RatsInv
<1>7. LinkReady' /\ AnsweredByTold' /\ TellsOneTag
  BY <1>2, <1>4 DEF LinkReady, AnsweredByTold, TellsOneTag, Tells
<1>8. CASE r.status = "ok"
  <2>1. PICK u \in Iso4:
          /\ Chosen(u) /\ picc[u].state \in {"active", "away"}
          /\ \A t \in Tags: picc[t].state = "active" => t = u
    BY DEF IInv, RatsInv
  <2>2. r.heard /\ Answerers(f) # {}
    BY <1>2, <1>8, ReceptionsAre DEF ReceptionOf
  <2>3. \A t \in Tags: HeardOf(picc[t], t, f, picc'[t])
    BY <1>2, <2>2, ExchangeMoves DEF IInv
  <2>4. \A t \in Answerers(f): t \in Tags /\ Activates(picc[t], t, f)
    BY <1>2 DEF Answerers, Answers, Wakes, Matches, Heeds, IsSelected, Deselects, Serves
  <2>5. \A t \in Tags: Activates(picc[t], t, f) => t = u
    BY <2>1 DEF Activates
  <2>6. u \in Tags /\ Activates(picc[u], u, f)
    BY <2>2, <2>4, <2>5
  <2>7. picc'[u].state = "protocol"
    BY <2>3, <2>6 DEF HeardOf
  <2>8. ASSUME NEW t \in Tags PROVE picc'[t].state # "active"
    <3>1. HeardOf(picc[t], t, f, picc'[t])
      BY <2>3
    <3>2. QED
      BY <1>2, <3>1 DEF HeardOf, IsSelected
  <2>9. tag'.ats /\ tag'.iso = "SELECTED" /\ base' = base /\ pc' = "pps"
    BY <1>2, <1>8, <2>1 DEF Chosen, IInv, TypeOK
  <2>10. base.selected /\ getUID(base.uid) = FullUid(u)
    BY <2>1 DEF Chosen
  <2>11. PpsInv'
    BY <2>7, <2>8, <2>9, <2>10 DEF PpsInv, Chosen, getUID
  <2>12. SureInv'
    <3>1. sure' = sure /\ (sure => Linked = {})
      BY <1>2, <1>8 DEF IInv, SureInv
    <3>2. ASSUME sure, NEW t \in Linked' PROVE t = u
      <4>1. t \in Tags /\ picc'[t].state = "protocol" /\ picc[t].state # "protocol"
        BY <3>1, <3>2 DEF Linked
      <4>2. HeardOf(picc[t], t, f, picc'[t])
        BY <2>3, <4>1
      <4>3. Activates(picc[t], t, f)
        BY <4>1, <4>2 DEF HeardOf
      <4>4. QED
        BY <2>5, <4>1, <4>3
    <3>3. QED
      BY <1>2, <1>4, <2>9, <2>10, <3>1, <3>2 DEF SureInv, getUID
  <2>13. QED
    BY <1>3, <1>5, <1>6, <1>7, <2>11, <2>12 DEF IInv
<1>9. CASE r.status # "ok"
  <2>1. PpsInv' /\ SureInv'
    BY <1>2, <1>9 DEF ReturnsNothing, PpsInv, SureInv
  <2>2. QED
    BY <1>3, <1>5, <1>6, <1>7, <2>1 DEF IInv
<1>10. QED
  BY <1>8, <1>9

LEMMA PPSStep ==
  ASSUME IInv, pc = "pps", NEW r \in Receptions(ShortFrame("PPS")), PPS(r)
  PROVE  IInv' /\ TellsOneTag
PROOF
<1>1. PICK f : f = ShortFrame("PPS")
  OBVIOUS
<1>2. /\ f.kind = "PPS" /\ Exchange(f, r) /\ r \in Receptions(f)
      /\ call' = call /\ sel' = sel /\ base' = base /\ tag' = tag /\ sure' = sure
      /\ crc' = TRUE /\ pc' = "idle"
      /\ result' = [ok |-> TRUE, uid |-> getUID(base.uid), by |-> {}]
  BY <1>1, FrameKind DEF PPS, EnablesCrc, Return
<1>3. /\ picc' \in [Tags -> Picc] /\ antenna' \in BOOLEAN /\ target' \subseteq Tags
      /\ ReadyInv' /\ Linked' \subseteq Linked /\ \A t \in Tags: Moves(t, f)
  BY <1>2, ExchangeMoves, ReadyKept, LinkedShrinks DEF IInv
<1>4. PICK u \in Iso4:
        /\ Chosen(u) /\ tag.ats /\ picc[u].state \in {"protocol", "away"}
        /\ \A t \in Tags: picc[t].state # "active"
  BY DEF IInv, PpsInv
<1>5. call \in {"readPassiveTargetID", "PICC_ReadCardSerial"} /\ sel = NoSel
  BY DEF IInv, CallInv, SelIdle
<1>6. u \in Tags
  BY TagsAssumption
<1>7. PICK x \in Seq(Byte): x = FullUid(u)
  BY <1>6, FullUidSeq
<1>8. result' = [ok |-> TRUE, uid |-> x, by |-> {}]
  BY <1>2, <1>4, <1>7 DEF Chosen
<1>9. TypeOK'
  <2>1. result' \in [ok: BOOLEAN, uid: Seq(Byte), by: SUBSET Tags]
    BY <1>8
  <2>2. QED
    BY <1>2, <1>3, <2>1 DEF IInv, TypeOK, Locations
<1>10. SelIdle' /\ CallInv' /\ SelInv' /\ RatsInv' /\ PpsInv'
  BY <1>2, <1>5 DEF SelIdle, CallInv, SelInv, RatsInv, PpsInv
<1>11. SureInv'
  <2>1. sure => \A t \in Linked: base.selected /\ tag.ats /\ getUID(base.uid) = FullUid(t)
    BY DEF IInv, SureInv
  <2>2. QED
    BY <1>2, <1>3, <1>5, <2>1 DEF SureInv, getUID
<1>12. LinkReady'
  BY <1>2, <1>4 DEF LinkReady, Chosen
<1>13. AnsweredByTold'
  BY <1>2, <1>5 DEF AnsweredByTold
<1>14. TellsOneTag
  <2>1. picc'[u].state \in {"protocol", "away"}
    <3>1. Moves(u, f)
      BY <1>3, <1>6
    <3>2. QED
      BY <1>2, <1>4, <3>1 DEF Moves, HeardOf
  <2>2. ASSUME NEW t \in Tags PROVE picc'[t].state # "active"
    BY <1>2, <1>3, <1>4, ActiveShrinks
  <2>3. QED
    BY <1>6, <1>7, <1>8, <2>1, <2>2 DEF TellsOneTag
<1>15. QED
  BY <1>3, <1>9, <1>10, <1>11, <1>12, <1>13, <1>14 DEF IInv

LEMMA TransceiveStep ==
  ASSUME IInv, pc = "idle", NEW r \in Receptions(ShortFrame("APDU")), Transceive(r)
  PROVE  IInv' /\ TellsOneTag
PROOF
<1>1. PICK f : f = ShortFrame("APDU")
  OBVIOUS
<1>2. PICK by : by = IF r.status = "ok" THEN Answerers(f) ELSE {}
  OBVIOUS
<1>3. /\ f.kind = "APDU" /\ Exchange(f, r) /\ r \in Receptions(f)
      /\ call' = "transceive" /\ pc' = "idle" /\ by \subseteq Tags
      /\ sel' = sel /\ base' = base /\ tag' = tag /\ crc' = crc /\ sure' = sure
  BY <1>1, <1>2, FrameKind DEF Transceive, Return, Answerers
<1>4. result' = [ok |-> r.status = "ok", uid |-> <<>>, by |-> by]
  BY <1>1, <1>2 DEF Transceive, Return
<1>5. /\ picc' \in [Tags -> Picc] /\ antenna' \in BOOLEAN /\ target' \subseteq Tags
      /\ ReadyInv' /\ Linked' \subseteq Linked
  BY <1>3, ExchangeMoves, ReadyKept, LinkedShrinks DEF IInv
<1>6. TypeOK'
  <2>1. result' \in [ok: BOOLEAN, uid: Seq(Byte), by: SUBSET Tags]
    <3>1. PICK ok : ok = (r.status = "ok")
      OBVIOUS
    <3>2. ok \in BOOLEAN
      BY <3>1
    <3>3. result' = [ok |-> ok, uid |-> <<>>, by |-> by]
      BY <1>4, <3>1
    <3>4. QED
      BY <1>3, <3>2, <3>3
  <2>2. QED
    BY <1>3, <1>5, <2>1 DEF IInv, TypeOK, Locations, ApiCalls
<1>7. SelIdle' /\ CallInv' /\ SelInv' /\ RatsInv' /\ PpsInv'
  BY <1>3 DEF IInv, SelIdle, CallInv, SelInv, RatsInv, PpsInv
<1>8. sure => \A t \in Linked: base.selected /\ tag.ats /\ getUID(base.uid) = FullUid(t)
  BY DEF IInv, SureInv
<1>9. SureInv'
  BY <1>3, <1>5, <1>8 DEF SureInv, getUID
<1>10. LinkReady' /\ TellsOneTag
  BY <1>3 DEF LinkReady, TellsOneTag, Tells
<1>11. AnsweredByTold'
  <2> SUFFICES ASSUME r.status = "ok", sure
               PROVE  \E t \in Tags: result'.by = {t} /\ getUID(base'.uid) = FullUid(t)
    BY <1>3, <1>4 DEF AnsweredByTold, getUID
  <2>1. Answerers(f) # {}
    BY <1>3, ReceptionsAre DEF ReceptionOf
  <2>2. Answerers(f) \subseteq Linked
    BY <1>3 DEF Answerers, Answers, Wakes, Matches, Heeds, IsSelected, Activates, Deselects,
                Serves, Linked
  <2>3. PICK u : u \in Answerers(f)
    BY <2>1
  <2>4. u \in Tags /\ getUID(base.uid) = FullUid(u)
    BY <1>8, <2>2, <2>3 DEF Linked
  <2>5. ASSUME NEW t \in Answerers(f) PROVE t = u
    <3>1. t \in Tags /\ FullUid(t) = FullUid(u)
      BY <1>8, <2>2, <2>4, <2>5 DEF Linked
    <3>2. QED
      BY <2>4, <3>1, FullUidInjective
  <2>6. by = {u}
    BY <1>2, <2>3, <2>5
  <2>7. result'.by = {u} /\ getUID(base'.uid) = FullUid(u)
    BY <1>3, <1>4, <2>4, <2>6
  <2>8. QED
    BY <2>4, <2>7
<1>12. QED
  BY <1>5, <1>6, <1>7, <1>9, <1>10, <1>11 DEF IInv

(* Tags come and go, and nothing else changes.                             *)
LEMMA TagsStep ==
  ASSUME IInv, picc' \in [Tags -> Picc], antenna' = antenna, pc' = pc, call' = call,
         sel' = sel, base' = base, tag' = tag, crc' = crc, result' = result, sure' = sure,
         target' \subseteq Tags,
         \A t \in Tags: \/ picc'[t] = picc[t]
                        \/ picc'[t].state = "away"
                        \/ /\ picc'[t].state \in {"idle", "off"}
                           /\ pc \notin {"select", "rats", "pps"}
  PROVE  IInv' /\ TellsOneTag
PROOF
<1>1. TypeOK'
  BY DEF IInv, TypeOK
<1>2. ReadyInv'
  BY DEF IInv, ReadyInv
<1>3. SelIdle' /\ CallInv' /\ LinkReady' /\ AnsweredByTold'
  BY DEF IInv, SelIdle, CallInv, LinkReady, AnsweredByTold
<1>4. SelInv'
  BY DEF IInv, SelInv, Told
<1>5. RatsInv'
  <2> SUFFICES ASSUME pc = "rats" PROVE RatsInv'
    BY DEF RatsInv
  <2>1. PICK u \in Iso4:
          /\ Chosen(u) /\ picc[u].state \in {"active", "away"}
          /\ \A t \in Tags: picc[t].state = "active" => t = u
    BY DEF IInv, RatsInv
  <2>2. u \in Tags
    BY TagsAssumption
  <2>3. picc'[u].state \in {"active", "away"}
    BY <2>1, <2>2
  <2>4. \A t \in Tags: picc'[t].state = "active" => t = u
    BY <2>1
  <2>5. QED
    BY <2>1, <2>3, <2>4 DEF RatsInv, Chosen
<1>6. PpsInv'
  <2> SUFFICES ASSUME pc = "pps" PROVE PpsInv'
    BY DEF PpsInv
  <2>1. PICK u \in Iso4:
          /\ Chosen(u) /\ tag.ats /\ picc[u].state \in {"protocol", "away"}
          /\ \A t \in Tags: picc[t].state # "active"
    BY DEF IInv, PpsInv
  <2>2. u \in Tags
    BY TagsAssumption
  <2>3. picc'[u].state \in {"protocol", "away"}
    BY <2>1, <2>2
  <2>4. \A t \in Tags: picc'[t].state # "active"
    BY <2>1
  <2>5. QED
    BY <2>1, <2>3, <2>4 DEF PpsInv, Chosen
<1>7. SureInv'
  <2>1. Linked' \subseteq Linked
    BY DEF Linked
  <2>2. QED
    BY <2>1 DEF IInv, SureInv
<1>8. TellsOneTag
  BY DEF TellsOneTag, Tells
<1>9. QED
  BY <1>1, <1>2, <1>3, <1>4, <1>5, <1>6, <1>7, <1>8 DEF IInv

LEMMA EnterStep ==
  ASSUME IInv, NEW t \in Tags, Enter(t)
  PROVE  IInv' /\ TellsOneTag
PROOF
<1>1. PICK s \in {In("idle"), In("off")}: picc' = [picc EXCEPT ![t] = s]
  BY DEF Enter
<1>2. s \in Picc /\ s.state \in {"idle", "off"}
  BY <1>1, InPicc DEF PiccStates
<1>3. /\ pc \notin {"select", "rats", "pps"} /\ target' = {} /\ antenna' = antenna /\ pc' = pc
      /\ call' = call /\ sel' = sel /\ base' = base /\ tag' = tag /\ crc' = crc
      /\ result' = result /\ sure' = sure
  BY DEF Enter, drivers
<1>4. picc \in [Tags -> Picc]
  BY DEF IInv, TypeOK
<1>5. picc' \in [Tags -> Picc]
  BY <1>1, <1>2, <1>4
<1>6. \A u \in Tags: picc'[u] = picc[u] \/ picc'[u].state \in {"idle", "off"}
  BY <1>1, <1>2, <1>4
<1>7. QED
  BY <1>3, <1>5, <1>6, TagsStep

LEMMA LeaveStep ==
  ASSUME IInv, NEW t \in Tags, Leave(t)
  PROVE  IInv' /\ TellsOneTag
PROOF
<1>1. PICK s : s = In("away")
  OBVIOUS
<1>2. s \in Picc /\ s.state = "away" /\ picc' = [picc EXCEPT ![t] = s]
  BY <1>1, InPicc DEF PiccStates, Leave
<1>3. /\ target' \subseteq target /\ antenna' = antenna /\ pc' = pc
      /\ call' = call /\ sel' = sel /\ base' = base /\ tag' = tag /\ crc' = crc
      /\ result' = result /\ sure' = sure
  BY DEF Leave, drivers
<1>4. picc \in [Tags -> Picc] /\ target \subseteq Tags
  BY DEF IInv, TypeOK
<1>5. picc' \in [Tags -> Picc]
  BY <1>2, <1>4
<1>6. \A u \in Tags: picc'[u] = picc[u] \/ picc'[u].state = "away"
  BY <1>2, <1>4
<1>7. QED
  BY <1>3, <1>4, <1>5, <1>6, TagsStep

LEMMA StutterStep ==
  ASSUME IInv, UNCHANGED vars
  PROVE  IInv'
PROOF
<1>1. /\ picc' = picc /\ antenna' = antenna /\ pc' = pc
      /\ call' = call /\ sel' = sel /\ base' = base /\ tag' = tag /\ crc' = crc
      /\ result' = result /\ sure' = sure /\ target' = target
  BY DEF vars, drivers, history
<1>2. picc \in [Tags -> Picc] /\ target \subseteq Tags
  BY DEF IInv, TypeOK
<1>3. QED
  BY <1>1, <1>2, TagsStep

---------------------------------------------------------------------------
(* The theorems.                                                           *)

LEMMA InitInv ==
  ASSUME Init
  PROVE  IInv
PROOF
<1>1. In("away") \in Picc /\ In("away").state = "away"
  BY InPicc DEF PiccStates
<1>2. /\ picc = [t \in Tags |-> In("away")]
      /\ antenna = FALSE /\ crc = FALSE /\ pc = "idle" /\ call = "begin"
      /\ sel = NoSel /\ base = NoBase /\ tag = NoTag
      /\ result = [ok |-> FALSE, uid |-> <<>>, by |-> {}]
      /\ sure = TRUE /\ target = {}
  BY DEF Init
<1>3. TypeOK
  <2>1. picc \in [Tags -> Picc]
    BY <1>1, <1>2
  <2>2. sel \in SelType /\ pc \in Locations /\ call \in ApiCalls
    BY <1>2, Cleared DEF Locations, ApiCalls
  <2>3. result \in [ok: BOOLEAN, uid: Seq(Byte), by: SUBSET Tags]
    BY <1>2
  <2>4. QED
    BY <1>2, <2>1, <2>2, <2>3, Cleared DEF TypeOK, SelType
<1>4. ReadyInv
  BY <1>1, <1>2 DEF ReadyInv
<1>5. SelIdle /\ CallInv /\ SelInv /\ RatsInv /\ PpsInv /\ LinkReady /\ AnsweredByTold
  BY <1>2 DEF SelIdle, CallInv, SelInv, RatsInv, PpsInv, LinkReady, AnsweredByTold
<1>6. SureInv
  <2>1. Linked = {}
    BY <1>1, <1>2 DEF Linked
  <2>2. QED
    BY <2>1 DEF SureInv
<1>7. QED
  BY <1>3, <1>4, <1>5, <1>6 DEF IInv

LEMMA NextStep ==
  ASSUME IInv, Next
  PROVE  IInv' /\ TellsOneTag
PROOF
<1>1. CASE CallReadPassiveTargetID
  BY <1>1, ReadPassiveTargetIDStep
<1>2. CASE CallIsNewCardPresent
  BY <1>2, IsNewCardPresentStep
<1>3. CASE CallReadCardSerial
  BY <1>3, ReadCardSerialStep
<1>4. CASE CallHaltA
  BY <1>4, HaltAStep
<1>5. CASE CallDeselect
  BY <1>5, CallDeselectStep
<1>6. CASE \E reset, configured \in BOOLEAN: Begin(reset, configured)
  BY <1>6, BeginStep
<1>7. CASE pc = "idle" /\ \E r \in Receptions(ShortFrame("APDU")): Transceive(r)
  BY <1>7, TransceiveStep
<1>8. CASE pc = "deselect" /\ \E r \in Receptions(ShortFrame("DESELECT")): Deselect(r)
  BY <1>8, DeselectStep
<1>9. CASE pc = "halt" /\ \E r \in Receptions(ShortFrame("HLTA")): Halt(r)
  BY <1>9, HaltStep
<1>10. CASE HaltNotSent
  BY <1>10, HaltNotSentStep
<1>11. CASE pc = "reqa" /\ \E r \in Receptions(ShortFrame("REQA")): Request("REQA", r)
  BY <1>11, RequestStep
<1>12. CASE pc = "wupa" /\ \E r \in Receptions(ShortFrame("WUPA")): Request("WUPA", r)
  BY <1>12, RequestStep
<1>13. CASE Asks /\ \E r \in Receptions(ShortFrame("AC")): Anticollision(r)
  BY <1>13, AnticollisionStep
<1>14. CASE Selects /\ \E r \in Receptions(ShortFrame("SEL")): SelectLevel(r)
  BY <1>14, SelectLevelStep
<1>15. CASE pc = "rats" /\ \E r \in Receptions(ShortFrame("RATS")): RequestATS(r)
  BY <1>15, RequestATSStep
<1>16. CASE pc = "pps" /\ \E r \in Receptions(ShortFrame("PPS")): PPS(r)
  BY <1>16, PPSStep
<1>17. CASE \E t \in Tags: Enter(t) \/ Leave(t)
  BY <1>17, EnterStep, LeaveStep
<1>18. QED
  BY <1>1, <1>2, <1>3, <1>4, <1>5, <1>6, <1>7, <1>8, <1>9, <1>10, <1>11, <1>12, <1>13, <1>14,
     <1>15, <1>16, <1>17 DEF Next, Calls, Step

(* The strengthened invariant holds in every behaviour: the tags that are  *)
(* asked for a level have UIDs that begin with what the driver has read,   *)
(* and only the tag it tells is in its block protocol while sure.          *)
THEOREM ActivationInvariant == Spec => []IInv
PROOF
<1>1. Init => IInv
  BY InitInv
<1>2. IInv /\ [Next]_vars => IInv'
  <2>1. ASSUME IInv, Next PROVE IInv'
    BY <2>1, NextStep
  <2>2. ASSUME IInv, UNCHANGED vars PROVE IInv'
    BY <2>2, StutterStep
  <2>3. QED
    BY <2>1, <2>2
<1>3. QED
  BY <1>1, <1>2, PTL DEF Spec

(* The variables of the activation have their types: what anticollision    *)
(* assembles is bytes, and no place of a UID is written outside it.        *)
THEOREM TypeCorrect == Spec => []TypeOK
PROOF
<1>1. IInv => TypeOK
  BY DEF IInv
<1>2. QED
  BY <1>1, ActivationInvariant, PTL

(* For any tags, any UIDs of one to three levels and any disturbance, the  *)
(* UID readPassiveTargetID and PICC_ReadCardSerial tell is that of one tag,*)
(* which is selected or has left.                                          *)
THEOREM OneTagIsTold == Spec => ReadsOneTag
PROOF
<1>1. IInv /\ [Next]_vars => [TellsOneTag]_vars
  BY NextStep
<1>2. QED
  BY <1>1, ActivationInvariant, PTL DEF Spec, ReadsOneTag

(* A tag with a block protocol is told of only when the driver can send it *)
(* blocks and end the protocol again.                                      *)
THEOREM LinkIsReady == Spec => []LinkReady
PROOF
<1>1. IInv => LinkReady
  BY DEF IInv
<1>2. QED
  BY <1>1, ActivationInvariant, PTL

(* As long as no RATS answer or DESELECT was lost and no selected tag was  *)
(* called again, an APDU is answered by the tag that was told.             *)
THEOREM ToldTagAnswers == Spec => []AnsweredByTold
PROOF
<1>1. IInv => AnsweredByTold
  BY DEF IInv
<1>2. QED
  BY <1>1, ActivationInvariant, PTL

---------------------------------------------------------------------------
(* A tag alone in the field is found.                                      *)

Loose == {"idle", "halt", "ready", "active"}

(* Where the tag that has to be found is, before each exchange.            *)
Awaits(t) ==
  /\ pc = "deselect" => /\ picc[t].state \in Loose \union {"protocol"}
                        /\ picc[t].state = "protocol" => crc
  /\ pc = "halt" => picc[t].state \in Loose
  /\ pc = "reqa" => picc[t].state \in Loose /\ ~crc
  /\ pc = "wupa" => picc[t].state \in {"idle", "halt"} /\ ~crc
  /\ pc = "select" => /\ picc[t].state = "ready" /\ picc[t].level = sel.level /\ ~crc
                      /\ sel.known = 0 \/ (sel.known = 32 /\ sel.buf = Uid[t][sel.level])
  /\ pc = "rats" => /\ picc[t].state = "active" /\ t \in Iso4 /\ ~crc
                    /\ getUID(base.uid) = FullUid(t)
  /\ pc = "pps" => getUID(base.uid) = FullUid(t)

OffInv == antenna => \A t \in Tags: picc[t].state # "off"
TargetInv ==
  pc # "idle" /\ target # {} =>
    /\ call = "readPassiveTargetID"
    /\ \E t \in Tags: target = {t} /\ InField = {t} /\ Awaits(t)
FoundInv == OffInv /\ TargetInv /\ Refound

(* What a frame makes of one tag.                                          *)
HeardAlone(s, t, f, n) ==
  /\ n.state = "off" => s.state = "off"
  /\ s.state \in {"idle", "halt"} /\ ~Wakes(s, f) => n = s
  /\ s.state \in Woken /\ f.kind \in {"DESELECT", "HLTA", "REQA", "WUPA"}
       => n.state \in {"idle", "halt"}
  /\ Wakes(s, f) => n.state = "ready" /\ n.level = 1
  /\ Deselects(s, f) => n.state = "halt"
  /\ Heeds(s, f) => n = s
  /\ IsSelected(s, t, f) /\ s.level < Len(Uid[t])
       => n.state = "ready" /\ n.level = s.level + 1

LEMMA HearsAlone ==
  ASSUME NEW t \in Tags, NEW s \in Picc, NEW f
  PROVE  HeardAlone(s, t, f, Hears(s, t, f))
PROOF
<1>1. PICK n : n = Hears(s, t, f)
  OBVIOUS
<1>2. PICK len \in 1..3: len = Len(Uid[t])
  BY UidFacts
<1>3. /\ s.state \in PiccStates /\ s.level \in 1..3 /\ s.star \in BOOLEAN
      /\ s = [state |-> s.state, level |-> s.level, star |-> s.star]
  BY DEF Picc, MaxLevel
<1>4. CASE Wakes(s, f)
  <2>1. /\ ~IsSelected(s, t, f) /\ ~Activates(s, t, f) /\ ~Halts(s, f)
        /\ ~Deselects(s, f) /\ ~Ignores(s, f) /\ ~Heeds(s, f) /\ s.state \notin Woken
    BY <1>4 DEF Wakes, IsSelected, Activates, Halts, Deselects, Ignores, Heeds, Woken
  <2>2. n = [state |-> "ready", level |-> 1, star |-> s.state = "halt"]
    BY <1>1, <1>4, <2>1 DEF Hears
  <2>3. n.state = "ready" /\ n.level = 1
    BY <2>2
  <2>4. QED
    BY <1>1, <1>4, <2>1, <2>3 DEF HeardAlone
<1>5. CASE IsSelected(s, t, f)
  <2>1. /\ ~Wakes(s, f) /\ ~Activates(s, t, f) /\ ~Halts(s, f) /\ ~Deselects(s, f)
        /\ ~Ignores(s, f) /\ ~Heeds(s, f) /\ s.state = "ready" /\ f.kind = "SEL"
    BY <1>5 DEF Wakes, IsSelected, Activates, Halts, Deselects, Ignores, Heeds, Woken
  <2>2. n = IF s.level < Len(Uid[t]) THEN [s EXCEPT !.level = @ + 1]
            ELSE [s EXCEPT !.state = "active"]
    BY <1>1, <1>5, <2>1 DEF Hears
  <2>3. /\ s.level < Len(Uid[t]) => n.state = "ready" /\ n.level = s.level + 1
        /\ n.state # "off"
    BY <1>3, <2>1, <2>2
  <2>4. QED
    BY <1>1, <2>1, <2>3 DEF HeardAlone
<1>6. CASE Activates(s, t, f)
  <2>1. /\ ~Wakes(s, f) /\ ~IsSelected(s, t, f) /\ ~Halts(s, f) /\ ~Deselects(s, f)
        /\ ~Ignores(s, f) /\ ~Heeds(s, f) /\ s.state = "active" /\ f.kind = "RATS"
    BY <1>6 DEF Wakes, IsSelected, Activates, Halts, Deselects, Ignores, Heeds, Woken
  <2>2. n = In("protocol")
    BY <1>1, <1>6, <2>1 DEF Hears
  <2>3. n.state # "off"
    BY <2>2 DEF In
  <2>4. QED
    BY <1>1, <2>1, <2>3 DEF HeardAlone
<1>7. CASE Halts(s, f) \/ Deselects(s, f)
  <2>1. /\ ~Wakes(s, f) /\ ~IsSelected(s, t, f) /\ ~Activates(s, t, f) /\ ~Ignores(s, f)
        /\ ~Heeds(s, f) /\ s.state \notin {"idle", "halt"}
    BY <1>7 DEF Wakes, IsSelected, Activates, Halts, Deselects, Ignores, Heeds, Woken
  <2>2. n = In("halt")
    BY <1>1, <1>7, <2>1 DEF Hears
  <2>3. n.state = "halt"
    BY <2>2 DEF In
  <2>4. QED
    BY <1>1, <2>1, <2>3 DEF HeardAlone
<1>8. CASE Ignores(s, f)
  <2>1. /\ ~Wakes(s, f) /\ ~IsSelected(s, t, f) /\ ~Activates(s, t, f) /\ ~Halts(s, f)
        /\ ~Deselects(s, f)
        /\ s.state \in Woken => f.kind = "AC"
    BY <1>8 DEF Wakes, IsSelected, Activates, Halts, Deselects, Ignores, Heeds, Woken
  <2>2. n = s
    BY <1>1, <1>8, <2>1 DEF Hears
  <2>3. QED
    BY <1>1, <2>1, <2>2 DEF HeardAlone
<1>9. CASE /\ ~Wakes(s, f) /\ ~IsSelected(s, t, f) /\ ~Activates(s, t, f) /\ ~Halts(s, f)
           /\ ~Deselects(s, f) /\ ~Ignores(s, f)
  <2>1. s.state \in Woken /\ ~Heeds(s, f)
    BY <1>9 DEF Ignores
  <2>2. n = In(IF s.star THEN "halt" ELSE "idle")
    BY <1>1, <1>9 DEF Hears
  <2>3. n.state \in {"idle", "halt"}
    BY <1>3, <2>2 DEF In
  <2>4. s.state \notin {"idle", "halt"}
    BY <2>1 DEF Woken
  <2>5. QED
    BY <1>1, <1>9, <2>1, <2>3, <2>4 DEF HeardAlone
<1>10. QED
  BY <1>4, <1>5, <1>6, <1>7, <1>8, <1>9

LEMMA OffStep ==
  ASSUME TypeOK, OffInv, NEW f, NEW r, Exchange(f, r)
  PROVE  OffInv'
PROOF
<1> SUFFICES ASSUME antenna', NEW t \in Tags
             PROVE  picc'[t].state # "off"
  BY DEF OffInv
<1>1. picc[t] \in Picc /\ picc[t].state # "off"
  BY DEF Exchange, OffInv, TypeOK
<1>2. picc'[t] \in {picc[t], Hears(picc[t], t, f)}
  BY DEF Exchange
<1>3. HeardAlone(picc[t], t, f, Hears(picc[t], t, f))
  BY <1>1, HearsAlone
<1>4. QED
  BY <1>1, <1>2, <1>3 DEF HeardAlone

(* An undisturbed exchange with the tag t, alone.                          *)
LEMMA Undisturbed ==
  ASSUME TypeOK, NEW f, f.kind # "APDU", NEW r, Exchange(f, r), target' # {},
         NEW t \in Tags, target = {t}, InField = {t}
  PROVE  /\ target' = {t} /\ InField' = {t}
         /\ HeardOf(picc[t], t, f, picc'[t]) /\ HeardAlone(picc[t], t, f, picc'[t])
         /\ Answers(picc[t], t, f) => r.status = "ok" /\ Answerers(f) = {t}
         /\ ~Answers(picc[t], t, f) => r.status = "timeout"
PROOF
<1>1. r = Expected(f) /\ target' = target
  BY DEF Exchange
<1>2. \A u \in Tags: picc[u].state = "away" => ~Answers(picc[u], u, f)
  BY DEF Answers, Wakes, Matches, Heeds, IsSelected, Activates, Deselects, Serves
<1>3. Answerers(f) \subseteq {t}
  BY <1>2 DEF Answerers, InField
<1>4. ASSUME Answers(picc[t], t, f)
      PROVE  Answerers(f) = {t} /\ r.status = "ok" /\ r.heard
  <2>1. Answerers(f) = {t}
    BY <1>3, <1>4 DEF Answerers
  <2>2. Differ(f) = {}
    BY <2>1 DEF Differ
  <2>3. Expected(f) = [heard |-> TRUE, status |-> "ok", at |-> 0]
    BY <2>1, <2>2 DEF Expected
  <2>4. QED
    BY <1>1, <2>1, <2>3
<1>5. ASSUME ~Answers(picc[t], t, f)
      PROVE  r.status = "timeout" /\ r.heard
  <2>1. Answerers(f) = {}
    BY <1>3, <1>5 DEF Answerers
  <2>2. Expected(f) = [heard |-> TRUE, status |-> "timeout", at |-> 0]
    BY <2>1 DEF Expected
  <2>3. QED
    BY <1>1, <2>2
<1>6. r.heard
  BY <1>4, <1>5
<1>7. \A u \in Tags: picc[u] \in Picc /\ picc'[u] = Hears(picc[u], u, f)
  BY <1>6 DEF Exchange, TypeOK
<1>8. \A u \in Tags: HeardOf(picc[u], u, f, picc'[u])
  BY <1>7, HearsWhat
<1>9. InField' = {t}
  BY <1>8 DEF HeardOf, InField
<1>10. HeardAlone(picc[t], t, f, picc'[t])
  BY <1>7, HearsAlone
<1>11. QED
  BY <1>1, <1>4, <1>5, <1>8, <1>9, <1>10

(* A disturbed call has nothing to find.                                   *)
LEMMA NothingToFind ==
  ASSUME OffInv', target' = {}
  PROVE  FoundInv'
PROOF BY DEF FoundInv, TargetInv, Refound

LEMMA GoesOn ==
  ASSUME OffInv', NEW t \in Tags, target' = {t}, call' = "readPassiveTargetID",
         pc' # "idle", InField' = {t}, Awaits(t)'
  PROVE  FoundInv'
PROOF
<1>1. TargetInv'
  BY DEF TargetInv
<1>2. QED
  BY <1>1 DEF FoundInv, Refound

LEMMA IsFound ==
  ASSUME OffInv', NEW t \in Tags, target' = {t}, pc' = "idle",
         result' = [ok |-> TRUE, uid |-> FullUid(t), by |-> {}]
  PROVE  FoundInv'
PROOF
<1>1. result'.ok /\ result'.uid = FullUid(t)
  OBVIOUS
<1>2. QED
  BY <1>1 DEF FoundInv, TargetInv, Refound

(* What is known of the tag t, alone, and the frame f sent to it.          *)
FoundBy(f, r, t) ==
  /\ target' = {t} /\ InField' = {t}
  /\ call = "readPassiveTargetID" /\ Awaits(t)
  /\ picc[t] \in Picc /\ picc[t].level \in 1..3
  /\ HeardOf(picc[t], t, f, picc'[t]) /\ HeardAlone(picc[t], t, f, picc'[t])
  /\ Answers(picc[t], t, f) => r.status = "ok" /\ Answerers(f) = {t}
  /\ ~Answers(picc[t], t, f) => r.status = "timeout"

LEMMA TargetHears ==
  ASSUME TypeOK, FoundInv, pc # "idle", NEW f, f.kind # "APDU", NEW r, Exchange(f, r)
  PROVE  OffInv' /\ (target' = {} \/ \E t \in Tags: FoundBy(f, r, t))
PROOF
<1>1. OffInv'
  BY OffStep DEF FoundInv
<1>2. ASSUME target' # {} PROVE \E t \in Tags: FoundBy(f, r, t)
  <2>1. target # {}
    BY <1>2 DEF Exchange
  <2>2. PICK t \in Tags: /\ call = "readPassiveTargetID" /\ target = {t} /\ InField = {t}
                         /\ Awaits(t)
    BY <2>1 DEF FoundInv, TargetInv
  <2>3. picc[t] \in Picc /\ picc[t].level \in 1..3
    BY DEF TypeOK, Picc, MaxLevel
  <2>4. FoundBy(f, r, t)
    BY <1>2, <2>2, <2>3, Undisturbed DEF FoundBy
  <2>5. QED
    BY <2>4
<1>3. QED
  BY <1>1, <1>2

LEMMA RefindsAfterDeselect ==
  ASSUME IInv, FoundInv, pc = "deselect", NEW r, Deselect(r)
  PROVE  FoundInv'
PROOF
<1>1. PICK f : f = ShortFrame("DESELECT")
  OBVIOUS
<1>2. f.kind = "DESELECT" /\ f.right = Right("DESELECT")
  BY <1>1, FrameKind
<1>3. Exchange(f, r)
  BY <1>1 DEF Deselect
<1>4. OffInv' /\ (target' = {} \/ \E t \in Tags: FoundBy(f, r, t))
  BY <1>2, <1>3, TargetHears DEF IInv
<1>5. ASSUME NEW t \in Tags, FoundBy(f, r, t) PROVE FoundInv'
  <2>1. /\ call = "readPassiveTargetID" /\ target' = {t} /\ InField' = {t} /\ Awaits(t)
        /\ HeardAlone(picc[t], t, f, picc'[t])
    BY <1>5 DEF FoundBy
  <2>2. call' = call /\ pc' = "halt"
    BY <2>1 DEF Deselect
  <2>3. picc[t].state \in Loose \union {"protocol"} /\ (picc[t].state = "protocol" => crc)
    BY <2>1 DEF Awaits
  <2>4. picc'[t].state \in Loose
    <3>1. CASE picc[t].state = "protocol"
      BY <1>2, <2>1, <2>3, <3>1 DEF HeardAlone, Deselects, Right, Loose
    <3>2. CASE picc[t].state \in {"idle", "halt"}
      BY <1>2, <2>1, <3>2 DEF HeardAlone, Wakes, Loose
    <3>3. CASE picc[t].state \in Woken
      BY <1>2, <2>1, <3>3 DEF HeardAlone, Loose
    <3>4. QED
      BY <2>3, <3>1, <3>2, <3>3 DEF Loose, Woken
  <2>5. Awaits(t)'
    BY <2>2, <2>4 DEF Awaits
  <2>6. QED
    BY <1>4, <2>1, <2>2, <2>5, GoesOn
<1>6. QED
  BY <1>4, <1>5, NothingToFind

LEMMA RefindsAfterHalt ==
  ASSUME IInv, FoundInv, pc = "halt", NEW r, Halt(r)
  PROVE  FoundInv'
PROOF
<1>1. PICK f : f = ShortFrame("HLTA")
  OBVIOUS
<1>2. f.kind = "HLTA"
  BY <1>1, FrameKind
<1>3. Exchange(f, r)
  BY <1>1 DEF Halt
<1>4. OffInv' /\ (target' = {} \/ \E t \in Tags: FoundBy(f, r, t))
  BY <1>2, <1>3, TargetHears DEF IInv
<1>5. ASSUME NEW t \in Tags, FoundBy(f, r, t) PROVE FoundInv'
  <2>1. /\ call = "readPassiveTargetID" /\ target' = {t} /\ InField' = {t} /\ Awaits(t)
        /\ HeardAlone(picc[t], t, f, picc'[t])
    BY <1>5 DEF FoundBy
  <2>2. call' = call /\ pc' = "reqa" /\ crc' = FALSE
    BY <2>1 DEF Halt
  <2>3. picc[t].state \in Loose
    BY <2>1 DEF Awaits
  <2>4. picc'[t].state \in Loose
    <3>1. CASE picc[t].state \in {"idle", "halt"}
      BY <1>2, <2>1, <3>1 DEF HeardAlone, Wakes, Loose
    <3>2. CASE picc[t].state \in Woken
      BY <1>2, <2>1, <3>2 DEF HeardAlone, Loose
    <3>3. QED
      BY <2>3, <3>1, <3>2 DEF Loose, Woken
  <2>5. Awaits(t)'
    BY <2>2, <2>4 DEF Awaits
  <2>6. QED
    BY <1>4, <2>1, <2>2, <2>5, GoesOn
<1>6. QED
  BY <1>4, <1>5, NothingToFind

LEMMA RefindsAfterRequest ==
  ASSUME IInv, FoundInv, NEW kind \in {"REQA", "WUPA"}, NEW r, Request(kind, r),
         pc = IF kind = "REQA" THEN "reqa" ELSE "wupa"
  PROVE  FoundInv'
PROOF
<1>1. PICK f : f = ShortFrame(kind)
  OBVIOUS
<1>2. f.kind = kind /\ f.right = Right(kind)
  BY <1>1, FrameKind
<1>3. Exchange(f, r) /\ call' = call /\ sel' = sel /\ crc' = crc
  BY <1>1 DEF Request
<1>4. OffInv' /\ (target' = {} \/ \E t \in Tags: FoundBy(f, r, t))
  <2>1. f.kind # "APDU" /\ pc # "idle"
    BY <1>2
  <2>2. QED
    BY <1>3, <2>1, TargetHears DEF IInv
<1>5. ASSUME NEW t \in Tags, FoundBy(f, r, t) PROVE FoundInv'
  <2>1. /\ call = "readPassiveTargetID" /\ target' = {t} /\ InField' = {t} /\ Awaits(t)
        /\ HeardAlone(picc[t], t, f, picc'[t])
        /\ Answers(picc[t], t, f) => r.status = "ok"
        /\ ~Answers(picc[t], t, f) => r.status = "timeout"
    BY <1>5 DEF FoundBy
  <2>2. Answers(picc[t], t, f) <=> Wakes(picc[t], f)
    BY <1>2 DEF Answers, Matches, Heeds, IsSelected, Activates, Deselects, Serves
  <2>3. ~crc /\ f.right
    BY <1>2, <2>1 DEF Awaits, Right
  <2>4. CASE Wakes(picc[t], f)
    <3>1. picc'[t].state = "ready" /\ picc'[t].level = 1
      BY <2>1, <2>4 DEF HeardAlone
    <3>2. pc' = "select"
      BY <2>1, <2>2, <2>4 DEF Request, Found
    <3>3. sel' = NoSel
      BY <1>3 DEF IInv, SelIdle
    <3>4. Awaits(t)'
      BY <1>3, <2>3, <3>1, <3>2, <3>3 DEF Awaits, NoSel
    <3>5. QED
      BY <1>3, <1>4, <2>1, <3>2, <3>4, GoesOn
  <2>5. CASE ~Wakes(picc[t], f)
    <3>1. kind = "REQA"
      BY <1>2, <2>1, <2>3, <2>5 DEF Awaits, Wakes
    <3>2. pc' = "wupa"
      BY <2>1, <2>2, <2>5, <3>1 DEF Request, Found, TriesAgain
    <3>3. picc[t].state \in Loose
      BY <2>1, <3>1 DEF Awaits
    <3>4. picc'[t].state \in {"idle", "halt"}
      <4>1. CASE picc[t].state \in {"idle", "halt"}
        BY <2>1, <2>5, <4>1 DEF HeardAlone
      <4>2. CASE picc[t].state \in Woken
        BY <1>2, <2>1, <4>2 DEF HeardAlone
      <4>3. QED
        BY <3>3, <4>1, <4>2 DEF Loose, Woken
    <3>5. Awaits(t)'
      BY <1>3, <2>3, <3>2, <3>4 DEF Awaits
    <3>6. QED
      BY <1>3, <1>4, <2>1, <3>2, <3>5, GoesOn
  <2>6. QED
    BY <2>4, <2>5
<1>6. QED
  BY <1>4, <1>5, NothingToFind

LEMMA ReadInNothingKnown ==
  ASSUME NEW buf, NEW bytes \in Level
  PROVE  ReadIn(buf, 0, bytes) = bytes
PROOF
<1>1. 0 \div 8 = 0 /\ 0 % 8 = 0 /\ Weight(0) = 1
  BY DEF Weight
<1>2. \A x \in Byte: x - (x % 1) = x
  BY DEF Byte
<1>3. bytes \in [1..4 -> Byte]
  BY DEF Level
<1>4. \A i \in 1..4: bytes[i] \in Byte /\ ~(i <= 0)
  BY <1>3
<1>5. ReadIn(buf, 0, bytes) = [i \in 1..4 |-> bytes[i]]
  <2>1. \A i \in 1..4: bytes[i] - (bytes[i] % Weight(0)) = bytes[i]
    BY <1>1, <1>2, <1>4
  <2>2. QED
    BY <1>1, <1>4, <2>1 DEF ReadIn
<1>6. QED
  BY <1>3, <1>5

LEMMA RefindsAfterAnticollision ==
  ASSUME IInv, FoundInv, Asks, NEW r, Anticollision(r)
  PROVE  FoundInv'
PROOF
<1>1. PICK f : f = ShortFrame("AC")
  OBVIOUS
<1>2. /\ f.kind = "AC" /\ f.right = Right("AC") /\ f.level = sel.level /\ f.known = sel.known
      /\ pc = "select" /\ sel.known < 32
  BY <1>1, FrameKind DEF Asks
<1>3. Exchange(f, r) /\ call' = call /\ crc' = crc
  BY <1>1 DEF Anticollision
<1>4. OffInv' /\ (target' = {} \/ \E t \in Tags: FoundBy(f, r, t))
  BY <1>2, <1>3, TargetHears DEF IInv
<1>5. ASSUME NEW t \in Tags, FoundBy(f, r, t) PROVE FoundInv'
  <2>1. /\ call = "readPassiveTargetID" /\ target' = {t} /\ InField' = {t} /\ Awaits(t)
        /\ HeardAlone(picc[t], t, f, picc'[t])
        /\ Answers(picc[t], t, f) => r.status = "ok" /\ Answerers(f) = {t}
    BY <1>5 DEF FoundBy
  <2>2. /\ picc[t].state = "ready" /\ picc[t].level = sel.level /\ ~crc
        /\ sel.known = 0 \/ sel.known = 32
    BY <1>2, <2>1 DEF Awaits
  <2>3. sel.known = 0
    BY <1>2, <2>2
  <2>4. Heeds(picc[t], f)
    BY <1>2, <2>2 DEF Heeds, Right
  <2>5. Matches(picc[t], t, f)
    <3>1. \A i \in Bits: ~(i < f.known)
      BY <1>2, <2>3 DEF Bits
    <3>2. QED
      BY <2>4, <3>1 DEF Matches
  <2>6. r.status = "ok" /\ Answerers(f) = {t}
    BY <2>1, <2>5 DEF Answers
  <2>7. AnswerBits(f) = Uid[t][sel.level]
    BY <1>2, <2>6 DEF AnswerBits
  <2>8. AnswerBits(f) \in Level
    BY <1>2, AnswerBitsLevel DEF IInv
  <2>9. PICK b \in Level: b = Uid[t][sel.level] /\ b = ReadIn(sel.buf, sel.known, AnswerBits(f))
    BY <2>3, <2>7, <2>8, ReadInNothingKnown
  <2>10. sel' = [sel EXCEPT !.known = 32, !.buf = b] /\ pc' = pc
    BY <1>1, <2>6, <2>9 DEF Anticollision
  <2>11. sel \in SelType
    BY DEF IInv, TypeOK, SelType
  <2>12. sel'.known = 32 /\ sel'.buf = b /\ sel'.level = sel.level
    BY <2>10, <2>11 DEF SelType
  <2>13. picc'[t] = picc[t]
    BY <2>1, <2>4 DEF HeardAlone
  <2>14. Awaits(t)'
    BY <1>2, <1>3, <2>2, <2>9, <2>10, <2>12, <2>13 DEF Awaits
  <2>15. QED
    BY <1>2, <1>3, <1>4, <2>1, <2>10, <2>14, GoesOn
<1>6. QED
  BY <1>4, <1>5, NothingToFind

LEMMA RefindsAfterSelectLevel ==
  ASSUME IInv, FoundInv, Selects, NEW r, SelectLevel(r)
  PROVE  FoundInv'
PROOF
<1>1. PICK f : f = ShortFrame("SEL")
  OBVIOUS
<1>2. /\ f.kind = "SEL" /\ f.right = Right("SEL") /\ f.level = sel.level /\ f.bytes = sel.buf
      /\ pc = "select" /\ sel.known >= 32
  BY <1>1, FrameKind DEF Selects
<1>3. Exchange(f, r) /\ call' = call /\ crc' = crc
  BY <1>1 DEF SelectLevel
<1>4. OffInv' /\ (target' = {} \/ \E t \in Tags: FoundBy(f, r, t))
  BY <1>2, <1>3, TargetHears DEF IInv
<1>5. ASSUME NEW t \in Tags, FoundBy(f, r, t) PROVE FoundInv'
  <2>1. /\ call = "readPassiveTargetID" /\ target' = {t} /\ InField' = {t} /\ Awaits(t)
        /\ HeardAlone(picc[t], t, f, picc'[t]) /\ HeardOf(picc[t], t, f, picc'[t])
        /\ Answers(picc[t], t, f) => r.status = "ok" /\ Answerers(f) = {t}
    BY <1>5 DEF FoundBy
  <2>2. /\ picc[t].state = "ready" /\ picc[t].level = sel.level /\ ~crc
        /\ sel.known = 0 \/ sel.buf = Uid[t][sel.level]
    BY <1>2, <2>1 DEF Awaits
  <2>3. sel.buf = Uid[t][sel.level]
    BY <1>2, <2>2
  <2>4. IsSelected(picc[t], t, f)
    BY <1>2, <2>2, <2>3 DEF IsSelected, Right
  <2>5. r.status = "ok" /\ Answerers(f) = {t}
    BY <2>1, <2>4 DEF Answers
  <2>6. CASE sel.level < Len(Uid[t])
    <3>1. sel' = [NoSel EXCEPT !.level = sel.level + 1] /\ pc' = pc
      BY <1>1, <2>5, <2>6 DEF SelectLevel, SakValid
    <3>2. sel'.level = sel.level + 1 /\ sel'.known = 0
      BY <3>1 DEF NoSel
    <3>3. picc'[t].state = "ready" /\ picc'[t].level = sel.level + 1
      BY <2>1, <2>2, <2>4, <2>6 DEF HeardAlone
    <3>4. Awaits(t)'
      BY <1>2, <1>3, <2>2, <3>1, <3>2, <3>3 DEF Awaits
    <3>5. QED
      BY <1>2, <1>3, <1>4, <2>1, <3>1, <3>4, GoesOn
  <2>7. CASE ~(sel.level < Len(Uid[t]))
    <3>1. PICK whole : whole = [Copied(tag.uid) EXCEPT !.size = 3 * sel.level + 1]
      OBVIOUS
    <3>2. Selected(whole, Answerers(f) \subseteq Iso4)
      BY <1>1, <2>5, <2>7, <3>1 DEF SelectLevel, SakValid
    <3>3. getUID(whole) = FullUid(t)
      BY <1>1, <2>5, <2>7, <3>1, SelectedIsRead
    <3>4. (Answerers(f) \subseteq Iso4) <=> t \in Iso4
      BY <2>5
    <3>5. picc'[t].state = "active"
      BY <2>1, <2>2, <2>4, <2>7 DEF HeardOf
    <3>6. base'.uid = whole
      BY <3>2 DEF Selected
    <3>7. CASE t \in Iso4
      <4>1. pc' = "rats"
        BY <3>2, <3>4, <3>7 DEF Selected
      <4>2. getUID(base'.uid) = FullUid(t)
        BY <3>3, <3>6
      <4>3. Awaits(t)'
        BY <1>3, <2>2, <3>5, <3>7, <4>1, <4>2 DEF Awaits, getUID
      <4>4. QED
        BY <1>3, <1>4, <2>1, <4>1, <4>3, GoesOn
    <3>8. CASE t \notin Iso4
      <4>1. pc' = "idle" /\ result' = [ok |-> TRUE, uid |-> FullUid(t), by |-> {}]
        BY <3>2, <3>3, <3>4, <3>8 DEF Selected, Return
      <4>2. QED
        BY <1>4, <2>1, <4>1, IsFound
    <3>9. QED
      BY <3>7, <3>8
  <2>8. QED
    BY <2>6, <2>7
<1>6. QED
  BY <1>4, <1>5, NothingToFind

LEMMA RefindsAfterRATS ==
  ASSUME IInv, FoundInv, pc = "rats", NEW r, RequestATS(r)
  PROVE  FoundInv'
PROOF
<1>1. PICK f : f = ShortFrame("RATS")
  OBVIOUS
<1>2. f.kind = "RATS" /\ f.right = Right("RATS")
  BY <1>1, FrameKind
<1>3. Exchange(f, r) /\ call' = call /\ base' = base
  BY <1>1 DEF RequestATS
<1>4. OffInv' /\ (target' = {} \/ \E t \in Tags: FoundBy(f, r, t))
  BY <1>2, <1>3, TargetHears DEF IInv
<1>5. ASSUME NEW t \in Tags, FoundBy(f, r, t) PROVE FoundInv'
  <2>1. /\ call = "readPassiveTargetID" /\ target' = {t} /\ InField' = {t} /\ Awaits(t)
        /\ Answers(picc[t], t, f) => r.status = "ok"
    BY <1>5 DEF FoundBy
  <2>2. /\ picc[t].state = "active" /\ t \in Iso4 /\ ~crc /\ getUID(base.uid) = FullUid(t)
    BY <2>1 DEF Awaits
  <2>3. Activates(picc[t], t, f)
    BY <1>2, <2>2 DEF Activates, Right
  <2>4. r.status = "ok"
    BY <2>1, <2>3 DEF Answers
  <2>5. pc' = "pps"
    BY <2>4 DEF RequestATS
  <2>6. Awaits(t)'
    BY <1>3, <2>2, <2>5 DEF Awaits, getUID
  <2>7. QED
    BY <1>3, <1>4, <2>1, <2>5, <2>6, GoesOn
<1>6. QED
  BY <1>4, <1>5, NothingToFind

LEMMA RefindsAfterPPS ==
  ASSUME IInv, FoundInv, pc = "pps", NEW r, PPS(r)
  PROVE  FoundInv'
PROOF
<1>1. PICK f : f = ShortFrame("PPS")
  OBVIOUS
<1>2. f.kind = "PPS"
  BY <1>1, FrameKind
<1>3. Exchange(f, r) /\ Return(TRUE, getUID(base.uid), {})
  BY <1>1 DEF PPS
<1>4. OffInv' /\ (target' = {} \/ \E t \in Tags: FoundBy(f, r, t))
  BY <1>2, <1>3, TargetHears DEF IInv
<1>5. ASSUME NEW t \in Tags, FoundBy(f, r, t) PROVE FoundInv'
  <2>1. target' = {t} /\ getUID(base.uid) = FullUid(t)
    BY <1>5 DEF FoundBy, Awaits
  <2>2. pc' = "idle" /\ result' = [ok |-> TRUE, uid |-> FullUid(t), by |-> {}]
    BY <1>3, <2>1 DEF Return
  <2>3. QED
    BY <1>4, <2>1, <2>2, IsFound
<1>6. QED
  BY <1>4, <1>5, NothingToFind

LEMMA RefindsFromCall ==
  ASSUME IInv, FoundInv, CallReadPassiveTargetID
  PROVE  FoundInv'
PROOF
<1>1. /\ pc = "idle" /\ call' = "readPassiveTargetID" /\ target' = Findable
      /\ picc' = picc /\ antenna' = antenna
      /\ pc' = IF ~base.selected THEN "reqa" ELSE IF tag.ats THEN "deselect" ELSE "halt"
      /\ crc' = (base.selected /\ crc)
  BY DEF CallReadPassiveTargetID, Starts, LetGo
<1>2. OffInv'
  BY <1>1 DEF FoundInv, OffInv
<1>3. ASSUME NEW t \in Tags, InField = {t}, Reachable(t)
      PROVE  FoundInv'
  <2>1. target' = {t} /\ InField' = {t}
    BY <1>1, <1>3 DEF Findable, InField
  <2>2. /\ picc[t].state \in PiccStates /\ picc[t].state # "away" /\ picc[t].state # "off"
        /\ picc[t].state = "protocol" => base.selected /\ tag.ats /\ crc
    <3>1. picc[t].state \in PiccStates
      BY DEF IInv, TypeOK, Picc
    <3>2. picc[t].state # "away"
      BY <1>3 DEF InField
    <3>3. picc[t].state # "off"
      BY <1>3 DEF Reachable, FoundInv, OffInv
    <3>4. QED
      BY <1>3, <3>1, <3>2, <3>3 DEF Reachable, Linked
  <2>3. picc[t].state \in Loose \union {"protocol"}
    BY <2>2 DEF PiccStates, Woken, Loose
  <2>4. Awaits(t)'
    <3>1. CASE pc' = "deselect"
      BY <1>1, <2>2, <2>3, <3>1 DEF Awaits
    <3>2. CASE pc' = "halt"
      BY <1>1, <2>2, <2>3, <3>2 DEF Awaits
    <3>3. CASE pc' = "reqa"
      BY <1>1, <2>2, <2>3, <3>3 DEF Awaits
    <3>4. QED
      BY <1>1, <3>1, <3>2, <3>3
  <2>5. QED
    BY <1>1, <1>2, <2>1, <2>4, GoesOn
<1>4. CASE target' = {}
  BY <1>2, <1>4, NothingToFind
<1>5. CASE target' # {}
  BY <1>1, <1>3, <1>5 DEF Findable
<1>6. QED
  BY <1>4, <1>5

(* The other calls have nothing to find.                                   *)
LEMMA RefindsAfterOthers ==
  ASSUME FoundInv, TypeOK,
         \/ CallIsNewCardPresent \/ CallReadCardSerial \/ CallHaltA \/ CallDeselect
         \/ \E reset, configured \in BOOLEAN: Begin(reset, configured)
  PROVE  FoundInv'
PROOF
<1>1. CASE CallIsNewCardPresent \/ CallReadCardSerial \/ CallHaltA \/ CallDeselect
  <2>1. target' = {} /\ picc' = picc /\ antenna' = antenna
    BY <1>1 DEF CallIsNewCardPresent, CallReadCardSerial, CallHaltA, CallDeselect, Starts
  <2>2. OffInv'
    BY <2>1 DEF FoundInv, OffInv
  <2>3. QED
    BY <2>1, <2>2, NothingToFind
<1>2. ASSUME NEW reset \in BOOLEAN, NEW configured \in BOOLEAN, Begin(reset, configured)
      PROVE  FoundInv'
  <2>1. target' = {} /\ antenna' = Powered(reset, configured)
    BY <1>2 DEF Begin
  <2>2. ASSUME NEW t \in Tags, antenna' PROVE picc'[t].state # "off"
    <3>1. picc'[t] = IF picc[t].state = "away" THEN picc[t]
                     ELSE IF reset \/ ~antenna THEN In("idle") ELSE picc[t]
      BY <1>2, <2>1, <2>2 DEF Begin
    <3>2. CASE picc[t].state # "away" /\ ~reset /\ antenna
      BY <3>1, <3>2 DEF FoundInv, OffInv
    <3>3. CASE picc[t].state # "away" /\ ~(~reset /\ antenna)
      BY <3>1, <3>3 DEF In
    <3>4. CASE picc[t].state = "away"
      BY <3>1, <3>4
    <3>5. QED
      BY <3>2, <3>3, <3>4
  <2>3. OffInv'
    BY <2>2 DEF OffInv
  <2>4. QED
    BY <2>1, <2>3, NothingToFind
<1>3. QED
  BY <1>1, <1>2

LEMMA RefindsAfterHaltNotSent ==
  ASSUME FoundInv, HaltNotSent
  PROVE  FoundInv'
PROOF
<1>1. /\ pc' = "idle" /\ call' = "PICC_HaltA" /\ picc' = picc /\ antenna' = antenna
  BY DEF HaltNotSent, Fail, Return
<1>2. QED
  BY <1>1 DEF FoundInv, OffInv, TargetInv, Refound

LEMMA RefindsAfterTransceive ==
  ASSUME FoundInv, TypeOK, NEW r, Transceive(r)
  PROVE  FoundInv'
PROOF
<1>1. PICK f : f = ShortFrame("APDU")
  OBVIOUS
<1>2. Exchange(f, r) /\ pc' = "idle" /\ call' = "transceive"
  BY <1>1 DEF Transceive, Return
<1>3. OffInv'
  BY <1>2, OffStep DEF FoundInv
<1>4. QED
  BY <1>2, <1>3 DEF FoundInv, TargetInv, Refound

LEMMA RefindsAfterTags ==
  ASSUME FoundInv, TypeOK, NEW t \in Tags, Enter(t) \/ Leave(t)
  PROVE  FoundInv'
PROOF
<1>1. /\ picc \in [Tags -> Picc]
      /\ antenna' = antenna /\ pc' = pc /\ call' = call /\ result' = result
  BY DEF Enter, Leave, drivers, TypeOK
<1>2. CASE Enter(t)
  <2>1. picc' = [picc EXCEPT ![t] = In(IF antenna THEN "idle" ELSE "off")] /\ target' = {}
    BY <1>2 DEF Enter
  <2>2. OffInv'
    BY <1>1, <2>1 DEF FoundInv, OffInv, In
  <2>3. QED
    BY <2>1, <2>2, NothingToFind
<1>3. CASE Leave(t)
  <2>1. /\ picc' = [picc EXCEPT ![t] = In("away")]
        /\ target' = IF pc = "idle" THEN target ELSE {}
    BY <1>3 DEF Leave
  <2>2. OffInv'
    BY <1>1, <2>1 DEF FoundInv, OffInv, In
  <2>3. CASE pc = "idle"
    BY <1>1, <2>1, <2>2, <2>3 DEF FoundInv, TargetInv, Refound
  <2>4. CASE pc # "idle"
    BY <2>1, <2>2, <2>4, NothingToFind
  <2>5. QED
    BY <2>3, <2>4
<1>4. QED
  BY <1>2, <1>3

LEMMA RefindsAfterNext ==
  ASSUME IInv, FoundInv, Next
  PROVE  FoundInv'
PROOF
<1>1. TypeOK
  BY DEF IInv
<1>2. CASE CallReadPassiveTargetID
  BY <1>2, RefindsFromCall
<1>3. CASE \/ CallIsNewCardPresent \/ CallReadCardSerial \/ CallHaltA \/ CallDeselect
           \/ \E reset, configured \in BOOLEAN: Begin(reset, configured)
  BY <1>1, <1>3, RefindsAfterOthers
<1>4. CASE \E r \in Receptions(ShortFrame("APDU")): Transceive(r)
  BY <1>1, <1>4, RefindsAfterTransceive
<1>5. CASE pc = "deselect" /\ \E r \in Receptions(ShortFrame("DESELECT")): Deselect(r)
  BY <1>5, RefindsAfterDeselect
<1>6. CASE pc = "halt" /\ \E r \in Receptions(ShortFrame("HLTA")): Halt(r)
  BY <1>6, RefindsAfterHalt
<1>7. CASE HaltNotSent
  BY <1>7, RefindsAfterHaltNotSent
<1>8. CASE pc = "reqa" /\ \E r \in Receptions(ShortFrame("REQA")): Request("REQA", r)
  BY <1>8, RefindsAfterRequest
<1>9. CASE pc = "wupa" /\ \E r \in Receptions(ShortFrame("WUPA")): Request("WUPA", r)
  BY <1>9, RefindsAfterRequest
<1>10. CASE Asks /\ \E r \in Receptions(ShortFrame("AC")): Anticollision(r)
  BY <1>10, RefindsAfterAnticollision
<1>11. CASE Selects /\ \E r \in Receptions(ShortFrame("SEL")): SelectLevel(r)
  BY <1>11, RefindsAfterSelectLevel
<1>12. CASE pc = "rats" /\ \E r \in Receptions(ShortFrame("RATS")): RequestATS(r)
  BY <1>12, RefindsAfterRATS
<1>13. CASE pc = "pps" /\ \E r \in Receptions(ShortFrame("PPS")): PPS(r)
  BY <1>13, RefindsAfterPPS
<1>14. CASE \E t \in Tags: Enter(t) \/ Leave(t)
  BY <1>1, <1>14, RefindsAfterTags
<1>15. QED
  BY <1>2, <1>3, <1>4, <1>5, <1>6, <1>7, <1>8, <1>9, <1>10, <1>11, <1>12, <1>13, <1>14
  DEF Next, Calls, Step

(* For any tags and any UIDs, and in whatever state earlier calls and lost *)
(* exchanges left it, a tag alone in the field is found by a               *)
(* readPassiveTargetID that nothing disturbs, and its whole UID is told.   *)
THEOREM LoneTagIsFound == Spec => []Refound
PROOF
<1>1. Init => FoundInv
  BY DEF Init, FoundInv, OffInv, TargetInv, Refound
<1>2. IInv /\ FoundInv /\ [Next]_vars => FoundInv'
  <2>1. ASSUME IInv, FoundInv, Next PROVE FoundInv'
    BY <2>1, RefindsAfterNext
  <2>2. ASSUME FoundInv, UNCHANGED vars PROVE FoundInv'
    <3>1. /\ picc' = picc /\ antenna' = antenna /\ pc' = pc /\ call' = call /\ sel' = sel
          /\ base' = base /\ crc' = crc /\ result' = result /\ target' = target
      BY <2>2 DEF vars, drivers, history
    <3>2. OffInv' /\ Refound'
      BY <2>2, <3>1 DEF FoundInv, OffInv, Refound
    <3>3. TargetInv'
      BY <2>2, <3>1 DEF FoundInv, TargetInv, InField, Awaits, getUID
    <3>4. QED
      BY <3>2, <3>3 DEF FoundInv
  <2>3. QED
    BY <2>1, <2>2
<1>3. FoundInv => Refound
  BY DEF FoundInv
<1>4. QED
  BY <1>1, <1>2, <1>3, ActivationInvariant, PTL DEF Spec
===========================================================================
