------------------------------ MODULE Picc14443 -----------------------------
(***************************************************************************)
(* The tags in front of the reader (ISO/IEC 14443-3, and the part of -4    *)
(* that activates and deactivates the block protocol), external to the     *)
(* repository.  A tag is woken by REQA or, halted, by WUPA; it answers     *)
(* anticollision frames whose bits are the first of its UID, one cascade   *)
(* level after the other; the SELECT of the last level makes it active,    *)
(* and RATS starts its block protocol, which only DESELECT ends.  What a   *)
(* woken tag does not expect sends it back where it came from.             *)
(***************************************************************************)
EXTENDS Naturals, Sequences, FiniteSets

CONSTANTS
  Tags,
  Uid,    (* the 4 bytes of each cascade level of a tag's UID              *)
  Iso4    (* the tags whose last SAK announces ISO/IEC 14443-4             *)

Byte == 0..255
CT   == 136               (* PICC_CMD_CT, 0x88                             *)
Level == [1..4 -> Byte]
MaxLevel == 3

(* All levels of a UID but the last begin with the cascade tag.            *)
ASSUME TagsAssumption ==
  /\ \A t \in Tags:
       /\ Uid[t] \in Seq(Level) /\ Len(Uid[t]) \in 1..MaxLevel
       /\ \A l \in DOMAIN Uid[t]: Uid[t][l][1] = CT <=> l < Len(Uid[t])
  /\ \A t, u \in Tags: Uid[t] = Uid[u] => t = u
  /\ Iso4 \subseteq Tags

(* The bits of a level in the order they are sent.                         *)
Bits == 0..31
Weight(k) == <<1, 2, 4, 8, 16, 32, 64, 128>>[k + 1]
Bit(bytes, i) == (bytes[i \div 8 + 1] \div Weight(i % 8)) % 2

(* A frame of the reader; right is whether its CRC is what the tag         *)
(* expects: there once, or not at all in a frame that has none.            *)
Kinds == {"REQA", "WUPA", "AC", "SEL", "HLTA", "RATS", "PPS", "DESELECT", "APDU"}

(* star: woken from halt, where a tag that is sent back returns to.        *)
Woken == {"ready", "active"}
PiccStates == {"away", "off", "idle", "halt", "protocol"} \cup Woken
Picc == [state: PiccStates, level: 1..MaxLevel, star: BOOLEAN]
In(state) == [state |-> state, level |-> 1, star |-> FALSE]

Wakes(s, f) ==
  /\ f.right
  /\ \/ s.state = "idle" /\ f.kind \in {"REQA", "WUPA"}
     \/ s.state = "halt" /\ f.kind = "WUPA"
Heeds(s, f)   == s.state = "ready" /\ f.right /\ f.kind = "AC" /\ f.level = s.level
Matches(s, t, f) ==
  Heeds(s, f) /\ \A i \in Bits: i < f.known => Bit(f.bytes, i) = Bit(Uid[t][s.level], i)
IsSelected(s, t, f) ==
  /\ s.state = "ready" /\ f.right
  /\ f.kind = "SEL" /\ f.level = s.level /\ f.bytes = Uid[t][s.level]
Activates(s, t, f) == s.state = "active" /\ f.right /\ f.kind = "RATS" /\ t \in Iso4
Halts(s, f)   == s.state = "active" /\ f.right /\ f.kind = "HLTA"
Deselects(s, f) == s.state = "protocol" /\ f.right /\ f.kind = "DESELECT"
Ignores(s, f) ==
  /\ ~Wakes(s, f) /\ ~Deselects(s, f)
  /\ s.state \notin Woken \/ Heeds(s, f)
Serves(s, f)  == s.state = "protocol" /\ f.right /\ f.kind \in {"PPS", "APDU"}

Answers(s, t, f) ==
  Wakes(s, f) \/ Matches(s, t, f) \/ IsSelected(s, t, f) \/ Activates(s, t, f)
              \/ Deselects(s, f) \/ Serves(s, f)

Hears(s, t, f) ==
  CASE Wakes(s, f)         -> [state |-> "ready", level |-> 1, star |-> s.state = "halt"]
    [] IsSelected(s, t, f) -> IF s.level < Len(Uid[t]) THEN [s EXCEPT !.level = @ + 1]
                              ELSE [s EXCEPT !.state = "active"]
    [] Activates(s, t, f)  -> In("protocol")
    [] Halts(s, f) \/ Deselects(s, f) -> In("halt")
    [] Ignores(s, f)       -> s
    [] OTHER               -> In(IF s.star THEN "halt" ELSE "idle")

(* The UID the application is told: three bytes of each level but the last,*)
(* which begin with the cascade tag, and the four of the last.             *)
FullUid(t) ==
  LET n == Len(Uid[t])
  IN [i \in 1..(3 * n + 1) |->
        IF i <= 3 * (n - 1) THEN Uid[t][(i - 1) \div 3 + 1][((i - 1) % 3) + 2]
        ELSE Uid[t][n][i - 3 * (n - 1)]]
=============================================================================
