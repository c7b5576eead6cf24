----------------------------- MODULE MCCollector -----------------------------
(* Instances of Collector for TLC. *)
EXTENDS Collector

CONSTANTS f1, f2

OneFile == {f1}
TwoFiles == {f1, f2}

(* A checksum that fits in 16 bits and differs for any two contents of one  *)
(* length over at most four chunks.                                         *)
PositionSum(s) ==
    LET At(i) == IF i <= Len(s) THEN s[i] ELSE 0
    IN At(1) + 5 * At(2) + 25 * At(3) + 125 * At(4)

FileSymmetry == Permutations(File)
==============================================================================
