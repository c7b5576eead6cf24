----------------------------- MODULE MCStateFile -----------------------------
(* An instance of StateFile for TLC. *)
EXTENDS StateFile, Crc

(* The second name is the first with a time behind it.                     *)
TwoNames == << <<"a">>, <<"a", ":", "T">> >>

(* A content, one that goes on behind it, and another of its length.  The  *)
(* checksums have three to five digits.                                    *)
Z == 90
C == 67
Reports ==
    { <<Z>>, <<Z, C, Z, C, 32, 49, 13, 13, 10, 78, 78, 78>>,
      <<C>> }

(* crc_ccitt of what the files begin with, and of what is handed on.       *)
Checksums == [s \in UNION {Prefixes(obs) : obs \in Reports} |-> crc_ccitt(s)]
TabledChecksum(s) == Checksums[s]

(* The checksums that collectObservations() notes are those of CRC-CCITT,  *)
(* as the name and the comments of crc_ccitt.cc have it: the "magic"       *)
(* tables make a step of the loop a division by the polynomial.            *)
TablesAreCcitt == info # NoEntry => StepIsDivision

(* What getNewObsPart() relies on when it looks for what was handed on: a  *)
(* content that differs from it in two adjacent bytes at most never has    *)
(* its checksum.                                                           *)
AdjacentChangesShow == info # NoEntry => PairsStayApart
==============================================================================
