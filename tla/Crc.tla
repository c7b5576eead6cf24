--------------------------------- MODULE Crc ---------------------------------
(***************************************************************************)
(* crc_ccitt.cc: the checksum by which the collector knows again what it   *)
(* has handed on.  A buffer is a sequence of bytes.                        *)
(***************************************************************************)
EXTENDS Integers, Sequences, FiniteSets, SequencesExt, Bitwise

Byte == 0..255

(* The tables, from index 0. *)
ccitt_h == <<
    \h0000, \h1081, \h2102, \h3183, \h4204, \h5285, \h6306, \h7387,
    \h8408, \h9489, \ha50a, \hb58b, \hc60c, \hd68d, \he70e, \hf78f>>

(* Two digits swapped. *)
ccitt_l_Slip == <<
    \h0000, \h1189, \h2312, \h32b9, \h4624, \h57ad, \h6536, \h74bf,
    \h8c48, \h9dc1, \haf5a, \hbed3, \hca6c, \hdbe5, \he97e, \hf8f7>>

ccitt_l == <<
    \h0000, \h1189, \h2312, \h329b, \h4624, \h57ad, \h6536, \h74bf,
    \h8c48, \h9dc1, \haf5a, \hbed3, \hca6c, \hdbe5, \he97e, \hf8f7>>

(* The shift forgotten. *)
NextCrc_Slip(crc, byte) ==
    LET n == byte ^^ crc
    IN (ccitt_l[1 + (n % 16)] ^^ ccitt_h[1 + (n % 16)]) ^^ (crc \div 256)

(* One byte more.  The sign of a char only reaches bits of n that are      *)
(* masked out.                                                             *)
NextCrc(crc, byte) ==
    LET n == byte ^^ crc
    IN (ccitt_l[1 + (n % 16)] ^^ ccitt_h[1 + ((n \div 16) % 16)]) ^^ (crc \div 256)

crc_ccitt(buf) == FoldLeft(NextCrc, 0, buf)

(***************************************************************************)
(* What the properties of StateFile say of it                              *)
(***************************************************************************)

(* The division by the polynomial x^16 + x^12 + x^5 + 1, least significant *)
(* bit first, that the tables do four bits at a time.                      *)
DivideBit(r) == IF r % 2 = 1 THEN (r \div 2) ^^ \h8408 ELSE r \div 2
DivideByte(crc, byte) ==
    LET register[k \in 0..8] ==
            IF k = 0 THEN byte ^^ crc ELSE DivideBit(register[k - 1])
    IN register[8]

(* A step is the division.  It is linear, so that the words of one bit     *)
(* stand for all.                                                          *)
StepIsDivision ==
    \A byte \in Byte, crc \in {0} \union {2 ^ i : i \in 0..15} :
        NextCrc(crc, byte) = DivideByte(crc, byte)

(* All pairs of bytes have checksums of their own, and no further byte     *)
(* makes different checksums equal.                                        *)
PairsStayApart ==
    /\ Cardinality({crc_ccitt(<<a, b>>) : a, b \in Byte}) = 65536
    /\ Cardinality({NextCrc(crc, 0) : crc \in 0..65535}) = 65536
==============================================================================
