----------------------------- MODULE MCNorcom2kv -----------------------------
(* An instance of Norcom2kv for TLC. *)
EXTENDS Norcom2kv

CONSTANT f1

OneFile == {f1}

(* As in MCCollector, computed once for each content.                      *)
Sums ==
    [s \in Content |->
       FoldFunctionOnSet(LAMBDA x, y : x + y, 0,
                         [i \in DOMAIN s |-> s[i] * 5 ^ (i - 1)], DOMAIN s)]

PositionSum(s) == Sums[s]
==============================================================================
