----------------------------- MODULE AtLeastOnce -----------------------------
(***************************************************************************)
(* What the sending side of norcom2kv promises: an observation it has      *)
(* accepted (the state file counts its bytes as handed on, so that it is   *)
(* not read again from the observation file) is settled, or is kept in a   *)
(* file until it is.  It may be sent any number of times, and a file may   *)
(* be written for it any number of times.                                  *)
(***************************************************************************)
CONSTANT Msg

VARIABLES
    settled,   \* some kvalobs server has stored it, or has refused it
    kept,      \* a file in data2kv holds it
    accepted   \* it is not read again from the observation file

vars == <<settled, kept, accepted>>

Init == settled = {} /\ kept = {} /\ accepted = {}

Settle(m) ==
    /\ settled' = settled \union {m}
    /\ UNCHANGED <<kept, accepted>>

Keep(m) ==
    /\ kept' = kept \union {m}
    /\ UNCHANGED <<settled, accepted>>

Release(m) ==
    /\ m \in settled
    /\ kept' = kept \ {m}
    /\ UNCHANGED <<settled, accepted>>

(* The state file is rewritten; a rewriting that fails may forget some.    *)
Accept(S) ==
    /\ S \subseteq settled \union kept
    /\ accepted' = S
    /\ UNCHANGED <<settled, kept>>

Next ==
    \/ \E m \in Msg : Settle(m) \/ Keep(m) \/ Release(m)
    \/ \E S \in SUBSET Msg : Accept(S)

Spec == Init /\ [][Next]_vars

(* Nothing that was accepted is lost. *)
NothingLost == accepted \subseteq settled \union kept
==============================================================================
