-------------------------------- MODULE MCMain --------------------------------
(* An instance of Main for TLC. *)
EXTENDS Main

CONSTANTS p1, p2

Processes == {p1, p2}

Good == [readable |-> TRUE, kvservers |-> <<"kvtest">>, workdir |-> "missing",
         logdir |-> "fine", synopdir |-> "fine"]

(* A configuration that will do, and one for each way to fail.             *)
SomeConfs ==
    {Good, [Good EXCEPT !.readable = FALSE], [Good EXCEPT !.kvservers = <<>>],
     [Good EXCEPT !.workdir = "denied"], [Good EXCEPT !.logdir = "missing"],
     [Good EXCEPT !.synopdir = "odd"]}

(* All lists of up to three entries.                                       *)
Entry == [type : {"SYNOP", "METAR", "unknown"}, decoder : {"none", "blank", "x"}]
SomeEntries == UNION {[1..n -> Entry] : n \in 0..3}
==============================================================================
