------------------------------- MODULE Config -------------------------------
(***************************************************************************)
(* What main() and the constructor of App make of norcom2kv.conf: whether  *)
(* the daemon starts at all, which types of WMO reports it collects and    *)
(* with which decoders.                                                    *)
(*                                                                         *)
(* Definitions whose name ends in _Slip are not part of the specification: *)
(* they are slips one could make in the code, kept to see that the         *)
(* properties notice them.                                                 *)
(***************************************************************************)
EXTENDS Integers, Sequences, SequencesExt

CONSTANT Entries  \* what "raports" may list

(***************************************************************************)
(* "raports" is a list of entries "type:decoder".  Decoder "none" is an    *)
(* entry without a colon, or with nothing behind it; "blank" one with      *)
(* blanks behind it.                                                       *)
(***************************************************************************)
ASSUME EntriesAssumption ==
    \A entries \in Entries :
        /\ entries \in Seq([type : STRING, decoder : STRING])
        /\ \A i \in DOMAIN entries : entries[i].decoder # ""

WmoRaport == {"AREP", "BATH", "DRAU", "METAR", "PILO", "SYNOP", "TEMP",
              "TIDE", "BUFR_SURFACE"}

(* boost::to_lower_copy of the type.                                       *)
LowerCase == [AREP |-> "arep", BATH |-> "bath", DRAU |-> "drau",
              METAR |-> "metar", PILO |-> "pilo", SYNOP |-> "synop",
              TEMP |-> "temp", TIDE |-> "tide",
              BUFR_SURFACE |-> "bufr_surface"]

(* What is empty is replaced, and only then are blanks trimmed off.        *)
Decoder(e) ==
    CASE e.decoder = "none" -> LowerCase[e.type]
      [] e.decoder = "blank" -> ""
      [] OTHER -> e.decoder

(* The raports of the known types, each at the place of its entry.         *)
getRaportConf(entries) ==
    LET known == {i \in DOMAIN entries : entries[i].type \in WmoRaport}
    IN IF known = {}
       THEN << [type |-> "SYNOP", decoder |-> "synop"],
               [type |-> "BUFR_SURFACE", decoder |-> "bufr"] >>
       ELSE [i \in known |->
               [type |-> entries[i].type, decoder |-> Decoder(entries[i])]]

getRaportsToCollect(raports) == {raports[i].type : i \in DOMAIN raports}

Places(raports, type) == {i \in DOMAIN raports : raports[i].type = type}

(* The last raport of the type. *)
getDecoder_Slip(raports, type) ==
    LET at == Places(raports, type)
    IN IF at = {} THEN "" ELSE raports[Max(at)].decoder

getDecoder(raports, type) ==
    LET at == Places(raports, type)
    IN IF at = {} THEN "" ELSE raports[Min(at)].decoder

(***************************************************************************)
(* The start.  A directory or file is "fine", can be made ("missing"),     *)
(* cannot be made or opened ("denied"), or is something else ("odd").      *)
(***************************************************************************)

(* InitLogger() reads the configuration before anybody looks whether there *)
(* is one, and opens the log file in logdir, which is not made until later.*)
LoggerStarts(conf) == conf.readable /\ conf.logdir = "fine"

(* getKvServers() puts an empty name into an empty list.                   *)
KvServers(conf) == IF conf.kvservers = <<>> THEN <<"">> ELSE conf.kvservers

createDir(dir) == dir \in {"fine", "missing"}
checkdir(dir) == dir = "fine"

(* The constructor of App returns: otherwise the process has ended.        *)
AppStarts(conf) ==
    /\ KvServers(conf) # <<"">>
    /\ createDir(conf.workdir)
    /\ createDir(conf.logdir)
    /\ checkdir(conf.synopdir)

Starts(conf) == LoggerStarts(conf) /\ AppStarts(conf)

(***************************************************************************)
(* What a property of Main says of it                                      *)
(***************************************************************************)
DecodersSuffice ==
    \A entries \in Entries :
        LET raports == getRaportConf(entries)
            without == {type \in getRaportsToCollect(raports) :
                          getDecoder(raports, type) = ""}
        IN /\ getRaportsToCollect(raports) # {}
           /\ \A type \in without :
                 entries[Min(Places(entries, type))].decoder = "blank"
==============================================================================
