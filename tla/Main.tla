-------------------------------- MODULE Main --------------------------------
(***************************************************************************)
(* Processes that run main() of norcom2kv: the start, with the pid file    *)
(* that is to keep a second daemon away, the two timers of run(), and the  *)
(* end, by SIGTERM or by a kill.  What a scan or a resend does is the      *)
(* business of Norcom2kv.                                                  *)
(*                                                                         *)
(* Of the times that run() keeps only the ages matter: how long ago, by    *)
(* the clock of the system, each of them was.                              *)
(*                                                                         *)
(* Definitions whose name ends in _Slip are not part of the specification: *)
(* they are slips one could make in the code, kept to see that the         *)
(* properties notice them.                                                 *)
(***************************************************************************)
EXTENDS Config

CONSTANTS
    Proc,         \* processes, one after the other or at once
    DELAY,        \* seconds from one scan to the next
    RESEND_DELAY, \* seconds from one resend to the next
    Confs,        \* what norcom2kv.conf may say at a start
    Serialized,   \* no start while another one is not done
    MaxBack,      \* bound: seconds that the clock is set back, altogether
    MaxKills      \* bound: kills

ASSUME MainAssumption ==
    /\ DELAY \in Nat \ {0}
    /\ RESEND_DELAY \in Nat
    /\ DELAY <= RESEND_DELAY
    /\ Serialized \in BOOLEAN
    /\ {MaxBack, MaxKills} \subseteq Nat

(* The pid file holds the id of a process, or is not there, or is left by  *)
(* a process that has ended.                                               *)
NoFile == "no file"
Stale == "stale"

ASSUME PidAssumption == Proc \intersect {NoFile, Stale} = {}

VARIABLES
    pc,        \* where each process is
    sigTerm,   \* process -> it was told to end
    scanAge,   \* process -> tNow - newObsCheckTime
    resendAge, \* process -> tNow - savedObsCheckTime
    due,       \* process -> what is still to be done in this round
    pidfile,   \* the pid file
    created,   \* process -> its PidFileHelper has created the pid file
    back, kills  \* how often, against their bounds

pids == <<pidfile, created>>
ages == <<scanAge, resendAge>>
bounds == <<back, kills>>
vars == <<pc, sigTerm, ages, due, pids, bounds>>

(* An age of RESEND_DELAY or more; at first both times are 0.              *)
Age == -MaxBack..RESEND_DELAY
LongAgo == [p \in Proc |-> RESEND_DELAY]

Running(p) == pc[p] \in {"loop", "scan", "resend", "sleep"}
Starting(p) == pc[p] \in {"config", "check", "create"}

Init ==
    /\ pc = [p \in Proc |-> "none"]
    /\ sigTerm = [p \in Proc |-> FALSE]
    /\ scanAge = LongAgo /\ resendAge = LongAgo
    /\ due = [p \in Proc |-> {}]
    /\ pidfile = NoFile /\ created = [p \in Proc |-> FALSE]
    /\ back = 0 /\ kills = 0

Goto(p, from, to) ==
    /\ pc[p] = from
    /\ pc' = [pc EXCEPT ![p] = to]

(***************************************************************************)
(* The start                                                               *)
(***************************************************************************)
Start(p) ==
    /\ Serialized => \A q \in Proc : ~Starting(q)
    /\ Goto(p, "none", "config")
    /\ UNCHANGED <<sigTerm, ages, due, pids, bounds>>

(* InitLogger() and the constructor of App, which ends the process with    *)
(* exit(1), or installs the signal handlers and returns.                   *)
Configure(p) ==
    /\ \E conf \in Confs :
         Goto(p, "config", IF Starts(conf) THEN "check" ELSE "none")
    /\ UNCHANGED <<sigTerm, ages, due, pids, bounds>>

(* Everything a process forgets when it ends.                              *)
Forget(p) ==
    /\ pc' = [pc EXCEPT ![p] = "none"]
    /\ sigTerm' = [sigTerm EXCEPT ![p] = FALSE]
    /\ scanAge' = [scanAge EXCEPT ![p] = RESEND_DELAY]
    /\ resendAge' = [resendAge EXCEPT ![p] = RESEND_DELAY]
    /\ due' = [due EXCEPT ![p] = {}]
    /\ created' = [created EXCEPT ![p] = FALSE]

(* isRunningPidFile() finds a live process: the one that wrote the file,   *)
(* or another that has got its id since; or it cannot read the file.       *)
Refuse(p) ==
    /\ pc[p] = "check"
    /\ pidfile # NoFile
    /\ Forget(p)
    /\ UNCHANGED <<pidfile, bounds>>

Pass(p) ==
    /\ pidfile \in {NoFile, Stale}
    /\ Goto(p, "check", "create")
    /\ UNCHANGED <<sigTerm, ages, due, pids, bounds>>

Create(p) ==
    /\ Goto(p, "create", "loop")
    /\ pidfile' = p
    /\ created' = [created EXCEPT ![p] = TRUE]
    /\ UNCHANGED <<sigTerm, ages, due, bounds>>

(* The PidFileHelper takes the file for its own all the same. *)
NotCreated_Slip(p) ==
    /\ Goto(p, "create", "loop")
    /\ created' = [created EXCEPT ![p] = TRUE]
    /\ UNCHANGED <<sigTerm, ages, due, pidfile, bounds>>

(* Nobody looks at the result of createPidFile().                          *)
NotCreated(p) ==
    /\ Goto(p, "create", "loop")
    /\ UNCHANGED <<sigTerm, ages, due, pids, bounds>>

(***************************************************************************)
(* run()                                                                   *)
(***************************************************************************)

(* The flag is not looked at. *)
InLoop_Slip(p) == pc[p] = "loop"

InLoop(p) == pc[p] = "loop" /\ ~sigTerm[p]

(* The resend waits for a round without a scan. *)
Round_Slip(p) ==
    /\ InLoop(p)
    /\ due' = [due EXCEPT ![p] =
                 IF scanAge[p] >= DELAY THEN {"scan"}
                 ELSE IF resendAge[p] >= RESEND_DELAY THEN {"resend"} ELSE {}]
    /\ scanAge' = [scanAge EXCEPT ![p] = IF "scan" \in due'[p] THEN 0 ELSE @]
    /\ resendAge' = [resendAge EXCEPT ![p] =
                       IF "resend" \in due'[p] THEN 0 ELSE @]
    /\ pc' = [pc EXCEPT ![p] = CASE "scan" \in due'[p] -> "scan"
                                 [] due'[p] = {"resend"} -> "resend"
                                 [] OTHER -> "sleep"]
    /\ UNCHANGED <<sigTerm, pids, bounds>>

(* A round reads the clock once; both tests, and the times noted for what  *)
(* is due, are of that moment.                                             *)
Round(p) ==
    /\ InLoop(p)
    /\ due' = [due EXCEPT ![p] =
                 {w \in {"scan"} : scanAge[p] >= DELAY} \union
                 {w \in {"resend"} : resendAge[p] >= RESEND_DELAY}]
    /\ scanAge' = [scanAge EXCEPT ![p] = IF "scan" \in due'[p] THEN 0 ELSE @]
    /\ resendAge' = [resendAge EXCEPT ![p] =
                       IF "resend" \in due'[p] THEN 0 ELSE @]
    /\ pc' = [pc EXCEPT ![p] = CASE "scan" \in due'[p] -> "scan"
                                 [] due'[p] = {"resend"} -> "resend"
                                 [] OTHER -> "sleep"]
    /\ UNCHANGED <<sigTerm, pids, bounds>>

Scanned(p) ==
    /\ Goto(p, "scan", IF "resend" \in due[p] THEN "resend" ELSE "loop")
    /\ due' = [due EXCEPT ![p] = @ \ {"scan"}]
    /\ UNCHANGED <<sigTerm, ages, pids, bounds>>

Resent(p) ==
    /\ Goto(p, "resend", "loop")
    /\ due' = [due EXCEPT ![p] = {}]
    /\ UNCHANGED <<sigTerm, ages, pids, bounds>>

(* sleep(1) is over, or cut short by a signal.                             *)
Wake(p) ==
    /\ Goto(p, "sleep", "loop")
    /\ UNCHANGED <<sigTerm, ages, due, pids, bounds>>

(* Whoever ends takes the pid file along. *)
Return_Slip(p) ==
    /\ pc[p] = "loop"
    /\ sigTerm[p]
    /\ Forget(p)
    /\ pidfile' = NoFile
    /\ UNCHANGED bounds

(* run() returns, and the destructor of pidFile unlinks what it created.   *)
Return(p) ==
    /\ pc[p] = "loop"
    /\ sigTerm[p]
    /\ Forget(p)
    /\ pidfile' = IF created[p] THEN NoFile ELSE pidfile
    /\ UNCHANGED bounds

(***************************************************************************)
(* Signals and the clock                                                   *)
(***************************************************************************)

(* Until the handlers are installed, SIGTERM and SIGINT end the process.   *)
Terminated(p) ==
    /\ pc[p] = "config"
    /\ Forget(p)
    /\ UNCHANGED <<pidfile, bounds>>

SigTerm(p) ==
    /\ pc[p] \notin {"none", "config"}
    /\ ~sigTerm[p]
    /\ sigTerm' = [sigTerm EXCEPT ![p] = TRUE]
    /\ UNCHANGED <<pc, ages, due, pids, bounds>>

(* SIGKILL, or an exception that nobody catches, leaves the pid file.      *)
Kill(p) ==
    /\ pc[p] # "none"
    /\ kills < MaxKills
    /\ kills' = kills + 1
    /\ Forget(p)
    /\ pidfile' = IF created[p] THEN Stale ELSE pidfile
    /\ UNCHANGED back

(* An age of RESEND_DELAY stands for all greater ones.                     *)
Tick ==
    /\ scanAge' = [p \in Proc |-> IF scanAge[p] = RESEND_DELAY
                                  THEN RESEND_DELAY ELSE scanAge[p] + 1]
    /\ resendAge' = [p \in Proc |-> IF resendAge[p] = RESEND_DELAY
                                    THEN RESEND_DELAY ELSE resendAge[p] + 1]
    /\ UNCHANGED <<pc, sigTerm, due, pids, bounds>>

(* For the processes in S it was still longer ago.                         *)
Back(age, S) ==
    [p \in Proc |-> IF age[p] = RESEND_DELAY /\ p \in S
                    THEN RESEND_DELAY ELSE age[p] - 1]

(* The clock is set back, by one second for each such step.                *)
SetBack ==
    /\ back < MaxBack
    /\ back' = back + 1
    /\ \E S \in SUBSET Proc : scanAge' = Back(scanAge, S)
    /\ \E S \in SUBSET Proc : resendAge' = Back(resendAge, S)
    /\ UNCHANGED <<pc, sigTerm, due, pids, kills>>

Step(p) ==
    \/ Configure(p) \/ Refuse(p) \/ Pass(p) \/ Create(p) \/ NotCreated(p)
    \/ Round(p) \/ Scanned(p) \/ Resent(p) \/ Wake(p) \/ Return(p)

Next ==
    \/ Tick \/ SetBack
    \/ \E p \in Proc :
         Step(p) \/ Start(p) \/ Terminated(p) \/ SigTerm(p) \/ Kill(p)

Spec == Init /\ [][Next]_vars

(* Each process is scheduled, a scan and a resend come to an end, and the  *)
(* clock goes on.                                                          *)
Fairness == WF_vars(Tick) /\ \A p \in Proc : WF_vars(Step(p))

FairSpec == Spec /\ Fairness

(***************************************************************************)
(* Properties                                                              *)
(***************************************************************************)
TypeOK ==
    /\ pc \in [Proc -> {"none", "config", "check", "create",
                        "loop", "scan", "resend", "sleep"}]
    /\ sigTerm \in [Proc -> BOOLEAN]
    /\ scanAge \in [Proc -> Age]
    /\ resendAge \in [Proc -> Age]
    /\ due \in [Proc -> SUBSET {"scan", "resend"}]
    /\ pidfile \in Proc \union {NoFile, Stale}
    /\ created \in [Proc -> BOOLEAN]
    /\ back \in 0..MaxBack
    /\ kills \in 0..MaxKills

(* Where starts come one after the other and the pid file can be created,  *)
(* two daemons never work on the same synopdir, data2kv and state file:    *)
(* not after a kill that left the pid file, not while one that was told to *)
(* end is still at it, and not because a process that was refused, or that *)
(* could not create the file, took that of the daemon along.               *)
OneDaemon ==
    \A p, q \in Proc :
        Running(p) /\ Running(q) /\ created[p] /\ created[q] => p = q

(* Of a daemon that runs, whatever "raports" says, some type is collected, *)
(* and a type that is collected lacks a decoder, so that sendWMORaport()   *)
(* drops all its reports, only if its first entry has nothing but blanks   *)
(* for a decoder.                                                          *)
CollectedHaveDecoders == \A p \in Proc : Running(p) => DecodersSuffice

(* Whatever is done to the clock, and however long scans and resends take, *)
(* a daemon scans synopdir and resends the saved observations again and    *)
(* again until it ends.                                                    *)
BothTimersGoOff ==
    \A p \in Proc :
        /\ Running(p) ~> (pc[p] = "scan" \/ ~Running(p))
        /\ Running(p) ~> (pc[p] = "resend" \/ ~Running(p))

(* A daemon that gets SIGTERM ends, wherever it is.                        *)
SigTermEnds == \A p \in Proc : sigTerm[p] ~> pc[p] = "none"

(***************************************************************************)
(* The invariant behind OneDaemon                                          *)
(***************************************************************************)

(* No age is less than the seconds that the clock was set back.            *)
AgesInv ==
    \A p \in Proc : scanAge[p] \in -back..RESEND_DELAY
                  /\ resendAge[p] \in -back..RESEND_DELAY

(* The pid file names the process that created it as long as that one      *)
(* runs; while a process is between the test and the creation, no other    *)
(* one can have created it.                                                *)
PidInv ==
    /\ \A p, q \in Proc : Starting(p) /\ Starting(q) => p = q
    /\ \A p \in Proc : created[p] => pidfile = p
    /\ \A p \in Proc : pc[p] = "create" => pidfile \in {NoFile, Stale}

(* The invariant of the proofs.                                            *)
MInv == TypeOK /\ AgesInv /\ PidInv
==============================================================================
