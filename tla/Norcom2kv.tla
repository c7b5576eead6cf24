------------------------------ MODULE Norcom2kv ------------------------------
(***************************************************************************)
(* The daemon: run(), which scans synopdir (Collector) and sends what it   *)
(* finds, and what it has saved before (Delivery), in one thread.  A chunk *)
(* of an observation file is a message.                                    *)
(*                                                                         *)
(* The parts share the flag of SIGTERM, the new part that is being sent,   *)
(* and the bounds.  What Delivery keeps as handed and accepted is here the *)
(* business of Collector, with offsets, crcs and the state file.           *)
(***************************************************************************)
EXTENDS Collector

CONSTANTS
    ResendDelay,  \* RESEND_DELAY of run()
    NServers,     \* how many "kvservers" norcom2kv.conf lists
    MaxFiles,     \* bound: files in data2kv
    MaxBad,       \* bound: calls without an answer, answers other than OK
    SendFailing,  \* calls that may fail on the files of data2kv
    Slashed       \* observations whose decoder name has a "/" in it

(* Each saved message has had a bad answer, so that there is a name for it. *)
(* norcom2kv.conf says the same at every start: what is hidden from the     *)
(* listing of synopdir is so from the one of data2kv.                       *)
ASSUME Norcom2kvAssumption ==
    /\ ResendDelay \in Nat
    /\ NServers \in Nat \ {0}
    /\ {MaxFiles, MaxBad} \subseteq Nat
    /\ MaxBad <= MaxFiles
    /\ SendFailing \subseteq {"read", "write", "close"}
    /\ Slashed \subseteq Chunk
    /\ IgnoreOld \in {{TRUE}, {FALSE}}

VARIABLES
    dpc, round, job, res, up, files, settled, bad,  \* those of Delivery
    lastResend,  \* savedObsCheckTime
    resendDue,   \* the round will end with a resend
    lost         \* chunks whose write to data2kv has failed (history)

D == INSTANCE Delivery WITH
         Msg <- Chunk, Stubborn <- {}, IgnoreOld <- (IgnoreOld = {TRUE}),
         Failing <- SendFailing \union (Failing \intersect {"save"}),
         pc <- dpc, left <- part, handed <- {}, accepted <- {}

delivery == <<dpc, round, job, res, up, files, settled, bad>>
collector == <<env, pc, memory, list, todo, hasNew, cur, buf, saved, history>>
timers == <<lastResend, resendDue>>
allvars == <<vars, delivery, timers, lost>>

(* savedObsCheckTime is 0 at a start: the first resend is due at once.      *)
LongAgo == -ResendDelay

AllInit ==
    /\ Init
    /\ dpc = "stopped" /\ round = {} /\ bad = 0
    /\ job = D!NoJob /\ res = "INIT" /\ up = TRUE
    /\ files = NoEntry
    /\ settled = [s \in 1..NServers |-> {}]
    /\ lastResend = LongAgo /\ resendDue = FALSE
    /\ lost = {}

(***************************************************************************)
(* run()                                                                   *)
(***************************************************************************)
StartAll == Start /\ D!Start /\ UNCHANGED <<timers, lost>>

InLoop == pc = "idle" /\ dpc = "idle"

ForgetTimers == lastResend' = LongAgo /\ resendDue' = FALSE /\ UNCHANGED lost

ExitAll == InLoop /\ Exit /\ D!Exit /\ ForgetTimers

CrashAll == Crash /\ D!Crash /\ ForgetTimers

SigTermAll == SigTerm /\ D!SigTerm /\ UNCHANGED <<timers, lost>>

(* As with Due, MaxNow stands for all later times.                         *)
ResendIsDue == now - lastResend >= ResendDelay \/ now = MaxNow

(* The resend is looked at only when no scan was due. *)
Round_Slip ==
    /\ InLoop
    /\ ~resendDue
    /\ ~shutdown
    /\ resendDue' = (ResendIsDue /\ ~Due)
    /\ lastResend' = IF resendDue' THEN now ELSE lastResend
    /\ IF Due THEN StartScan ELSE resendDue' /\ UNCHANGED vars
    /\ UNCHANGED <<delivery, lost>>

(* Both tests use the time read at the top of the round.  A round with     *)
(* nothing due only sleeps.                                                *)
Round ==
    /\ InLoop
    /\ ~resendDue
    /\ ~shutdown
    /\ resendDue' = ResendIsDue
    /\ lastResend' = IF resendDue' THEN now ELSE lastResend
    /\ IF Due THEN StartScan ELSE resendDue' /\ UNCHANGED vars
    /\ UNCHANGED <<delivery, lost>>

(* The second half of the round.                                           *)
Resend ==
    /\ InLoop
    /\ resendDue
    /\ resendDue' = FALSE
    /\ D!StartResend
    /\ UNCHANGED <<collector, lastResend, lost>>

(***************************************************************************)
(* Collecting and sending                                                  *)
(***************************************************************************)

(* Messages are sent in the background. *)
NothingOnItsWay_Slip == TRUE

(* The collector goes on only when no message is on its way.               *)
NothingOnItsWay == dpc \in {"idle", "collected"}

(* A new part is sent before the next file is looked at. *)
CollectPart(f) ==
    /\ NothingOnItsWay
    /\ Collect(f)
    /\ IF part' = {} THEN UNCHANGED delivery ELSE D!TakePart(part')
    /\ UNCHANGED <<timers, lost>>

(* doNewObs() waits for the answers to each message.                       *)
SendChunk(c) ==
    /\ Hand(c)
    /\ D!SendNew(c)
    /\ UNCHANGED <<timers, lost>>

CollectorAlone ==
    /\ NothingOnItsWay
    /\ \/ NothingListed \/ EraseGone \/ EndScan \/ StartSave \/ OpenFails
       \/ \E f \in File : \/ Scan(f) \/ SaveLine(f)
                          \/ CopyFails(f) \/ ReadFails(f) \/ StatFails(f)
    /\ UNCHANGED <<delivery, timers, lost>>

(* saveFInfoList() is done, well or not.                                   *)
SaveDone ==
    /\ NothingOnItsWay
    /\ EndSave \/ SaveFails
    /\ IF dpc = "collected" THEN D!SaveFInfoList ELSE UNCHANGED delivery
    /\ UNCHANGED <<timers, lost>>

Sending ==
    /\ \/ D!Answer \/ D!NoAnswer
       \/ D!NewSent \/ D!Save
       \/ D!SavedSent \/ D!EndResend
       \/ \E n \in 1..MaxFiles : D!ReadFails(n) \/ D!FormatError(n) \/ D!SendSaved(n)
    /\ UNCHANGED <<collector, timers, lost>>

(* A message that cannot be saved is given up, one that is not written to  *)
(* the end is saved for nothing.                                           *)
LoseMessage ==
    /\ D!NotSaved \/ D!SaveCut
    /\ lost' = lost \union job.msg
    /\ UNCHANGED <<collector, timers>>

AllDaemon ==
    \/ StartAll \/ ExitAll \/ Round \/ Resend
    \/ CollectorAlone \/ SaveDone \/ Sending \/ LoseMessage
    \/ \E f \in File : CollectPart(f)
    \/ \E c \in Chunk : SendChunk(c)

AllEnvironment == Environment /\ UNCHANGED <<delivery, timers, lost>>

AllNext == AllEnvironment \/ SigTermAll \/ CrashAll \/ AllDaemon

AllSpec == AllInit /\ [][AllNext]_allvars

(* The process is scheduled, and started again when it has ended; the      *)
(* clock goes on.  Nothing is assumed of the branches of run().            *)
AllFairSpec ==
    /\ AllSpec
    /\ WF_allvars(AllDaemon)
    /\ WF_allvars(Tick /\ UNCHANGED <<delivery, timers, lost>>)

(***************************************************************************)
(* Properties                                                              *)
(***************************************************************************)

(* The observations in front of the offsets that the state file has for    *)
(* the next start.                                                         *)
Skipped ==
    UNION {Range(s) : s \in {t \in Content : \E f \in DOMAIN saved :
               saved[f].offset = Len(t) /\ saved[f].crc = Crc(t)}}

(* Settled by a server, or in a whole file of data2kv; only what could not *)
(* be written to data2kv itself is lost.                                   *)
Safe == D!Settled \union D!Kept \union lost

(* From the files of synopdir to the servers: whatever offset the state    *)
(* file lets the next start skip to, every observation in front of it is   *)
(* safe, at whatever step of collecting, sending or saving the daemon is   *)
(* killed.                                                                 *)
SkippedIsSafe == Skipped \subseteq Safe

(* A file that the daemon is done with (its entry is marked collected, and *)
(* its mtime has not changed since) holds nothing that is not safe or, at  *)
(* this moment, on its way: however scans, writers, answers, failing saves *)
(* and kills fall.                                                         *)
CollectedIsSafe == CollectedIn(Safe \union D!Waiting)

(* The daemon as a whole, with files, offsets and crcs, does what          *)
(* AtLeastOnce promises of the sending side: an observation in front of an *)
(* offset of the state file leaves data2kv only when a server has settled  *)
(* it, and no step moves an offset past one that is neither.  What could   *)
(* not be written counts as kept.                                          *)
ALO == INSTANCE AtLeastOnce WITH
           Msg <- Chunk, settled <- D!Settled, kept <- D!Kept \union lost,
           accepted <- Skipped

ImplementsAtLeastOnce == ALO!Spec

(* Every observation in a file of synopdir is settled in the end, unless   *)
(* the file loses it first or its write to data2kv fails: with servers     *)
(* that fail for a while, failing copies and saves, kills and restarts,    *)
(* and rounds of any length.  A failing read of a copy is not among these: *)
(* the file is not collected again then, see StaleStays.                   *)
(* (Holds ~> X, where X has ~Holds as a disjunct, is []<>X.)               *)
EventuallySettled ==
    \A f \in File, c \in Chunk :
        LET Holds == f \in DOMAIN disk /\ c \in Range(disk[f].data)
        IN []<>(c \in D!Settled \union lost \/ ~Holds)

(* Files of data2kv do not pile up: in the end there are none.             *)
EventuallyEmpty == <>[](files = NoEntry)

(***************************************************************************)
(* The invariant of the proofs                                             *)
(***************************************************************************)

(* Offsets in memory vouch for what is safe or on its way, those in the    *)
(* state file, which is written when nothing is on its way, for what is    *)
(* safe.                                                                   *)
SafeInv ==
    /\ TypeInv
    /\ D!TypeOK
    /\ D!JobInv
    /\ \A f \in DOMAIN info : Vouches(info[f], Safe \union D!Waiting)
    /\ \A f \in DOMAIN saved : Vouches(saved[f], Safe)

(* With what is true of mtimes and copies, for CollectedIsSafe.            *)
NInv == SafeInv /\ Timing /\ Copying /\ CollectedIsSafe
==============================================================================
