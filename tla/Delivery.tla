------------------------------- MODULE Delivery -------------------------------
(***************************************************************************)
(* The sending side of norcom2kv: sendWMORaport() sends the messages of a  *)
(* new part to the kvalobs servers, writes to data2kv what kvalobs should  *)
(* get later, and tryToSendSavedObservations() sends that again once a     *)
(* minute.  The servers are called one after the other, and the daemon may *)
(* be killed between any two calls, or between a call and what it does     *)
(* with the answer.                                                        *)
(*                                                                         *)
(* A message is one text sent with one decoder name.  fileInfoList and the *)
(* state file are here only the sets of the messages whose bytes they      *)
(* count as handed on; Collector has the rest of them.                     *)
(*                                                                         *)
(* Definitions whose name ends in _Slip are not part of the specification: *)
(* they are slips one could make in the code, kept to see that the         *)
(* properties notice them.                                                 *)
(***************************************************************************)
EXTENDS Integers, FiniteSets, Functions

CONSTANTS
    Msg,         \* messages
    Stubborn,    \* those for which every server answers NOTSAVED, always
    Slashed,     \* those whose decoder name has a "/" in it, as BUFR has
    NServers,    \* how many "kvservers" norcom2kv.conf lists
    MaxFiles,    \* bound: files in data2kv
    MaxBad,      \* bound: calls without an answer, answers other than OK
    MaxFaults,   \* bound: failing reads and writes of files
    Failing,     \* which of them may fail: "read", "write", "close", "save"
    MaxTerms,    \* bound: SIGTERMs
    MaxCrashes,  \* bound: kills
    IgnoreOld    \* "ignore_files_before_startup" in norcom2kv.conf

ASSUME DeliveryAssumption ==
    /\ Stubborn \subseteq Msg
    /\ Slashed \subseteq Msg
    /\ NServers \in Nat \ {0}
    /\ {MaxFiles, MaxBad, MaxFaults, MaxTerms, MaxCrashes} \subseteq Nat
    /\ Failing \subseteq {"read", "write", "close", "save"}
    /\ IgnoreOld \in BOOLEAN

VARIABLES
    pc,        \* where the daemon is
    shutdown,  \* App::inShutdown()
    handed,    \* messages fileInfoList counts as handed on
    left,      \* messages of the new part that are not sent yet
    round,     \* names the resend loop has still to visit
    job,       \* what is being sent, see Job
    res,       \* resToReturn of sendDataToKvalobs()
    up,        \* kvServerIsUp
    files,     \* data2kv: name -> SavedFile
    accepted,  \* messages the state file counts as handed on
    settled,   \* server -> messages it has stored or refused
    bad, faults, terms, crashes  \* how often, against their bounds

send == <<job, res>>
memory == <<handed, left, round, send, up>>
disk == <<files, accepted>>
bounds == <<bad, faults, terms, crashes>>
vars == <<pc, shutdown, memory, disk, settled, bounds>>

Server == 1..NServers
Name == 1..MaxFiles

(* kvalobs::datasource::Result.  NODECODER, DECODEERROR and unknown codes  *)
(* are treated alike ("REFUSED"); "NOSTATION" is the DECODEERROR for an    *)
(* unknown station; "INIT" is no code yet.                                 *)
Code == {"OK", "NOTSAVED", "ERROR", "REFUSED", "NOSTATION"}
Success == {"OK", "NOSTATION"}
(* A call without an answer is not tried again. *)
TryToResend_Slip == {"NOTSAVED"}

TryToResend == {"NOTSAVED", "ERROR"}

(* A saved file: its message, and whether all of it is there, or part of   *)
(* it, or not even the first line; last written before this start.         *)
SavedFile == [msg : Msg, text : {"whole", "cut", "headless"}, old : BOOLEAN]

(* A send: the message (or none), the saved file it comes from (none if it *)
(* is new), whether the text is the whole message, the next server.        *)
Job == [msg : SUBSET Msg, file : SUBSET Name, whole : BOOLEAN,
        server : 1..(NServers + 1)]
NoJob == [msg |-> {}, file |-> {}, whole |-> TRUE, server |-> 1]

Settled == UNION {settled[s] : s \in Server}
Kept == {files[n].msg : n \in {n \in DOMAIN files : files[n].text = "whole"}}

Init ==
    /\ pc = "stopped" /\ shutdown = FALSE
    /\ handed = {} /\ left = {} /\ round = {}
    /\ job = NoJob /\ res = "INIT" /\ up = TRUE
    /\ files = [n \in {} |-> 0] /\ accepted = {}
    /\ settled = [s \in Server |-> {}]
    /\ bad = 0 /\ faults = 0 /\ terms = 0 /\ crashes = 0

(***************************************************************************)
(* Start and end                                                           *)
(***************************************************************************)

(* With ignore_files_before_startup, getFileList() does not list the files *)
(* that an earlier process saved.                                          *)
Start ==
    /\ pc = "stopped"
    /\ pc' = "idle"
    /\ handed' = accepted
    /\ files' = [n \in DOMAIN files |-> [files[n] EXCEPT !.old = TRUE]]
    /\ UNCHANGED <<shutdown, left, round, send, up, accepted, settled,
                   bounds>>

LoseMemory ==
    /\ pc' = "stopped"
    /\ shutdown' = FALSE
    /\ handed' = {} /\ left' = {} /\ round' = {}
    /\ job' = NoJob /\ res' = "INIT" /\ up' = TRUE
    /\ UNCHANGED settled

SigTerm ==
    /\ pc # "stopped"
    /\ ~shutdown
    /\ terms < MaxTerms
    /\ shutdown' = TRUE
    /\ terms' = terms + 1
    /\ UNCHANGED <<pc, memory, disk, settled, bad, faults, crashes>>

(* The main loop looks at the flag between two rounds.                     *)
Exit ==
    /\ pc = "idle"
    /\ shutdown
    /\ LoseMemory
    /\ UNCHANGED <<disk, bounds>>

Fault(call) ==
    /\ call \in Failing
    /\ faults < MaxFaults
    /\ faults' = faults + 1
    /\ UNCHANGED <<bad, terms, crashes>>

Unlink(S) == files' = Restrict(files, DOMAIN files \ S)

(* The first of the names writeFile() tries that is free.                  *)
IsFreeName(n) ==
    /\ n \in Name \ DOMAIN files
    /\ \A k \in Name \ DOMAIN files : n <= k

WriteFile(text) ==
    \E m \in job.msg \ Slashed, new \in Name :
        /\ IsFreeName(new)
        /\ files' = [n \in DOMAIN files \union {new} |->
                       IF n = new
                       THEN [msg |-> m, text |-> text, old |-> FALSE]
                       ELSE files[n]]

(* A kill.  In writeFile() it may leave part of the file behind, in        *)
(* saveFInfoList() part of the state file.                                 *)
Crash ==
    /\ pc # "stopped"
    /\ crashes < MaxCrashes
    /\ crashes' = crashes + 1
    /\ LoseMemory
    /\ \/ UNCHANGED disk
       \/ /\ pc = "write"
          /\ \E text \in {"whole", "cut", "headless"} : WriteFile(text)
          /\ UNCHANGED accepted
       \/ /\ pc = "collected"
          /\ accepted' \in SUBSET handed
          /\ UNCHANGED files
    /\ UNCHANGED <<bad, faults, terms>>

(***************************************************************************)
(* sendDataToKvalobs(): every server in turn; the result is that of the    *)
(* last one that answered, or ERROR.                                       *)
(***************************************************************************)
BeginSend(m, file, whole) ==
    /\ pc' = "call"
    /\ job' = [msg |-> {m}, file |-> file, whole |-> whole, server |-> 1]
    /\ res' = "INIT"

(* One server too many. *)
Called_Slip ==
    /\ pc = "call"
    /\ job' = [job EXCEPT !.server = job.server + 1]
    /\ pc' = IF job.server > NServers THEN "answer" ELSE "call"
    /\ UNCHANGED <<shutdown, handed, left, round, up, disk>>

(* Goes on with the next server. *)
Called ==
    /\ pc = "call"
    /\ job' = [job EXCEPT !.server = job.server + 1]
    /\ pc' = IF job.server = NServers THEN "answer" ELSE "call"
    /\ UNCHANGED <<shutdown, handed, left, round, up, disk>>

Bad ==
    /\ bad < MaxBad
    /\ bad' = bad + 1
    /\ UNCHANGED <<faults, terms, crashes>>

(* The server settles the message, if the text is all of it.               *)
Settles ==
    settled' = [settled EXCEPT ![job.server] =
                    IF job.whole THEN @ \union job.msg ELSE @]

Codes == IF job.msg \subseteq Stubborn THEN {"NOTSAVED"} ELSE Code

(* newData() returns. *)
Answer ==
    /\ Called
    /\ res' \in Codes
    /\ IF res' = "OK" \/ Codes = {"NOTSAVED"} THEN UNCHANGED bounds ELSE Bad
    /\ IF res' \in TryToResend THEN UNCHANGED settled ELSE Settles

(* newData() throws: the call did not arrive, or its answer did not.       *)
NoAnswer ==
    /\ Called
    /\ Bad
    /\ res' = IF job.server = 1 THEN "ERROR" ELSE res
    /\ \/ UNCHANGED settled
       \/ job.msg \intersect Stubborn = {} /\ Settles

(***************************************************************************)
(* collectObservations() and sendWMORaport()                               *)
(***************************************************************************)

(* A new part of one file.                                                 *)
TakePart(S) ==
    /\ pc \in {"idle", "collected"}
    /\ ~shutdown
    /\ S # {}
    /\ pc' = "next"
    /\ left' = S
    /\ UNCHANGED <<shutdown, round, send, up, disk, settled, bounds>>

(* getNewObsPart() has moved the offset: the messages are counted as       *)
(* handed on.  There are names enough to save them all.                    *)
TakeNew(S) ==
    /\ TakePart(S)
    /\ S \intersect handed = {}
    /\ Cardinality(DOMAIN files) + Cardinality(S) <= MaxFiles
    /\ handed' = handed \union S

SendNew(m) ==
    /\ pc = "next"
    /\ m \in left
    /\ left' = left \ {m}
    /\ BeginSend(m, {}, TRUE)
    /\ UNCHANGED <<shutdown, handed, round, up, disk, settled, bounds>>

(* kvServerIsUp only if the message was taken. *)
Answered_Slip ==
    /\ pc = "answer"
    /\ up' = (res \in Success)
    /\ UNCHANGED <<shutdown, handed, left, send, accepted, settled, bounds>>

(* The tail of sendMessageToKvalobs(): sendDataToKvalobs() has not thrown. *)
Answered ==
    /\ pc = "answer"
    /\ up' = TRUE
    /\ UNCHANGED <<shutdown, handed, left, send, accepted, settled, bounds>>

NextNew == IF left = {} THEN "collected" ELSE "next"

NewSent ==
    /\ Answered
    /\ job.file = {}
    /\ pc' = IF res \in TryToResend THEN "write" ELSE NextNew
    /\ UNCHANGED <<round, files>>

Wrote ==
    /\ pc = "write"
    /\ pc' = NextNew
    /\ UNCHANGED <<shutdown, handed, left, round, send, up, accepted, settled>>

(* writeFile() *)
Save ==
    /\ Wrote
    /\ WriteFile("whole")
    /\ UNCHANGED bounds

(* The data do not reach the disk until fclose(), whose failure nobody     *)
(* looks at.                                                               *)
SaveCut ==
    /\ Wrote
    /\ Fault("close")
    /\ \E text \in {"cut", "headless"} : WriteFile(text)

(* The messages behind the one that could not be saved are given up. *)
NotSaved_Slip ==
    /\ pc = "write"
    /\ IF job.msg \subseteq Slashed THEN UNCHANGED bounds ELSE Fault("write")
    /\ pc' = "collected"
    /\ left' = {}
    /\ UNCHANGED <<shutdown, handed, round, send, up, files, accepted, settled>>

(* fopen() or fwrite() fails, and what was written is unlinked; fopen()    *)
(* always fails for a name with a "/" in it.  The message is gone.         *)
NotSaved ==
    /\ Wrote
    /\ IF job.msg \subseteq Slashed THEN UNCHANGED bounds ELSE Fault("write")
    /\ UNCHANGED files

(* saveFInfoList(), when the collecting is done. *)
SaveFInfoList ==
    /\ pc = "collected"
    /\ pc' = "idle"
    /\ \/ accepted' = handed /\ UNCHANGED bounds
       \/ accepted' \in SUBSET handed /\ Fault("save")
    /\ UNCHANGED <<shutdown, memory, files, settled>>

(***************************************************************************)
(* tryToSendSavedObservations()                                            *)
(***************************************************************************)
Listed == {n \in DOMAIN files : ~(IgnoreOld /\ files[n].old)}

StartResend ==
    /\ pc = "idle"
    /\ ~shutdown
    /\ pc' = "resend"
    /\ round' = Listed
    /\ UNCHANGED <<shutdown, handed, left, send, up, disk, settled,
                   bounds>>

Visit(n) ==
    /\ pc = "resend"
    /\ ~shutdown
    /\ n \in round
    /\ round' = round \ {n}
    /\ UNCHANGED <<shutdown, handed, left, up, accepted, settled>>

ReadFails(n) ==
    /\ Visit(n)
    /\ Fault("read")
    /\ UNCHANGED <<pc, send, files>>

FormatError(n) ==
    /\ Visit(n)
    /\ files[n].text = "headless"
    /\ Unlink({n})
    /\ UNCHANGED <<pc, send, bounds>>

SendSaved(n) ==
    /\ Visit(n)
    /\ files[n].text # "headless"
    /\ BeginSend(files[n].msg, {n}, files[n].text = "whole")
    /\ UNCHANGED <<files, bounds>>

(* Only a missing answer is a reason to try again. *)
SavedSent_Slip ==
    /\ Answered
    /\ job.file # {}
    /\ IF res = "ERROR" THEN UNCHANGED files ELSE Unlink(job.file)
    /\ pc' = "resend"
    /\ round' = IF res \notin Success /\ ~up' THEN {} ELSE round

(* Sent, or not wanted by kvalobs: the file is unlinked.  The loop is left *)
(* if kvServerIsUp is false.                                               *)
SavedSent ==
    /\ Answered
    /\ job.file # {}
    /\ IF res \in TryToResend THEN UNCHANGED files ELSE Unlink(job.file)
    /\ pc' = "resend"
    /\ round' = IF res \notin Success /\ ~up' THEN {} ELSE round

EndResend ==
    /\ pc = "resend"
    /\ round = {} \/ shutdown
    /\ pc' = "idle"
    /\ round' = {}
    /\ UNCHANGED <<shutdown, handed, left, send, up, disk, settled,
                   bounds>>

SomeNew == \E S \in SUBSET Msg : TakeNew(S)

Daemon ==
    \/ Start \/ Exit
    \/ Answer \/ NoAnswer
    \/ SomeNew \/ NewSent \/ Save \/ SaveCut \/ NotSaved \/ SaveFInfoList
    \/ \E m \in Msg : SendNew(m)
    \/ StartResend \/ SavedSent \/ EndResend
    \/ \E n \in Name : ReadFails(n) \/ FormatError(n) \/ SendSaved(n)

Next == SigTerm \/ Crash \/ Daemon

Spec == Init /\ [][Next]_vars

(* The daemon is a process the system lets run, and is started again when  *)
(* it has ended; each of the two timers of run() goes off again and again, *)
(* and neither keeps the other from it.                                    *)
Fairness == WF_vars(Daemon) /\ SF_vars(SomeNew) /\ SF_vars(StartResend)

FairSpec == Spec /\ Fairness

(***************************************************************************)
(* Properties                                                              *)
(***************************************************************************)
TypeOK ==
    /\ pc \in {"stopped", "idle", "next", "call", "answer", "write",
               "collected", "resend"}
    /\ shutdown \in BOOLEAN
    /\ handed \in SUBSET Msg
    /\ left \in SUBSET Msg
    /\ round \in SUBSET Name
    /\ job \in Job
    /\ res \in Code \union {"INIT"}
    /\ up \in BOOLEAN
    /\ DOMAIN files \in SUBSET Name
    /\ files \in [DOMAIN files -> SavedFile]
    /\ accepted \in SUBSET Msg
    /\ settled \in [Server -> SUBSET Msg]
    /\ bad \in 0..MaxBad
    /\ faults \in 0..MaxFaults
    /\ terms \in 0..MaxTerms
    /\ crashes \in 0..MaxCrashes

(* However calls, answers, kills and restarts fall, an observation the     *)
(* state file counts as handed on has been stored or refused by a server,  *)
(* or is in a whole file that tryToSendSavedObservations() finds.          *)
NothingLost == accepted \subseteq Settled \union Kept

(* The sending side does what AtLeastOnce promises. *)
ALO == INSTANCE AtLeastOnce WITH
           settled <- Settled, kept <- Kept, accepted <- accepted

ImplementsAtLeastOnce == ALO!Spec

(* Each failing call on a file loses one message at most, and what cannot  *)
(* be saved for its name is all else that is lost: the messages sent after *)
(* it, and the files of earlier processes, are not touched by it.          *)
LossIsBounded ==
    Cardinality(accepted \ (Settled \union Kept \union Slashed)) <= faults

(* A message kvalobs never takes does not keep the others from being sent: *)
(* every other message is settled in the end, and its files are gone.      *)
EventuallyDrained ==
    \A m \in Msg \ Stubborn : <>[](m \in Settled /\ m \notin Kept)

(***************************************************************************)
(* The invariant of the proofs                                             *)
(***************************************************************************)

(* One message is sent at a time, and none is left to send when the state  *)
(* file is written.  A result that does not ask for another try means that *)
(* a server has settled the message; a saved file stays there as long as   *)
(* its message is being sent.                                              *)
JobInv ==
    /\ pc \in {"call", "answer", "write"} => \E m \in Msg : job.msg = {m}
    /\ pc = "call" => job.server \in Server
    /\ res = "INIT" => pc \notin {"answer", "write"}
    /\ res = "INIT" /\ pc = "call" => job.server = 1
    /\ pc \in {"stopped", "idle", "collected", "resend"} => left = {}
    /\ pc = "write" => job.file = {}
    /\ job.file = {} => job.whole
    /\ round \subseteq DOMAIN files
    /\ pc \in {"call", "answer"} /\ job.file # {} =>
         /\ left = {}
         /\ \E n \in DOMAIN files \ round :
              /\ job.file = {n}
              /\ job.msg = {files[n].msg}
              /\ job.whole = (files[n].text = "whole")
    /\ pc \in {"call", "answer"} /\ res \notin TryToResend \union {"INIT"} =>
         (job.whole => job.msg \subseteq Settled)

(* Messages of the new part that are not sent, or not yet saved.           *)
Waiting ==
    left \union (IF pc \in {"call", "answer", "write"} /\ job.file = {}
                 THEN job.msg ELSE {})

(* What is handed on is settled, kept, or waits.                           *)
LossInv ==
    /\ handed \subseteq Settled \union Kept \union Waiting
    /\ accepted \subseteq Settled \union Kept

(* Inductive if no write to data2kv can lose a message.                    *)
DInv == TypeOK /\ JobInv /\ LossInv

(* What is handed on and neither settled, kept, waiting, nor Slashed.      *)
Lost ==
    (handed \union accepted) \ (Settled \union Kept \union Waiting \union Slashed)

(* Each failing call has lost one message at most.  What is being sent is  *)
(* not yet in the state file, so that a kill makes it new again.           *)
LostInv ==
    /\ pc # "stopped" => accepted \subseteq handed
    /\ Waiting \intersect accepted = {}
    /\ IsFiniteSet(Lost)
    /\ Cardinality(Lost) <= faults

(* Inductive whatever fails.                                               *)
BInv == TypeOK /\ JobInv /\ LostInv

(* No message is lost for its name or for a failing write.                 *)
NoLossyFault == Slashed = {} /\ Failing \intersect {"write", "close"} = {}
==============================================================================
