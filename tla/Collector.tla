------------------------------ MODULE Collector ------------------------------
(***************************************************************************)
(* The collecting side of norcom2kv: how CollectWmoReports notices a new   *)
(* or changed observation file in synopdir, waits until it is quiet,       *)
(* copies it, extracts the part that was not handed on before and          *)
(* remembers, across restarts, how much of every file has been handed on.  *)
(*                                                                         *)
(* The files are written by other programs while the daemon looks at them, *)
(* so every stat, every read and every write of the state file is a step   *)
(* of its own.  The daemon is stopped by SIGTERM or killed at any step.    *)
(*                                                                         *)
(* Definitions whose name ends in _Slip are not part of the specification: *)
(* they are slips one could make in the code, kept to see that the         *)
(* properties notice them.                                                 *)
(*                                                                         *)
(* A file's content is a sequence of chunks; a chunk stands for the bytes  *)
(* that one write put there, and is named by the number of that write.     *)
(* Offsets count chunks.  What becomes of a chunk once it has been handed  *)
(* to doNewObs is the business of the Delivery module.                     *)
(***************************************************************************)
EXTENDS Integers, Sequences, FiniteSets, SequencesExt

CONSTANTS
    File,        \* names in synopdir
    Delay,       \* DELAY of run(): seconds between the starts of two scans
    MaxNow,      \* bound: the clock stops here, see Due
    MaxOps,      \* bound: operations of the programs that write the files
    MaxTerms,    \* bound: SIGTERMs
    MaxCrashes,  \* bound: kills
    MaxFaults,   \* bound: calls that fail
    Failing,     \* which calls may fail, see Call
    Crc(_),      \* crc_ccitt of a content
    AppendOnly,  \* writers only append
    Debug,       \* "debug" in norcom2kv.conf: copies in tmpdir are kept
    IgnoreOld    \* what "ignore_files_before_startup" may be at a start

Chunk == 1..MaxOps
Content == UNION {[1..n -> Chunk] : n \in 0..MaxOps}
Offset == 0..MaxOps
Word == 0..65535

(* The calls that may fail: opening synopdir, the stat of the listing, the *)
(* one of mtimeNow(), copyfile, readFile() and the stat of a copy, and a   *)
(* write of the state file.                                                *)
Call == {"open", "list", "mtime", "copy", "read", "stat", "save"}

ASSUME ClockAssumption ==
    /\ Delay \in Nat \ {0}
    /\ MaxNow \in Nat
    /\ Delay <= MaxNow

ASSUME BoundsAssumption ==
    /\ MaxOps \in Nat
    /\ MaxTerms \in Nat
    /\ MaxCrashes \in Nat
    /\ MaxFaults \in Nat

ASSUME SwitchAssumption ==
    /\ {AppendOnly, Debug} \subseteq BOOLEAN
    /\ IgnoreOld \subseteq BOOLEAN
    /\ Failing \subseteq Call

(* A 16 bit CRC cannot tell all contents apart; the collector relies on its *)
(* telling apart those of one length that a file really has.                *)
ASSUME CrcAssumption ==
    \A s, t \in Content :
        /\ Crc(s) \in Word
        /\ Len(s) = Len(t) /\ Crc(s) = Crc(t) => s = t

VARIABLES
    now,           \* the wall clock, in seconds
    disk,          \* synopdir: name -> mtime and content
    ops,           \* operations done on it so far
    pc,            \* where the daemon is
    shutdown,      \* App::inShutdown()
    lastScan,      \* newObsCheckTime
    ignoreBefore,  \* ignoreFilesBefore
    list,          \* fileList of this scan: name -> mtime
    info,          \* fileInfoList: name -> FInfo
    todo,          \* the files the current loop has still to visit
    hasNew,        \* hasNewFilesToCollect
    cur,           \* the file being copied, a set of at most one
    buf,           \* what copyfile has copied of it
    tmp,           \* tmpdir: the copies that an entry's fcopy names
    part,          \* chunks of the new part that doNewObs has not sent yet
    saved,         \* the state file: name -> offset and crc
    handed,        \* chunks handed on so far (history)
    times,         \* how often each chunk was handed on (history)
    terms, crashes, faults  \* how often, against their bounds

env == <<now, disk, ops>>
bounds == <<terms, crashes, faults>>
local == <<list, todo, hasNew, cur, buf, part>>
history == <<handed, times>>
memory == <<lastScan, ignoreBefore, info, tmp>>
vars == <<env, pc, shutdown, memory, local, saved, history, bounds>>

FInfo == [mtime : Nat, offset : Offset, crc : Word,
          seen : BOOLEAN, collected : BOOLEAN, fcopy : BOOLEAN]
FileStat == [mtime : Nat, data : Content]
SavedLine == [offset : Offset, crc : Word]

(* std::map with some of the names as keys. *)
IsMap(m, S) == DOMAIN m \subseteq File /\ m \in [DOMAIN m -> S]
Put(m, k, v) == [x \in DOMAIN m \union {k} |-> IF x = k THEN v ELSE m[x]]
Without(m, k) == Restrict(m, DOMAIN m \ {k})
NoEntry == [x \in {} |-> 0]

(***************************************************************************)
(* FInfo                                                                   *)
(***************************************************************************)
NewFInfo(mtime, offset, crc) ==
    [mtime |-> mtime, offset |-> offset, crc |-> crc,
     seen |-> FALSE, collected |-> FALSE, fcopy |-> FALSE]

Seen(e) == [e EXCEPT !.seen = TRUE]
Unseen(e) == [e EXCEPT !.seen = FALSE, !.collected = FALSE]
(* seen(false) forgotten. *)
Changed_Slip(e, mtime) ==
    [e EXCEPT !.mtime = mtime, !.collected = FALSE]

Changed(e, mtime) == [Unseen(e) EXCEPT !.mtime = mtime]
Copied(e) == [e EXCEPT !.fcopy = TRUE]
CopyRemoved(e) == [e EXCEPT !.fcopy = FALSE]
(* One past the end. *)
HandedOn_Slip(e, obs) ==
    [e EXCEPT !.offset = Len(obs) + 1, !.crc = Crc(obs), !.collected = TRUE]

HandedOn(e, obs) ==
    [e EXCEPT !.offset = Len(obs), !.crc = Crc(obs), !.collected = TRUE]

ToBeCollected(e) == ~e.collected /\ e.seen /\ e.fcopy

(* Compares lengths only. *)
Appended_Slip(e, obs) == e.offset > 0 /\ e.offset <= Len(obs)

(* getNewObsPart(): what of obs follows the part already handed on.        *)
Appended(e, obs) ==
    /\ e.offset > 0
    /\ e.offset <= Len(obs)
    /\ Crc(SubSeq(obs, 1, e.offset)) = e.crc

NewObsPart(e, obs) ==
    IF Appended(e, obs) THEN SubSeq(obs, e.offset + 1, Len(obs)) ELSE obs

(***************************************************************************)
(* The programs that write the files.  Each write, truncation or touch     *)
(* sets the mtime to the current second.                                   *)
(***************************************************************************)
Init ==
    /\ now = Delay
    /\ disk = NoEntry /\ ops = 0
    /\ pc = "stopped" /\ shutdown = FALSE
    /\ lastScan = 0 /\ ignoreBefore = 0
    /\ list = NoEntry /\ info = NoEntry /\ tmp = NoEntry
    /\ todo = {} /\ cur = {} /\ part = {}
    /\ hasNew = FALSE
    /\ buf = <<>>
    /\ saved = NoEntry
    /\ handed = {} /\ times = [c \in Chunk |-> 0]
    /\ terms = 0 /\ crashes = 0 /\ faults = 0

Tick ==
    /\ now < MaxNow
    /\ now' = now + 1
    /\ UNCHANGED <<disk, ops, pc, shutdown, memory, local, saved, history,
                   bounds>>

(* One operation on the files; none in the last second of the clock.       *)
Operation ==
    /\ ops < MaxOps
    /\ now < MaxNow
    /\ ops' = ops + 1
    /\ UNCHANGED <<now, pc, shutdown, memory, local, saved, history, bounds>>

(* A program keeps the first n chunks and writes a new one behind them.    *)
Write(f) ==
    LET old == IF f \in DOMAIN disk THEN disk[f].data ELSE <<>>
    IN /\ Operation
       /\ \E n \in 0..Len(old) :
            /\ AppendOnly => n = Len(old)
            /\ disk' = Put(disk, f,
                 [mtime |-> now, data |-> Append(SubSeq(old, 1, n), ops + 1)])

Truncate(f) ==
    /\ Operation
    /\ ~AppendOnly
    /\ f \in DOMAIN disk
    /\ disk' = Put(disk, f, [mtime |-> now, data |-> <<>>])

Touch(f) ==
    /\ Operation
    /\ f \in DOMAIN disk
    /\ disk' = Put(disk, f, [mtime |-> now, data |-> disk[f].data])

Delete(f) ==
    /\ Operation
    /\ f \in DOMAIN disk
    /\ disk' = Without(disk, f)

Environment ==
    \/ Tick
    \/ \E f \in File : Write(f) \/ Truncate(f) \/ Touch(f) \/ Delete(f)

(***************************************************************************)
(* Start and end of the daemon.                                            *)
(***************************************************************************)

(* Offset and crc of the state file are not taken over. *)
Start_Slip ==
    /\ pc = "stopped"
    /\ pc' = "idle"
    /\ \E old \in IgnoreOld : ignoreBefore' = IF old THEN now ELSE 0
    /\ info' = [f \in DOMAIN saved \intersect DOMAIN disk |->
                  NewFInfo(disk[f].mtime, 0, 0)]
    /\ UNCHANGED <<env, shutdown, lastScan, tmp, local, saved, history, bounds>>

(* The App constructor and readFInfoList(): the lines of the state file    *)
(* whose file still exists.                                                *)
Start ==
    /\ pc = "stopped"
    /\ pc' = "idle"
    /\ \E old \in IgnoreOld : ignoreBefore' = IF old THEN now ELSE 0
    /\ info' = [f \in DOMAIN saved \intersect DOMAIN disk |->
                  NewFInfo(disk[f].mtime, saved[f].offset, saved[f].crc)]
    /\ UNCHANGED <<env, shutdown, lastScan, tmp, local, saved, history, bounds>>

(* What a process loses when it ends.                                      *)
LoseMemory ==
    /\ pc' = "stopped"
    /\ shutdown' = FALSE
    /\ lastScan' = 0 /\ ignoreBefore' = 0
    /\ info' = NoEntry /\ tmp' = NoEntry
    /\ list' = NoEntry
    /\ todo' = {} /\ cur' = {} /\ part' = {}
    /\ hasNew' = FALSE
    /\ buf' = <<>>

(* SIGTERM or SIGINT only sets a flag.                                     *)
SigTerm ==
    /\ pc # "stopped"
    /\ ~shutdown
    /\ terms < MaxTerms
    /\ shutdown' = TRUE
    /\ terms' = terms + 1
    /\ UNCHANGED <<env, pc, memory, local, saved, history, crashes, faults>>

(* The main loop looks at the flag between two rounds.                     *)
Exit ==
    /\ pc = "idle"
    /\ shutdown
    /\ LoseMemory
    /\ UNCHANGED <<env, saved, history, bounds>>

Crash ==
    /\ pc # "stopped"
    /\ crashes < MaxCrashes
    /\ crashes' = crashes + 1
    /\ LoseMemory
    /\ UNCHANGED <<env, saved, history, terms, faults>>

Fault(call) ==
    /\ call \in Failing
    /\ faults < MaxFaults
    /\ faults' = faults + 1
    /\ UNCHANGED <<terms, crashes>>

(***************************************************************************)
(* checkForNewObservations(): the listing of synopdir, one stat at a time. *)
(***************************************************************************)

(* The delay counts from no scan. *)
Due_Slip == TRUE

(* At MaxNow the clock stands for all later times: a scan is always due.   *)
Due == now - lastScan >= Delay \/ now = MaxNow

StartScan ==
    /\ pc = "idle"
    /\ ~shutdown
    /\ Due
    /\ pc' = "list"
    /\ lastScan' = now
    /\ list' = NoEntry
    /\ todo' = File
    /\ hasNew' = FALSE
    /\ UNCHANGED <<env, shutdown, ignoreBefore, info, tmp, cur, buf, part,
                   saved, history, bounds>>

(* ignoreFilesBefore is not looked at. *)
Listed_Slip(f) == f \in DOMAIN disk

Listed(f) == f \in DOMAIN disk /\ disk[f].mtime >= ignoreBefore

(* A file whose stat fails is left out, like one that has gone.            *)
ListFile(f) ==
    /\ pc = "list"
    /\ f \in todo
    /\ todo' = todo \ {f}
    /\ \/ /\ list' = IF Listed(f) THEN Put(list, f, disk[f].mtime) ELSE list
          /\ UNCHANGED bounds
       \/ /\ f \in DOMAIN disk
          /\ Fault("list")
          /\ UNCHANGED list
    /\ UNCHANGED <<env, pc, shutdown, memory, hasNew, cur, buf, part, saved,
                   history>>

(* The directory cannot be opened: this scan is skipped.                   *)
OpenFails ==
    /\ pc = "list"
    /\ todo = File
    /\ Fault("open")
    /\ pc' = "idle"
    /\ todo' = {}
    /\ UNCHANGED <<env, shutdown, memory, list, hasNew, cur, buf, part, saved,
                   history>>

(* Nothing listed: back to the main loop, fileInfoList as it was.          *)
NothingListed ==
    /\ pc = "list"
    /\ todo = {}
    /\ DOMAIN list = {}
    /\ pc' = "idle"
    /\ UNCHANGED <<env, shutdown, memory, local, saved, history, bounds>>

(* Entries of files that are not listed are erased.                        *)
EraseGone ==
    /\ pc = "list"
    /\ todo = {}
    /\ DOMAIN list # {}
    /\ pc' = "scan"
    /\ info' = Restrict(info, DOMAIN info \intersect DOMAIN list)
    /\ todo' = DOMAIN list
    /\ UNCHANGED <<env, shutdown, lastScan, ignoreBefore, tmp, list, hasNew,
                   cur, buf, part, saved, history, bounds>>

(***************************************************************************)
(* checkForNewObservations(): the loop over the files listed.              *)
(***************************************************************************)
Visit(f) ==
    /\ pc = "scan"
    /\ f \in todo
    /\ UNCHANGED <<env, shutdown, lastScan, ignoreBefore, list, part, saved,
                   history>>

NewEntry(f) ==
    /\ Visit(f)
    /\ f \notin DOMAIN info
    /\ info' = Put(info, f, NewFInfo(list[f], 0, 0))
    /\ todo' = todo \ {f}
    /\ UNCHANGED <<pc, tmp, hasNew, cur, buf, bounds>>

(* mtimeNow() throws: the file has gone, or its stat fails.  Either way    *)
(* the entry is erased.                                                    *)
StatThrows(f) ==
    /\ IF f \in DOMAIN disk THEN Fault("mtime") ELSE UNCHANGED bounds
    /\ info' = Without(info, f)
    /\ tmp' = Without(tmp, f)

(* The time is read again with mtimeNow().                                 *)
NewMtime(f) ==
    /\ Visit(f)
    /\ f \in DOMAIN info
    /\ info[f].mtime # list[f]
    /\ \/ StatThrows(f)
       \/ /\ f \in DOMAIN disk
          /\ info' = Put(info, f, Changed(info[f], disk[f].mtime))
          /\ UNCHANGED <<tmp, bounds>>
    /\ todo' = todo \ {f}
    /\ UNCHANGED <<pc, hasNew, cur, buf>>

SameMtime(f) == f \in DOMAIN info /\ info[f].mtime = list[f]

SeenFirst(f) ==
    /\ Visit(f)
    /\ SameMtime(f)
    /\ ~info[f].seen
    /\ info' = Put(info, f, Seen(info[f]))
    /\ hasNew' = (hasNew \/ ToBeCollected(Seen(info[f])))
    /\ todo' = todo \ {f}
    /\ UNCHANGED <<pc, tmp, cur, buf, bounds>>

SeenCollected(f) ==
    /\ Visit(f)
    /\ SameMtime(f)
    /\ info[f].seen
    /\ info[f].collected
    /\ todo' = todo \ {f}
    /\ UNCHANGED <<pc, info, tmp, hasNew, cur, buf, bounds>>

(* Seen a second time with the same mtime: copyFile().                     *)
StartCopy(f) ==
    /\ Visit(f)
    /\ SameMtime(f)
    /\ info[f].seen
    /\ ~info[f].collected
    /\ pc' = "copy"
    /\ cur' = {f}
    /\ buf' = <<>>
    /\ UNCHANGED <<info, tmp, todo, hasNew, bounds>>

CopyRead(f) ==
    /\ pc = "copy"
    /\ f \in cur
    /\ f \in DOMAIN disk
    /\ Len(buf) < Len(disk[f].data)
    /\ buf' = Append(buf, disk[f].data[Len(buf) + 1])
    /\ UNCHANGED <<env, pc, shutdown, memory, list, todo, hasNew, cur, part,
                   saved, history, bounds>>

EndCopy(f) ==
    /\ pc' = "scan"
    /\ todo' = todo \ {f}
    /\ cur' = {}
    /\ buf' = <<>>
    /\ UNCHANGED <<env, shutdown, lastScan, ignoreBefore, list, part, saved,
                   history>>

(* copyfile fails: the entry is erased, and with it the offset.            *)
CopyFails(f) ==
    /\ pc = "copy"
    /\ f \in cur
    /\ Fault("copy")
    /\ info' = Without(info, f)
    /\ tmp' = Without(tmp, f)
    /\ EndCopy(f)
    /\ UNCHANGED hasNew

(* copyfile has met the end of the file, or the file has gone.             *)
CopyEnds(f) ==
    /\ pc = "copy"
    /\ f \in cur
    /\ f \in DOMAIN disk => Len(buf) >= Len(disk[f].data)
    /\ pc' = "verify"
    /\ UNCHANGED <<env, shutdown, memory, local, saved, history, bounds>>

(* The new mtime is noted, and the copy taken all the same. *)
CopyVerified_Slip(f) ==
    /\ pc = "verify"
    /\ f \in cur
    /\ f \in DOMAIN disk
    /\ info' = Put(info, f, [Copied(info[f]) EXCEPT !.mtime = disk[f].mtime])
    /\ tmp' = Put(tmp, f, buf)
    /\ hasNew' = TRUE
    /\ EndCopy(f)
    /\ UNCHANGED bounds

(* mtimeNow() after the copy: only a file that did not change meanwhile    *)
(* has its copy taken.                                                     *)
CopyVerified(f) ==
    /\ pc = "verify"
    /\ f \in cur
    /\ f \in DOMAIN disk
    /\ disk[f].mtime = info[f].mtime
    /\ info' = Put(info, f, Copied(info[f]))
    /\ tmp' = Put(tmp, f, buf)
    /\ hasNew' = TRUE
    /\ EndCopy(f)
    /\ UNCHANGED bounds

ChangedAfterCopy(f) ==
    /\ pc = "verify"
    /\ f \in cur
    /\ f \in DOMAIN disk
    /\ disk[f].mtime # info[f].mtime
    /\ info' = Put(info, f, Changed(info[f], disk[f].mtime))
    /\ EndCopy(f)
    /\ UNCHANGED <<tmp, hasNew, bounds>>

GoneAfterCopy(f) ==
    /\ pc = "verify"
    /\ f \in cur
    /\ StatThrows(f)
    /\ EndCopy(f)
    /\ UNCHANGED hasNew

EndScan ==
    /\ pc = "scan"
    /\ todo = {}
    /\ pc' = IF hasNew THEN "collect" ELSE "idle"
    /\ todo' = IF hasNew
               THEN {f \in DOMAIN info : ToBeCollected(info[f])}
               ELSE {}
    /\ UNCHANGED <<env, shutdown, memory, list, hasNew, cur, buf, part, saved,
                   history, bounds>>

(***************************************************************************)
(* collectObservations() and doNewObs()                                    *)
(***************************************************************************)
Take(f) ==
    /\ pc = "collect"
    /\ ~shutdown
    /\ f \in todo
    /\ todo' = todo \ {f}
    /\ UNCHANGED <<env, shutdown, lastScan, ignoreBefore, list, hasNew, cur,
                   buf, saved, history>>

Collect(f) ==
    /\ Take(f)
    /\ f \in DOMAIN tmp
    /\ part' = Range(NewObsPart(info[f], tmp[f]))
    /\ info' = Put(info, f, HandedOn(CopyRemoved(info[f]), tmp[f]))
    /\ tmp' = Without(tmp, f)
    /\ pc' = IF part' = {} THEN "collect" ELSE "hand"
    /\ UNCHANGED bounds

(* seen(false) forgotten. *)
ReadFails_Slip(f) ==
    /\ Take(f)
    /\ IF f \in DOMAIN tmp THEN Fault("read") ELSE UNCHANGED bounds
    /\ tmp' = IF Debug THEN tmp ELSE Without(tmp, f)
    /\ UNCHANGED <<info, pc, part>>

(* readFile() of the copy fails.  The copy is unlinked, but the entry's    *)
(* fcopy still names it.                                                   *)
ReadFails(f) ==
    /\ Take(f)
    /\ IF f \in DOMAIN tmp THEN Fault("read") ELSE UNCHANGED bounds
    /\ info' = Put(info, f, Unseen(info[f]))
    /\ tmp' = IF Debug THEN tmp ELSE Without(tmp, f)
    /\ UNCHANGED <<pc, part>>

(* removecopy() forgotten. *)
StatFails_Slip(f) ==
    /\ Take(f)
    /\ f \in DOMAIN tmp
    /\ Fault("stat")
    /\ info' = Put(info, f, Unseen(info[f]))
    /\ tmp' = Without(tmp, f)
    /\ UNCHANGED <<pc, part>>

(* The copy was read, but stat of it fails.                                *)
StatFails(f) ==
    /\ Take(f)
    /\ f \in DOMAIN tmp
    /\ Fault("stat")
    /\ info' = Put(info, f, Unseen(CopyRemoved(info[f])))
    /\ tmp' = Without(tmp, f)
    /\ UNCHANGED <<pc, part>>

(* doNewObs() splits the new part and passes it on piece by piece, ordered *)
(* by report type and not as in the file.                                  *)
Hand(c) ==
    /\ pc = "hand"
    /\ c \in part
    /\ part' = part \ {c}
    /\ handed' = handed \union {c}
    /\ times' = [times EXCEPT ![c] = @ + 1]
    /\ pc' = IF part' = {} THEN "collect" ELSE "hand"
    /\ UNCHANGED <<env, shutdown, memory, list, todo, hasNew, cur, buf, saved,
                   bounds>>

(***************************************************************************)
(* saveFInfoList(): the state file is truncated and written anew, one      *)
(* flushed line at a time.                                                 *)
(***************************************************************************)
Collected == pc = "collect" /\ (todo = {} \/ shutdown)

StartSave ==
    /\ Collected
    /\ pc' = "save"
    /\ saved' = NoEntry
    /\ todo' = DOMAIN info
    /\ UNCHANGED <<env, shutdown, memory, list, hasNew, cur, buf, part,
                   history, bounds>>

(* The state file cannot be opened, or the disk is full from some line on: *)
(* what it holds stays, and nobody looks at the result.                    *)
SaveFails ==
    /\ Collected \/ pc = "save"
    /\ Fault("save")
    /\ pc' = "idle"
    /\ todo' = {}
    /\ UNCHANGED <<env, shutdown, memory, list, hasNew, cur, buf, part, saved,
                   history>>

SaveLine(f) ==
    /\ pc = "save"
    /\ f \in todo
    /\ saved' = Put(saved, f, [offset |-> info[f].offset, crc |-> info[f].crc])
    /\ todo' = todo \ {f}
    /\ UNCHANGED <<env, pc, shutdown, memory, list, hasNew, cur, buf, part,
                   history, bounds>>

EndSave ==
    /\ pc = "save"
    /\ todo = {}
    /\ pc' = "idle"
    /\ UNCHANGED <<env, shutdown, memory, local, saved, history, bounds>>

Scan(f) ==
    \/ ListFile(f)
    \/ NewEntry(f) \/ NewMtime(f) \/ SeenFirst(f) \/ SeenCollected(f)
    \/ StartCopy(f) \/ CopyRead(f) \/ CopyEnds(f)
    \/ CopyVerified(f) \/ ChangedAfterCopy(f) \/ GoneAfterCopy(f)

Failure ==
    \/ OpenFails \/ SaveFails
    \/ \E f \in File : CopyFails(f) \/ ReadFails(f) \/ StatFails(f)

Daemon ==
    \/ Start \/ Exit
    \/ StartScan \/ NothingListed \/ EraseGone \/ EndScan
    \/ StartSave \/ EndSave
    \/ \E f \in File : Scan(f) \/ Collect(f) \/ SaveLine(f)
    \/ \E c \in Chunk : Hand(c)

Next == Environment \/ SigTerm \/ Crash \/ Failure \/ Daemon

Spec == Init /\ [][Next]_vars

(* The daemon is a process the system lets run, and is started again when  *)
(* it has ended; the clock goes on.                                        *)
Fairness == WF_vars(Daemon \/ Failure) /\ WF_vars(Tick)

FairSpec == Spec /\ Fairness

(***************************************************************************)
(* Properties                                                              *)
(***************************************************************************)
TypeOK ==
    /\ now \in 1..MaxNow
    /\ IsMap(disk, FileStat)
    /\ ops \in 0..MaxOps
    /\ pc \in {"stopped", "idle", "list", "scan", "copy", "verify",
               "collect", "hand", "save"}
    /\ shutdown \in BOOLEAN
    /\ lastScan \in 0..MaxNow
    /\ ignoreBefore \in 0..MaxNow
    /\ IsMap(list, Nat)
    /\ IsMap(info, FInfo)
    /\ todo \in SUBSET File
    /\ hasNew \in BOOLEAN
    /\ cur \in SUBSET File
    /\ buf \in Content
    /\ IsMap(tmp, Content)
    /\ part \in SUBSET Chunk
    /\ IsMap(saved, SavedLine)
    /\ handed \in SUBSET Chunk
    /\ times \in [Chunk -> Nat]
    /\ terms \in 0..MaxTerms
    /\ crashes \in 0..MaxCrashes
    /\ faults \in 0..MaxFaults

(* copyFile() takes a copy only of a file that nobody wrote to meanwhile:  *)
(* as long as the file keeps the mtime of its entry, the copy that waits   *)
(* to be collected is the whole file, whatever the writers did while the   *)
(* blocks were copied.                                                     *)
CopyIntact ==
    \A f \in DOMAIN tmp \intersect DOMAIN disk :
        info[f].mtime = disk[f].mtime => tmp[f] = disk[f].data

(* All that is in files whose entry is marked collected, and whose mtime   *)
(* is still that of the entry, is in S.                                    *)
CollectedIn(S) ==
    \A f \in DOMAIN info \intersect DOMAIN disk :
        info[f].collected /\ info[f].mtime = disk[f].mtime
            => Range(disk[f].data) \subseteq S

(* A file whose entry is marked collected, and whose mtime is still that   *)
(* of the entry, holds nothing that was not handed on or is in the part    *)
(* being handed on: comparing mtimes of one second misses no write.        *)
NothingMissed == CollectedIn(handed \union part)

(* An offset and a crc vouch for the chunks in S: every content they match *)
(* starts with chunks of S only, and getNewObsPart() may skip that prefix. *)
Vouches(e, S) ==
    \A s \in Content :
        Len(s) = e.offset /\ Crc(s) = e.crc => Range(s) \subseteq S

(* The state file never claims more than was handed on, at whatever step   *)
(* the daemon is killed: what readFInfoList() finds makes getNewObsPart()  *)
(* skip nothing that was not handed on before the kill.                    *)
PersistedIsHanded ==
    \A f \in DOMAIN saved : Vouches(saved[f], handed)

(* Where files only grow, each kill and each failing call makes the daemon *)
(* hand on an observation once more at most: a failing copy, which forgets *)
(* the offset, or a state file cut short do not repeat what was handed on  *)
(* at every scan or start after it, and SIGTERM and a restart alone repeat *)
(* nothing.                                                                *)
RepeatsAreBounded == \A c \in Chunk : times[c] <= 1 + faults + crashes

(* With ignore_files_before_startup no file last written before the start  *)
(* of this process is copied or collected, though readFInfoList() brings   *)
(* entries of such files back into fileInfoList.                           *)
OldIsLeftAlone ==
    /\ \A f \in DOMAIN tmp : info[f].mtime >= ignoreBefore
    /\ \A f \in DOMAIN info : info[f].collected => info[f].mtime >= ignoreBefore

(* A new observation that checkForNewObservations() announces has a copy   *)
(* to be collected from ("New observation in file: ... A copy of the file  *)
(* is: ...").  After a read of a copy has failed this is not so.           *)
AnnouncedHasCopy ==
    \A f \in DOMAIN info : ToBeCollected(info[f]) => f \in DOMAIN tmp

(* The entry names a copy that is no longer there.                         *)
Stale(f) == f \in DOMAIN info /\ info[f].fcopy /\ f \notin DOMAIN tmp

(* Once the read of its copy has failed, an entry never has one again: the *)
(* missing copy is read again at every scan that finds the file unchanged, *)
(* and seen is reset before copyFile() could be called.  No write to the   *)
(* file ends this, only the end of the entry or of the process does.       *)
StaleStays ==
    [][\A f \in File : Stale(f) => Stale(f)' \/ f \notin DOMAIN info']_vars

(***************************************************************************)
(* The inductive invariant behind CopyIntact, NothingMissed,               *)
(* PersistedIsHanded, OldIsLeftAlone and StaleStays.                       *)
(***************************************************************************)

(* What the loops go over, and how long a file can be.                     *)
Loops ==
    /\ pc \in {"scan", "copy", "verify"} => todo \subseteq DOMAIN list
    /\ pc \in {"copy", "verify"} => cur \subseteq todo \intersect DOMAIN info
    /\ pc \in {"collect", "hand", "save"} => todo \subseteq DOMAIN info
    /\ \A f \in DOMAIN disk : Len(disk[f].data) <= ops

TypeInv == TypeOK /\ Loops

(* Seen twice with one mtime means that the mtime lies before the second   *)
(* of the scan that copies the file, so that any further write shows.      *)
Old(f) == info[f].mtime <= lastScan /\ (info[f].seen => info[f].mtime < lastScan)

Timing ==
    /\ lastScan <= now
    /\ \A f \in DOMAIN disk : disk[f].mtime <= now /\ disk[f].mtime < MaxNow
    /\ \A f \in DOMAIN list : list[f] <= now /\ list[f] < MaxNow
    /\ \A f \in DOMAIN info :
          /\ info[f].mtime <= now
          /\ info[f].mtime < MaxNow
          /\ info[f].seen => info[f].mtime <= lastScan
          /\ info[f].collected => info[f].mtime < lastScan
    /\ pc = "list" => \A f \in DOMAIN info : Old(f)
    /\ pc \in {"scan", "copy", "verify"} =>
          \A f \in todo \intersect DOMAIN info : Old(f)

Same(f) == f \in DOMAIN disk /\ disk[f].mtime = info[f].mtime

(* A copy exists between copyFile() and collectObservations() of one round *)
(* and is complete; the one in the making is a prefix.                     *)
Copying ==
    /\ \A f \in DOMAIN tmp :
          /\ f \in DOMAIN info
          /\ ToBeCollected(info[f])
          /\ info[f].mtime < lastScan
          /\ Same(f) => tmp[f] = disk[f].data
    /\ pc \in {"stopped", "list"} => DOMAIN tmp = {}
    /\ pc \in {"idle", "save"} /\ ~shutdown => DOMAIN tmp = {}
    /\ pc \in {"scan", "copy", "verify"} =>
          DOMAIN tmp \intersect todo = {} /\ (hasNew \/ DOMAIN tmp = {})
    /\ pc \in {"collect", "hand"} => DOMAIN tmp \subseteq todo
    /\ pc \in {"copy", "verify"} => \A f \in cur :
          /\ info[f].seen
          /\ ~info[f].collected
          /\ Same(f) => IsPrefix(buf, disk[f].data)
          /\ cur = {f}
    /\ pc = "verify" => \A f \in cur : Same(f) => buf = disk[f].data

(* Offsets in memory vouch for what was handed on or is about to be, those *)
(* in the state file for what was handed on.                               *)
Covering ==
    /\ pc # "hand" => part = {}
    /\ \A f \in DOMAIN info : Vouches(info[f], handed \union part)
    /\ PersistedIsHanded
    /\ NothingMissed

(* No file with an old mtime is listed, so none is copied.                 *)
LeftAlone ==
    /\ pc = "stopped" => DOMAIN list = {}
    /\ \A f \in DOMAIN list : list[f] >= ignoreBefore
    /\ pc \in {"copy", "verify"} => \A f \in cur : info[f].mtime >= ignoreBefore
    /\ OldIsLeftAlone

(* An entry without a copy is seen, between two rounds, by a daemon that   *)
(* is about to end only; in a round, behind its visit by the scan and in   *)
(* front of the failing read.                                              *)
Trapped ==
    /\ pc = "stopped" => DOMAIN info = {}
    /\ \A f \in DOMAIN info : info[f].fcopy => ~info[f].collected
    /\ pc \in {"copy", "verify"} =>
          \A f \in cur : info[f].seen /\ ~info[f].collected
    /\ \A f \in File : Stale(f) /\ info[f].seen =>
          \/ pc \in {"scan", "copy", "verify"} /\ f \notin todo /\ hasNew
          \/ pc \in {"collect", "hand"} /\ f \in todo
          \/ pc \in {"save", "idle"} /\ shutdown

IInv == TypeInv /\ Timing /\ Copying /\ Covering /\ LeftAlone /\ Trapped

(***************************************************************************)
(* The inductive invariant behind RepeatsAreBounded, for files that only   *)
(* grow or go, and without ignore_files_before_startup.                    *)
(***************************************************************************)
OnDisk(f) == IF f \in DOMAIN disk THEN disk[f].data ELSE <<>>
CopyOf(f) == IF f \in DOMAIN tmp THEN tmp[f] ELSE <<>>
ChunksOf(f) == Range(OnDisk(f)) \union Range(CopyOf(f))

(* How often c has been handed on, or is about to be.                      *)
Given(c) == times[c] + (IF c \in part THEN 1 ELSE 0)

(* Files that only grow: where s and t have a chunk in common they are the *)
(* same file, s at an earlier time.                                        *)
Precedes(s, t) == Range(s) \intersect Range(t) # {} => IsPrefix(s, t)

(* Written once, a chunk is in one place of one file, and of a file with a *)
(* copy only what is in the copy can have been handed on.                  *)
WrittenOnce ==
    /\ \A c \in Chunk : c > ops => Given(c) = 0
    /\ \A f \in File :
          /\ ChunksOf(f) \subseteq 1..ops
          /\ IsInjective(OnDisk(f)) /\ IsInjective(CopyOf(f))
          /\ Precedes(CopyOf(f), OnDisk(f))
          /\ \A g \in File \ {f} : ChunksOf(f) \intersect ChunksOf(g) = {}
          /\ f \in DOMAIN tmp =>
                \A c \in Range(OnDisk(f)) : c \in Range(tmp[f]) \/ Given(c) = 0

Matched(e) == {s \in Content : Len(s) = e.offset /\ Crc(s) = e.crc}

(* What an entry's offset and crc match is written by the first n          *)
(* operations, and a prefix of t or of a file of that name which has gone. *)
Fits(e, t, n) ==
    \A s \in Matched(e) : Range(s) \subseteq 1..n /\ Precedes(s, t)

OffsetsFit ==
    /\ \A f \in DOMAIN info :
          Fits(info[f], OnDisk(f), ops) /\ Fits(info[f], CopyOf(f), ops)
    /\ \A f \in DOMAIN saved : Fits(saved[f], OnDisk(f), ops)

(* What is left of the bound for c, or an entry of map that covers it, so  *)
(* that it is not handed on again.                                         *)
Spare(c) == Given(c) <= faults + crashes
Covered(map, f, c) ==
    Spare(c) \/ (f \in DOMAIN map /\ \E s \in Matched(map[f]) : c \in Range(s))

Counting ==
    /\ ignoreBefore = 0
    /\ \A c \in Chunk : Given(c) <= 1 + faults + crashes
    /\ pc # "stopped" => \A f \in File : \A c \in ChunksOf(f) : Covered(info, f, c)
    /\ pc \notin {"collect", "hand", "save"} =>
          \A f \in File : \A c \in Range(OnDisk(f)) : Covered(saved, f, c)
    /\ pc = "save" => \A f \in DOMAIN info \ todo :
          /\ f \in DOMAIN saved
          /\ saved[f].offset = info[f].offset
          /\ saved[f].crc = info[f].crc
    /\ pc = "list" => \A f \in File \ todo :
          f \in DOMAIN list \/ \A c \in Range(OnDisk(f)) : Spare(c)

RInv == IInv /\ WrittenOnce /\ OffsetsFit /\ Counting
==============================================================================
