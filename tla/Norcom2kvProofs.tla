--------------------------- MODULE Norcom2kvProofs ---------------------------
(***************************************************************************)
(* Theorems about Norcom2kv, for every value of its constants.  They rest  *)
(* on those about its two parts: a step of the daemon is one of Collector  *)
(* or leaves Collector alone, and it is one of Delivery, or leaves         *)
(* Delivery alone, or begins to send a new part.                           *)
(***************************************************************************)
EXTENDS Norcom2kv, CollectorProofs

DP == INSTANCE DeliveryProofs WITH
          Msg <- Chunk, Stubborn <- {}, IgnoreOld <- (IgnoreOld = {TRUE}),
          Failing <- SendFailing \union (Failing \intersect {"save"}),
          pc <- dpc, left <- part, handed <- {}, accepted <- {}

(***************************************************************************)
(* The lemmas of DeliveryProofs, as facts about D                          *)
(***************************************************************************)
(* Delivery is given constants of the kind it assumes.                      *)
LEMMA DeliveryIsInstantiated == DP!DeliveryAssumption
BY BoundsAssumption, Norcom2kvAssumption, SwitchAssumption
   DEF DP!DeliveryAssumption

(* D and DP instantiate the same definitions with the same expressions: the *)
(* states they speak of are the same.                                       *)
LEMMA SameStates ==
  /\ DP!Settled = D!Settled /\ DP!Settled' = D!Settled'
  /\ DP!Kept = D!Kept /\ DP!Kept' = D!Kept'
  /\ DP!Waiting = D!Waiting /\ DP!Waiting' = D!Waiting'
  /\ DP!TypeOK = D!TypeOK /\ DP!TypeOK' = D!TypeOK'
  /\ DP!JobInv = D!JobInv /\ DP!JobInv' = D!JobInv'
BY DEF DP!Settled, D!Settled, DP!Kept, D!Kept, DP!Waiting, D!Waiting,
       DP!TypeOK, D!TypeOK, DP!JobInv, D!JobInv, DP!Server, D!Server,
       DP!Name, D!Name, DP!Job, D!Job, DP!Code, D!Code, DP!SavedFile,
       D!SavedFile, DP!TryToResend, D!TryToResend

(* So are their actions.                                                    *)
LEMMA SameActions ==
  /\ DP!SigTerm = D!SigTerm /\ DP!Crash = D!Crash
  /\ DP!Start = D!Start /\ DP!Exit = D!Exit
  /\ DP!Answer = D!Answer /\ DP!NoAnswer = D!NoAnswer
  /\ DP!NewSent = D!NewSent /\ DP!Save = D!Save
  /\ DP!SaveCut = D!SaveCut /\ DP!NotSaved = D!NotSaved
  /\ DP!SaveFInfoList = D!SaveFInfoList
  /\ DP!StartResend = D!StartResend /\ DP!SavedSent = D!SavedSent
  /\ DP!EndResend = D!EndResend
BY DEF DP!SigTerm, D!SigTerm, DP!Crash, D!Crash, DP!Start, D!Start, DP!Exit,
       D!Exit, DP!LoseMemory, D!LoseMemory, DP!NoJob, D!NoJob, DP!Answer,
       D!Answer, DP!NoAnswer, D!NoAnswer, DP!Called, D!Called, DP!Bad, D!Bad,
       DP!Settles, D!Settles, DP!Codes, D!Codes, DP!Code, D!Code,
       DP!TryToResend, D!TryToResend, DP!Success, D!Success, DP!Answered,
       D!Answered, DP!NewSent, D!NewSent, DP!NextNew, D!NextNew, DP!Save,
       D!Save, DP!SaveCut, D!SaveCut, DP!NotSaved, D!NotSaved, DP!Wrote,
       D!Wrote, DP!WriteFile, D!WriteFile, DP!IsFreeName, D!IsFreeName,
       DP!Name, D!Name, DP!Fault, D!Fault, DP!SaveFInfoList, D!SaveFInfoList,
       DP!StartResend, D!StartResend, DP!Listed, D!Listed, DP!SavedSent,
       D!SavedSent, DP!Unlink, D!Unlink, DP!Restrict, D!Restrict,
       DP!EndResend, D!EndResend, DP!send, D!send, DP!memory, D!memory,
       DP!disk, D!disk, DP!bounds, D!bounds

(* So are those with a message, a part or a file.                           *)
LEMMA SameActionsOn ==
  ASSUME NEW x
  PROVE  /\ DP!TakePart(x) = D!TakePart(x) /\ DP!SendNew(x) = D!SendNew(x)
         /\ DP!ReadFails(x) = D!ReadFails(x)
         /\ DP!FormatError(x) = D!FormatError(x)
         /\ DP!SendSaved(x) = D!SendSaved(x)
BY DEF DP!TakePart, D!TakePart, DP!SendNew, D!SendNew, DP!BeginSend,
       D!BeginSend, DP!ReadFails, D!ReadFails, DP!FormatError, D!FormatError,
       DP!SendSaved, D!SendSaved, DP!Visit, D!Visit, DP!Fault, D!Fault,
       DP!Unlink, D!Unlink, DP!Restrict, D!Restrict, DP!send, D!send,
       DP!disk, D!disk, DP!bounds, D!bounds

(* The steps of Delivery that lose no message, but for taking a new part.   *)
SendStep ==
  \/ D!SigTerm \/ D!Start \/ D!Exit
  \/ D!Answer \/ D!NoAnswer \/ D!NewSent \/ D!Save \/ D!SaveFInfoList
  \/ D!StartResend \/ D!SavedSent \/ D!EndResend
  \/ \E m \in Chunk : D!SendNew(m)
  \/ \E n \in 1..MaxFiles : D!ReadFails(n) \/ D!FormatError(n) \/ D!SendSaved(n)

(* Nothing is being sent, and nothing of a part is left to send, when the   *)
(* collector goes on.                                                       *)
LEMMA NothingWaits ==
  ASSUME D!JobInv, NothingOnItsWay PROVE part = {} /\ D!Waiting = {}
BY DEF D!JobInv, NothingOnItsWay, D!Waiting

(* What is left of a part waits.                                            *)
LEMMA PartWaits == part \subseteq D!Waiting /\ part' \subseteq D!Waiting'
BY DEF D!Waiting

(* What a step does to what is settled and what is kept.                    *)
KeepStep ==
  \/ D!Settled' = D!Settled /\ D!Kept' = D!Kept
  \/ \E m \in Chunk : D!Settled' = D!Settled \union {m} /\ D!Kept' = D!Kept
  \/ \E m \in Chunk : D!Settled' = D!Settled /\ D!Kept' = D!Kept \union {m}
  \/ \E m \in Chunk : /\ m \in D!Settled
                     /\ D!Settled' = D!Settled /\ D!Kept' = D!Kept \ {m}

(* The lemmas of DeliveryProofs, for these steps, a kill, and those that    *)
(* lose a message.                                                          *)
LEMMA SendEffect ==
  ASSUME D!TypeOK, D!JobInv,
         SendStep \/ D!Crash \/ D!SaveCut \/ D!NotSaved
  PROVE  /\ D!TypeOK' /\ D!JobInv'
         /\ KeepStep
         /\ SendStep =>
              D!Waiting \subseteq D!Waiting' \union D!Settled' \union D!Kept'
         /\ D!SaveCut \/ D!NotSaved =>
              /\ D!Settled' = D!Settled /\ D!Kept' = D!Kept
              /\ \E m \in Chunk : /\ job.msg = {m}
                                 /\ D!Waiting \subseteq D!Waiting' \union {m}
<1>1. SendStep => DP!SafeStep
  BY SameActions, SameActionsOn DEF SendStep, DP!SafeStep, DP!Name
<1>2. DP!Next
  BY <1>1, SameActions DEF DP!SafeStep, DP!Next, DP!Daemon
<1>3. DP!TypeOK /\ DP!JobInv
  BY SameStates
<1>4. DP!TypeOK' /\ DP!JobInv'
  BY <1>2, <1>3, DeliveryIsInstantiated, DP!TypeStep, DP!JobStep
<1>5. KeepStep
  <2>1. DP!StepKind
    BY <1>2, <1>3, DeliveryIsInstantiated, DP!StepKinds
  <2> QED BY <2>1, SameStates DEF DP!StepKind, KeepStep
<1>6. DP!SafeStep =>
        DP!Waiting \subseteq DP!Waiting' \union DP!Settled' \union DP!Kept'
  BY <1>3, DeliveryIsInstantiated, DP!WaitingStep
<1>7. DP!SaveCut \/ DP!NotSaved =>
        /\ DP!Settled' = DP!Settled /\ DP!Kept' = DP!Kept
        /\ \E m \in Chunk : /\ job.msg = {m}
                           /\ DP!Waiting \subseteq DP!Waiting' \union {m}
  BY <1>3, DeliveryIsInstantiated, DP!LosingStep
<1> QED BY <1>1, <1>4, <1>5, <1>6, <1>7, SameStates, SameActions

(* A new part waits to be sent.                                             *)
LEMMA TakeEffect ==
  ASSUME D!TypeOK, D!JobInv, part' \in SUBSET Chunk, D!TakePart(part')
  PROVE  /\ D!TypeOK' /\ D!JobInv'
         /\ D!Settled' = D!Settled /\ D!Kept' = D!Kept
         /\ D!Waiting = {}
<1>1. DP!TypeOK /\ DP!JobInv
  BY SameStates
<1>2. DP!TakePart(part')
  BY SameActionsOn
<1>3. /\ DP!TypeOK' /\ DP!JobInv'
      /\ DP!Settled' = DP!Settled /\ DP!Kept' = DP!Kept
      /\ DP!Waiting = {}
  BY <1>1, <1>2, DeliveryIsInstantiated, DP!TakePartStep
<1> QED BY <1>3, SameStates

(***************************************************************************)
(* The steps of the daemon                                                 *)
(***************************************************************************)
CollectorRests == UNCHANGED <<collector, shutdown, part, terms, crashes>>

(* Sending changes nothing that the collector uses.                         *)
LEMMA SendingRests ==
  ASSUME Sending \/ LoseMessage
  PROVE  UNCHANGED <<shutdown, part, terms, crashes>>
<1> USE DEF D!Called, D!Answered, D!Wrote, D!Visit, D!Bad, D!Fault, D!bounds
<1>1. CASE D!Answer \/ D!NoAnswer
  BY <1>1 DEF D!Answer, D!NoAnswer
<1>2. CASE D!NewSent \/ D!SavedSent
  BY <1>2 DEF D!NewSent, D!SavedSent
<1>3. CASE D!Save \/ D!SaveCut \/ D!NotSaved
  BY <1>3 DEF D!Save, D!SaveCut, D!NotSaved
<1>4. CASE D!EndResend
  BY <1>4 DEF D!EndResend
<1>5. ASSUME NEW n \in 1..MaxFiles,
             D!ReadFails(n) \/ D!FormatError(n) \/ D!SendSaved(n)
      PROVE  UNCHANGED <<shutdown, part, terms, crashes>>
  BY <1>5 DEF D!ReadFails, D!FormatError, D!SendSaved
<1> QED
  BY <1>1, <1>2, <1>3, <1>4, <1>5 DEF Sending, LoseMessage

(* Where a step of the daemon belongs: to the collector alone, to sending   *)
(* alone, to both, or to neither.                                           *)
LEMMA StepOfParts ==
  ASSUME D!JobInv, [AllNext]_allvars
  PROVE  \/ /\ [Next]_vars /\ UNCHANGED <<delivery, part, lost>>
            /\ UNCHANGED saved \/ NothingOnItsWay
         \/ [Next]_vars /\ SendStep /\ UNCHANGED <<saved, lost>>
         \/ Crash /\ D!Crash /\ UNCHANGED <<saved, lost>>
         \/ /\ \E f \in File : Collect(f)
            /\ D!TakePart(part') /\ UNCHANGED <<saved, lost>>
         \/ CollectorRests /\ SendStep /\ UNCHANGED lost
         \/ /\ CollectorRests
            /\ D!SaveCut \/ D!NotSaved
            /\ lost' = lost \union job.msg
<1> USE DEF SendStep
<1>1. CASE UNCHANGED allvars
  BY <1>1 DEF allvars, vars, local
<1>2. CASE AllEnvironment
  BY <1>2 DEF AllEnvironment, Environment, Tick, Write, Truncate, Touch, Delete,
              Operation, local, Next
<1>3. CASE SigTermAll
  BY <1>3 DEF SigTermAll, SigTerm, Next
<1>4. CASE CrashAll
  BY <1>4 DEF CrashAll, Crash, ForgetTimers
<1>5. CASE StartAll
  BY <1>5 DEF StartAll, Start, Next, Daemon
<1>6. CASE ExitAll
  BY <1>6 DEF ExitAll, Exit, ForgetTimers, Next, Daemon
<1>7. CASE Round
  BY <1>7 DEF Round, StartScan, vars, local, Next, Daemon
<1>8. CASE Resend
  BY <1>8 DEF Resend, CollectorRests, D!StartResend, D!bounds
<1>9. CASE CollectorAlone
  <2>1. [Next]_vars /\ UNCHANGED <<delivery, lost>> /\ NothingOnItsWay
    BY <1>9 DEF CollectorAlone, Next, Failure, Daemon
  <2>2. UNCHANGED part
    BY <1>9 DEF CollectorAlone, Scan, NothingListed, EraseGone, EndScan,
                StartSave, OpenFails, ListFile, Visit, NewEntry, NewMtime, SeenFirst,
                SeenCollected, StartCopy, CopyRead, EndCopy, CopyEnds,
                CopyVerified, ChangedAfterCopy, GoneAfterCopy, StatThrows,
                Fault, CopyFails, SaveLine, ReadFails, StatFails, local
  <2> QED BY <2>1, <2>2
<1>10. CASE SaveDone
  <2>1. [Next]_vars /\ UNCHANGED <<part, saved, lost>>
    BY <1>10 DEF SaveDone, EndSave, SaveFails, local, Next, Failure, Daemon
  <2>2. D!SaveFInfoList \/ UNCHANGED delivery
    BY <1>10 DEF SaveDone
  <2> QED BY <2>1, <2>2
<1>11. CASE Sending
  BY <1>11, SendingRests DEF Sending, CollectorRests
<1>12. CASE LoseMessage
  BY <1>12, SendingRests DEF LoseMessage, CollectorRests
<1>13. ASSUME NEW f \in File, CollectPart(f)
       PROVE  \/ [Next]_vars /\ UNCHANGED <<delivery, part, saved, lost>>
              \/ Collect(f) /\ D!TakePart(part') /\ UNCHANGED <<saved, lost>>
  BY <1>13, NothingWaits DEF CollectPart, Collect, Take, Next, Daemon
<1>14. ASSUME NEW c \in Chunk, SendChunk(c)
       PROVE  [Next]_vars /\ SendStep /\ UNCHANGED <<saved, lost>>
  BY <1>14 DEF SendChunk, Hand, Next, Daemon
<1> QED
  BY <1>1, <1>2, <1>3, <1>4, <1>5, <1>6, <1>7, <1>8, <1>9, <1>10, <1>11,
     <1>12, <1>13, <1>14 DEF AllNext, AllDaemon

(* Collector's types hold whatever the sending side does.                   *)
LEMMA TypesWhileSending ==
  ASSUME TypeInv, D!TypeOK', CollectorRests PROVE TypeInv'
<1> USE DEF CollectorRests, collector, env, memory, history
<1>1. faults' \in 0..MaxFaults
  BY DEF D!TypeOK
<1>2. TypeOK'
  BY <1>1 DEF TypeInv, TypeOK
<1>3. Loops'
  BY DEF TypeInv, Loops
<1> QED BY <1>2, <1>3 DEF TypeInv

(* Delivery's types and JobInv hold whatever the collector does.            *)
LEMMA TypesWhileCollecting ==
  ASSUME D!TypeOK, D!JobInv, TypeInv', UNCHANGED <<delivery, part>>
  PROVE  /\ D!TypeOK' /\ D!JobInv'
         /\ D!Settled' = D!Settled /\ D!Kept' = D!Kept
         /\ D!Waiting' = D!Waiting
<1> USE DEF delivery
<1>1. /\ shutdown' \in BOOLEAN /\ faults' \in 0..MaxFaults
      /\ terms' \in 0..MaxTerms /\ crashes' \in 0..MaxCrashes
  BY DEF TypeInv, TypeOK
<1>2. D!TypeOK'
  BY <1>1 DEF D!TypeOK
<1>3. /\ D!Settled' = D!Settled /\ D!Kept' = D!Kept
      /\ D!Waiting' = D!Waiting
  BY DEF D!Settled, D!Kept, D!Waiting
<1>4. D!JobInv'
  BY <1>3 DEF D!JobInv
<1> QED BY <1>2, <1>3, <1>4

(* What a step of the daemon does to what is settled, kept, lost and saved, *)
(* in the words of AtLeastOnce.                                             *)
SafeStep ==
  LET kept == D!Kept \union lost
  IN \/ UNCHANGED <<D!Settled, kept>> /\ (UNCHANGED saved \/ D!Waiting = {})
     \/ /\ UNCHANGED saved
        /\ \E m \in Chunk :
             \/ D!Settled' = D!Settled \union {m} /\ kept' = kept
             \/ D!Settled' = D!Settled /\ kept' = kept \union {m}
             \/ m \in D!Settled /\ D!Settled' = D!Settled /\ kept' = kept \ {m}

(* What KeepStep says of what is kept holds with what is lost.              *)
LEMMA KeepIsSafe ==
  ASSUME KeepStep, UNCHANGED <<saved, lost>> PROVE SafeStep
BY DEF KeepStep, SafeStep

(* No step makes an observation unsafe; what waits is safe or goes on       *)
(* waiting, unless the daemon is killed.                                    *)
LEMMA StepEffect ==
  ASSUME TypeInv, D!TypeOK, D!JobInv, [AllNext]_allvars
  PROVE  /\ TypeInv' /\ D!TypeOK' /\ D!JobInv'
         /\ [Next]_vars \/ CollectorRests
         /\ SafeStep
         /\ Crash \/ Safe \union D!Waiting \subseteq Safe' \union D!Waiting'
<1>1. CASE /\ [Next]_vars /\ UNCHANGED <<delivery, part, lost>>
           /\ UNCHANGED saved \/ NothingOnItsWay
  <2>1. TypeInv'
    BY <1>1, TypeInvStep
  <2>2. /\ D!TypeOK' /\ D!JobInv'
        /\ D!Settled' = D!Settled /\ D!Kept' = D!Kept
        /\ D!Waiting' = D!Waiting
    BY <1>1, <2>1, TypesWhileCollecting
  <2>3. SafeStep
    BY <1>1, <2>2, NothingWaits DEF SafeStep
  <2> QED BY <1>1, <2>1, <2>2, <2>3 DEF Safe
<1>2. CASE [Next]_vars /\ SendStep /\ UNCHANGED <<saved, lost>>
  BY <1>2, TypeInvStep, SendEffect, KeepIsSafe DEF Safe, KeepStep
<1>3. CASE Crash /\ D!Crash /\ UNCHANGED <<saved, lost>>
  <2>1. [Next]_vars
    BY <1>3 DEF Next
  <2> QED BY <1>3, <2>1, TypeInvStep, SendEffect, KeepIsSafe
<1>4. ASSUME NEW f \in File, Collect(f), D!TakePart(part'), UNCHANGED <<saved, lost>>
      PROVE  /\ TypeInv' /\ D!TypeOK' /\ D!JobInv' /\ [Next]_vars /\ SafeStep
             /\ Safe \union D!Waiting \subseteq Safe' \union D!Waiting'
  <2>1. [Next]_vars
    BY <1>4 DEF Next, Daemon
  <2>2. TypeInv'
    BY <2>1, TypeInvStep
  <2>3. part' \in SUBSET Chunk
    BY <2>2 DEF TypeInv, TypeOK
  <2>4. /\ D!TypeOK' /\ D!JobInv'
        /\ D!Settled' = D!Settled /\ D!Kept' = D!Kept
        /\ D!Waiting = {}
    BY <1>4, <2>3, TakeEffect
  <2> QED BY <1>4, <2>1, <2>2, <2>4 DEF SafeStep, Safe
<1>5. CASE CollectorRests /\ SendStep /\ UNCHANGED lost
  <2>1. UNCHANGED saved
    BY <1>5 DEF CollectorRests, collector
  <2> QED BY <1>5, <2>1, SendEffect, TypesWhileSending, KeepIsSafe
          DEF Safe, KeepStep
<1>6. CASE /\ CollectorRests
           /\ D!SaveCut \/ D!NotSaved
           /\ lost' = lost \union job.msg
  <2>1. UNCHANGED saved
    BY <1>6 DEF CollectorRests, collector
  <2>2. PICK m \in Chunk : /\ job.msg = {m}
                           /\ D!Waiting \subseteq D!Waiting' \union {m}
    BY <1>6, SendEffect
  <2>3. D!Settled' = D!Settled /\ D!Kept' = D!Kept
    BY <1>6, SendEffect
  <2>4. SafeStep
    BY <1>6, <2>1, <2>2, <2>3 DEF SafeStep
  <2>5. Safe \union D!Waiting \subseteq Safe' \union D!Waiting'
    BY <1>6, <2>2, <2>3 DEF Safe
  <2> QED BY <1>6, <2>4, <2>5, SendEffect, TypesWhileSending
<1> QED BY StepOfParts, <1>1, <1>2, <1>3, <1>4, <1>5, <1>6

(***************************************************************************)
(* What is skipped, and what is collected, is safe                         *)
(***************************************************************************)
(* Safe observations stay so.                                               *)
LEMMA SafeStays == ASSUME SafeStep PROVE Safe \subseteq Safe'
BY DEF SafeStep, Safe

(* Every step keeps offsets, in memory and in the state file, below what is *)
(* safe or on its way.                                                      *)
LEMMA SafeInvStep == SafeInv /\ [AllNext]_allvars => SafeInv'
<1> SUFFICES ASSUME SafeInv, [AllNext]_allvars PROVE SafeInv'
  OBVIOUS
<1> DEFINE S == Safe \union D!Waiting
           T == Safe' \union D!Waiting'
           U == Safe'
<1>1. /\ TypeInv' /\ D!TypeOK' /\ D!JobInv'
      /\ [Next]_vars \/ CollectorRests
      /\ SafeStep
      /\ Crash \/ S \subseteq T
      /\ U \subseteq T
      /\ part' \subseteq T
  BY StepEffect, PartWaits DEF SafeInv
<1>2. /\ \A g \in DOMAIN info : Vouches(info[g], S)
      /\ \A g \in DOMAIN saved : Vouches(saved[g], S)
      /\ \A g \in DOMAIN saved : Vouches(saved[g], U)
  BY <1>1, SafeStays, VouchesMore DEF SafeInv
<1>3. \A g \in DOMAIN info' : Vouches(info'[g], T)
  <2> HIDE DEF S, T
  <2>1. CASE [Next]_vars
    BY <1>1, <1>2, <2>1, VouchStep DEF SafeInv
  <2>2. CASE CollectorRests
    <3>1. info' = info /\ ~Crash
      BY <1>2, <2>2 DEF CollectorRests, collector, memory, Crash, SafeInv,
                        TypeInv, TypeOK
    <3> QED BY <1>1, <1>2, <3>1, VouchesMore
  <2> QED BY <1>1, <2>1, <2>2
<1>4. \A g \in DOMAIN saved' : Vouches(saved'[g], U)
  <2>1. CASE UNCHANGED saved
    BY <1>2, <2>1
  <2>2. CASE ~UNCHANGED saved
    <3>1. [Next]_vars /\ D!Waiting = {}
      BY <1>1, <2>2 DEF CollectorRests, collector, SafeStep
    <3>2. S \subseteq U
      BY <1>1, <3>1, SafeStays
    <3>3. \A g \in DOMAIN info : Vouches(info[g], U)
      BY <1>2, <3>2, VouchesMore
    <3> HIDE DEF S, U
    <3> QED BY <1>2, <3>1, <3>3, LineStep DEF SafeInv
  <2> QED BY <2>1, <2>2
<1> QED BY <1>1, <1>3, <1>4 DEF SafeInv

(* Every step keeps what is known of mtimes and copies, and what files hold *)
(* that are collected is safe or on its way.                                *)
LEMMA CollectedStays ==
  ASSUME NoStaleCopy PROVE NInv /\ [AllNext]_allvars => NInv'
<1> SUFFICES ASSUME NInv, [AllNext]_allvars PROVE NInv'
  OBVIOUS
<1> DEFINE S == Safe \union D!Waiting
           T == Safe' \union D!Waiting'
<1>1. /\ [Next]_vars \/ CollectorRests
      /\ SafeStep
      /\ Crash \/ S \subseteq T
      /\ part' \subseteq T
  BY StepEffect, PartWaits DEF NInv, SafeInv
<1>2. SafeInv'
  BY SafeInvStep DEF NInv
<1>3. CASE [Next]_vars
  <2>1. TypeInv /\ TypeInv'
    BY <1>2 DEF NInv, SafeInv
  <2>2. Timing' /\ Copying'
    BY <1>3, <2>1, TimingStep, CopyingStep DEF NInv
  <2>3. /\ \A g \in DOMAIN info : Vouches(info[g], S)
        /\ CollectedIn(S)
    BY DEF NInv, SafeInv, CollectedIsSafe
  <2>4. ASSUME NEW g \in DOMAIN info' \intersect DOMAIN disk',
               info'[g].collected, info'[g].mtime = disk'[g].mtime
        PROVE  Range(disk'[g].data) \subseteq T
    <3> HIDE DEF S, T
    <3> QED BY <1>1, <1>3, <2>1, <2>3, <2>4, CollectedStep DEF NInv
  <2> QED BY <1>2, <2>2, <2>4 DEF NInv, CollectedIsSafe, CollectedIn
<1>4. CASE CollectorRests
  <2> USE DEF CollectorRests, collector, env, memory
  <2>1. S \subseteq T
    BY <1>1, <1>4 DEF Crash, NInv, SafeInv, TypeInv, TypeOK
  <2>2. Timing'
    BY <1>4 DEF NInv, Timing, Old
  <2>3. Copying'
    BY <1>4 DEF NInv, Copying, Same
  <2>4. CollectedIsSafe'
    BY <1>4, <2>1 DEF NInv, CollectedIsSafe, CollectedIn
  <2> QED BY <1>2, <2>2, <2>3, <2>4 DEF NInv
<1> QED BY <1>1, <1>3, <1>4

(***************************************************************************)
(* The theorems                                                            *)
(***************************************************************************)
(* When nothing has run yet, there are no entries and no lines to vouch.    *)
LEMMA SafeInvInit == AllInit => SafeInv
<1> SUFFICES ASSUME AllInit PROVE SafeInv
  OBVIOUS
<1>1. TypeInv
  BY TypeInvInit DEF AllInit
<1>2. DP!Init => DP!TypeOK
  BY DeliveryIsInstantiated, DP!InitTypeOK
<1>3. DP!Init
  BY DEF AllInit, Init, DP!Init, D!NoJob, DP!NoJob, NoEntry, DP!Server
<1>4. D!TypeOK
  BY <1>2, <1>3, SameStates
<1>5. D!JobInv
  BY DEF AllInit, Init, D!JobInv, D!NoJob
<1>6. DOMAIN info = {} /\ DOMAIN saved = {}
  BY DEF AllInit, Init, NoEntry
<1> QED BY <1>1, <1>4, <1>5, <1>6 DEF SafeInv

(* SafeInv holds of every behaviour of the daemon, whatever fails.          *)
THEOREM OffsetsAreSafe == AllSpec => []SafeInv
BY SafeInvInit, SafeInvStep, PTL DEF AllSpec

(* An offset of the state file that vouches for what is safe makes the next *)
(* start skip nothing else.                                                 *)
LEMMA VouchedIsSkipped == SafeInv => SkippedIsSafe
BY DEF SafeInv, SkippedIsSafe, Skipped, Vouches

(* saveFInfoList(), writeFile() and tryToSendSavedObservations() together:  *)
(* wherever the daemon is killed, and whatever calls fail, what the state   *)
(* file lets the next start skip is settled by a server, in a whole file of *)
(* data2kv, or one of those whose write to data2kv has failed.              *)
THEOREM NothingSkippedIsLost == AllSpec => []SkippedIsSafe
BY OffsetsAreSafe, VouchedIsSkipped, PTL

(* Each step of the daemon is one of AtLeastOnce, or changes nothing that   *)
(* AtLeastOnce speaks of.                                                   *)
LEMMA DaemonRefines ==
  ASSUME SafeInv, SkippedIsSafe', [AllNext]_allvars PROVE [ALO!Next]_(ALO!vars)
<1> USE DEF ALO!Next, ALO!Settle, ALO!Keep, ALO!Release, ALO!Accept, ALO!vars
<1> DEFINE kept == D!Kept \union lost
<1>1. SafeStep
  BY StepEffect DEF SafeInv
<1>2. CASE /\ UNCHANGED saved
           /\ \E m \in Chunk :
                \/ D!Settled' = D!Settled \union {m} /\ kept' = kept
                \/ D!Settled' = D!Settled /\ kept' = kept \union {m}
                \/ m \in D!Settled /\ D!Settled' = D!Settled /\ kept' = kept \ {m}
  BY <1>2 DEF Skipped
<1>3. CASE UNCHANGED <<D!Settled, kept>>
  <2>1. Skipped' \subseteq D!Settled \union kept
    BY <1>3 DEF SkippedIsSafe, Safe
  <2>2. Skipped' \in SUBSET Chunk
    BY ContentIsSeq DEF Skipped, Range
  <2> QED BY <1>3, <2>1, <2>2
<1> QED BY <1>1, <1>2, <1>3 DEF SafeStep

(* The daemon implements AtLeastOnce, from the files of synopdir to the     *)
(* servers.                                                                 *)
THEOREM DaemonImplements == AllSpec => ImplementsAtLeastOnce
<1>1. AllInit => ALO!Init
  BY DEF AllInit, Init, ALO!Init, D!Settled, D!Kept, Skipped, NoEntry, D!Server
<1>2. SafeInv /\ SkippedIsSafe' /\ [AllNext]_allvars => [ALO!Next]_(ALO!vars)
  BY DaemonRefines
<1> QED
  BY <1>1, <1>2, OffsetsAreSafe, NothingSkippedIsLost, PTL
  DEF AllSpec, ImplementsAtLeastOnce, ALO!Spec

(* NInv, what the collector knows of mtimes and copies and both parts know  *)
(* of what is safe, is an invariant of the whole daemon: an entry whose     *)
(* copy is taken is collected only when its part is on its way.             *)
THEOREM PartsFitTogether ==
  ASSUME NoStaleCopy PROVE AllSpec => []NInv
<1>1. AllInit => NInv
  <2> SUFFICES ASSUME AllInit PROVE NInv
    OBVIOUS
  <2>1. Init
    BY DEF AllInit
  <2>2. Timing /\ Copying
    BY <2>1, ClockAssumption DEF Init, Timing, Copying, NoEntry
  <2>3. CollectedIsSafe
    BY <2>1 DEF Init, CollectedIsSafe, CollectedIn, NoEntry
  <2> QED BY <2>2, <2>3, SafeInvInit DEF NInv
<1>2. NInv /\ [AllNext]_allvars => NInv'
  BY CollectedStays
<1> QED BY <1>1, <1>2, PTL DEF AllSpec

(* collectObservations() marks a file collected before its observations are *)
(* sent, and later scans pass it over as long as its mtime stays: none of   *)
(* them is forgotten on the way, whatever a failing save, a bad answer or a *)
(* signal makes of it.                                                      *)
THEOREM NothingCollectedIsLost ==
  ASSUME NoStaleCopy PROVE AllSpec => []CollectedIsSafe
<1>1. NInv => CollectedIsSafe
  BY DEF NInv
<1> QED BY <1>1, PartsFitTogether, PTL
==============================================================================
