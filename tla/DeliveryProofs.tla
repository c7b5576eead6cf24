---------------------------- MODULE DeliveryProofs ----------------------------
(* Theorems about Delivery, for every value of its constants. *)
EXTENDS Delivery, FiniteSetTheorems, TLAPS

(***************************************************************************)
(* What is settled and what is kept                                        *)
(***************************************************************************)
(* A message that one server has settled is settled.                        *)
LEMMA SettledBy ==
  ASSUME NEW m PROVE m \in Settled <=> \E s \in Server : m \in settled[s]
BY DEF Settled

(* A message is kept if a whole file of data2kv has it.                     *)
LEMMA KeptBy ==
  ASSUME NEW m
  PROVE  m \in Kept <=>
         \E n \in DOMAIN files : files[n].text = "whole" /\ files[n].msg = m
BY DEF Kept

(* A server that settles a message adds it to what is settled.              *)
LEMMA SettlesAdds ==
  ASSUME TypeOK, Settles, job.server \in Server
  PROVE  /\ settled' \in [Server -> SUBSET Msg]
         /\ Settled' = IF job.whole THEN Settled \union job.msg ELSE Settled
<1> DEFINE s0 == job.server
<1>1. /\ settled \in [Server -> SUBSET Msg]
      /\ job.msg \in SUBSET Msg
  BY DEF TypeOK, Job
<1>2. CASE job.whole
  <2>1. settled' = [settled EXCEPT ![s0] = settled[s0] \union job.msg]
    BY <1>2 DEF Settles
  <2>2. settled' \in [Server -> SUBSET Msg]
    BY <1>1, <2>1
  <2>3. \A s \in Server : settled'[s] = IF s = s0 THEN settled[s] \union job.msg
                                       ELSE settled[s]
    BY <1>1, <2>1
  <2>4. Settled' = UNION {settled'[s] : s \in Server}
    BY DEF Settled
  <2>5. ASSUME NEW x \in Settled' PROVE x \in Settled \union job.msg
    <3>1. PICK s \in Server : x \in settled'[s]
      BY <2>4, <2>5
    <3>2. x \in settled[s] \/ x \in job.msg
      BY <2>3, <3>1
    <3> QED BY <3>2, SettledBy
  <2>6. ASSUME NEW x \in Settled PROVE x \in Settled'
    <3>1. PICK s \in Server : x \in settled[s]
      BY <2>6, SettledBy
    <3>2. x \in settled'[s]
      BY <2>3, <3>1
    <3> QED BY <2>4, <3>2
  <2>7. job.msg \subseteq Settled'
    <3>1. settled'[s0] = settled[s0] \union job.msg
      BY <2>3
    <3> QED BY <2>4, <3>1
  <2>8. Settled' = Settled \union job.msg
    BY <2>5, <2>6, <2>7
  <2> QED BY <1>2, <2>2, <2>8
<1>3. CASE ~job.whole
  <2>1. settled' = settled
    BY <1>1, <1>3 DEF Settles
  <2> QED BY <1>1, <1>3, <2>1 DEF Settled
<1> QED BY <1>2, <1>3

(* A file written under a free name adds its message to what is kept, if    *)
(* all of it is there, and leaves the other files alone.                    *)
LEMMA WriteFileAdds ==
  ASSUME TypeOK, NEW text \in {"whole", "cut", "headless"}, WriteFile(text)
  PROVE  /\ DOMAIN files' \in SUBSET Name
         /\ files' \in [DOMAIN files' -> SavedFile]
         /\ DOMAIN files \subseteq DOMAIN files'
         /\ \E m \in job.msg \ Slashed :
              Kept' = IF text = "whole" THEN Kept \union {m} ELSE Kept
<1>1. PICK m \in job.msg \ Slashed, new \in Name :
        /\ IsFreeName(new)
        /\ files' = [n \in DOMAIN files \union {new} |->
                       IF n = new
                       THEN [msg |-> m, text |-> text, old |-> FALSE]
                       ELSE files[n]]
  BY DEF WriteFile
<1> DEFINE f == [msg |-> m, text |-> text, old |-> FALSE]
<1>2. m \in Msg /\ new \notin DOMAIN files
  BY <1>1 DEF TypeOK, Job, IsFreeName
<1>3. f \in SavedFile
  BY <1>2 DEF SavedFile
<1>4. /\ DOMAIN files' = DOMAIN files \union {new}
      /\ files'[new] = f
      /\ \A n \in DOMAIN files : files'[n] = files[n]
  BY <1>1, <1>2
<1>5. DOMAIN files' \in SUBSET Name /\ files' \in [DOMAIN files' -> SavedFile]
  BY <1>1, <1>3 DEF TypeOK
<1>6. Kept' = {files'[n].msg : n \in {n \in DOMAIN files' : files'[n].text = "whole"}}
  BY DEF Kept
<1>7. Kept' = IF text = "whole" THEN Kept \union {m} ELSE Kept
  BY <1>2, <1>4, <1>6 DEF Kept
<1> QED BY <1>1, <1>4, <1>5, <1>7

(* Unlinking files leaves the others alone.                                 *)
LEMMA UnlinkTypes ==
  ASSUME TypeOK, NEW S, Unlink(S)
  PROVE  /\ DOMAIN files' = DOMAIN files \ S
         /\ DOMAIN files' \in SUBSET Name
         /\ files' \in [DOMAIN files' -> SavedFile]
         /\ \A k \in DOMAIN files' : files'[k] = files[k]
<1>1. files' = [k \in DOMAIN files \ S |-> files[k]]
  BY DEF Unlink, Restrict
<1>2. files \in [DOMAIN files -> SavedFile] /\ DOMAIN files \in SUBSET Name
  BY DEF TypeOK
<1>3. \A k \in DOMAIN files \ S : files[k] \in SavedFile
  BY <1>2
<1> QED BY <1>1, <1>2, <1>3

(* A file that is unlinked takes at most its own message from what is kept, *)
(* and none if it was not whole.                                            *)
LEMMA UnlinkRemoves ==
  ASSUME TypeOK, NEW n \in DOMAIN files, Unlink({n})
  PROVE  /\ Kept' \subseteq Kept
         /\ Kept \ {files[n].msg} \subseteq Kept'
         /\ files[n].text # "whole" => Kept' = Kept
<1>1. /\ DOMAIN files' = DOMAIN files \ {n}
      /\ \A k \in DOMAIN files' : files'[k] = files[k]
  BY UnlinkTypes
<1>2. Kept' = {files'[k].msg : k \in {k \in DOMAIN files' : files'[k].text = "whole"}}
  BY DEF Kept
<1>3. Kept' \subseteq Kept
  BY <1>1, <1>2 DEF Kept
<1>4. Kept \ {files[n].msg} \subseteq Kept'
  BY <1>1, <1>2 DEF Kept
<1>5. files[n].text # "whole" => Kept' = Kept
  BY <1>1, <1>2 DEF Kept
<1> QED BY <1>3, <1>4, <1>5

(***************************************************************************)
(* Types                                                                   *)
(***************************************************************************)
(* The daemon is started in a state of the right type.                      *)
LEMMA InitTypeOK == Init => TypeOK
<1> SUFFICES ASSUME Init PROVE TypeOK
  OBVIOUS
<1>1. 1 \in Server /\ 1 \in 1..(NServers + 1) /\ MaxFiles \in Nat
  BY DeliveryAssumption DEF DeliveryAssumption, Server
<1>2. 0 \in 0..MaxBad /\ 0 \in 0..MaxFaults /\ 0 \in 0..MaxTerms /\ 0 \in 0..MaxCrashes
  BY DeliveryAssumption DEF DeliveryAssumption
<1>3. NoJob \in Job
  BY <1>1 DEF NoJob, Job
<1>4. DOMAIN files = {} /\ files \in [DOMAIN files -> SavedFile]
  BY DEF Init
<1>5. settled \in [Server -> SUBSET Msg]
  BY DEF Init
<1> QED BY <1>2, <1>3, <1>4, <1>5 DEF Init, TypeOK

(* After a call to a server sendDataToKvalobs() goes on with the next one,  *)
(* or is done.                                                              *)
LEMMA CalledFields ==
  ASSUME TypeOK, JobInv, Called
  PROVE  /\ job' \in Job
         /\ job'.msg = job.msg /\ job'.file = job.file /\ job'.whole = job.whole
         /\ job'.server = job.server + 1
         /\ job.server \in Server
         /\ pc' \in {"call", "answer"}
         /\ pc' = "call" => job'.server \in Server
<1>1. job \in Job /\ job.server \in Server /\ NServers \in Nat
  BY DeliveryAssumption DEF TypeOK, JobInv, Called, DeliveryAssumption
<1>2. job' = [job EXCEPT !.server = job.server + 1]
  BY DEF Called
<1>3. /\ job.server + 1 \in 1..(NServers + 1)
      /\ job.server # NServers => job.server + 1 \in 1..NServers
  BY <1>1 DEF Server
<1>4. job' \in Job
  BY <1>1, <1>2, <1>3 DEF Job
<1>5. /\ job'.msg = job.msg /\ job'.file = job.file /\ job'.whole = job.whole
      /\ job'.server = job.server + 1
  BY <1>1, <1>2 DEF Job
<1> QED BY <1>1, <1>3, <1>4, <1>5 DEF Called, Server

(* The job BeginSend() sets up.                                             *)
LEMMA BeginSendFields ==
  ASSUME NEW m \in Msg, NEW file \in SUBSET Name, NEW whole \in BOOLEAN,
         BeginSend(m, file, whole)
  PROVE  /\ job' \in Job
         /\ job'.msg = {m} /\ job'.file = file /\ job'.whole = whole
         /\ job'.server = 1 /\ 1 \in Server
         /\ pc' = "call" /\ res' = "INIT"
<1>1. NServers \in Nat \ {0}
  BY DeliveryAssumption DEF DeliveryAssumption
<1>2. 1 \in 1..(NServers + 1) /\ 1 \in Server
  BY <1>1 DEF Server
<1> QED BY <1>2 DEF BeginSend, Job

(* A new part of a file: nothing is being sent when it is taken, and all of *)
(* it waits then.                                                           *)
LEMMA TakePartStep ==
  ASSUME TypeOK, JobInv, NEW S \in SUBSET Msg, TakePart(S),
         handed' \in SUBSET Msg
  PROVE  /\ TypeOK' /\ JobInv'
         /\ Settled' = Settled /\ Kept' = Kept
         /\ Waiting = {} /\ Waiting' = S
<1> USE DEF TakePart, send, disk, bounds
<1>1. TypeOK'
  BY DEF TypeOK
<1>2. JobInv'
  BY DEF JobInv
<1>3. Settled' = Settled /\ Kept' = Kept
  BY DEF Settled, Kept
<1>4. Waiting = {} /\ Waiting' = S
  BY DEF Waiting, JobInv
<1> QED BY <1>1, <1>2, <1>3, <1>4

(* SomeNew takes a part, and counts its messages as handed on.              *)
LEMMA SomeNewTakes ==
  ASSUME TypeOK, SomeNew
  PROVE  \E S \in SUBSET Msg :
           TakePart(S) /\ handed' = handed \union S /\ handed' \in SUBSET Msg
BY DEF SomeNew, TakeNew, TypeOK

(* Every step keeps the types.                                              *)
LEMMA TypeStep == TypeOK /\ JobInv /\ [Next]_vars => TypeOK'
<1> USE DEF TypeOK
<1> SUFFICES ASSUME TypeOK, JobInv, [Next]_vars PROVE TypeOK'
  OBVIOUS
<1>0. 1 \in 1..(NServers + 1) /\ MaxFiles \in Nat /\ NServers \in Nat
      /\ MaxBad \in Nat /\ MaxFaults \in Nat /\ MaxTerms \in Nat /\ MaxCrashes \in Nat
  BY DeliveryAssumption DEF DeliveryAssumption
<1>1. NoJob \in Job
  BY <1>0 DEF NoJob, Job
<1>2. CASE UNCHANGED vars
  BY <1>2 DEF vars, memory, send, disk, bounds
<1>3. CASE SigTerm
  BY <1>0, <1>3 DEF SigTerm, memory, send, disk, bounds
<1>4. CASE Crash
  <2>1. crashes' \in 0..MaxCrashes /\ UNCHANGED <<bad, faults, terms>>
    BY <1>0, <1>4 DEF Crash
  <2>2. /\ pc' = "stopped" /\ shutdown' = FALSE /\ handed' = {} /\ left' = {}
        /\ round' = {} /\ job' \in Job /\ res' = "INIT" /\ up' = TRUE
        /\ UNCHANGED settled
    BY <1>1, <1>4 DEF Crash, LoseMemory
  <2>3. CASE UNCHANGED disk
    BY <2>1, <2>2, <2>3 DEF disk
  <2>4. ASSUME NEW text \in {"whole", "cut", "headless"}, WriteFile(text),
               UNCHANGED accepted
        PROVE  TypeOK'
    BY <2>1, <2>2, <2>4, WriteFileAdds
  <2>5. CASE accepted' \in SUBSET handed /\ UNCHANGED files
    BY <2>1, <2>2, <2>5
  <2> QED BY <1>4, <2>3, <2>4, <2>5 DEF Crash
<1>5. CASE Start
  BY <1>5 DEF Start, send, bounds, SavedFile
<1>6. CASE Exit
  BY <1>1, <1>6 DEF Exit, LoseMemory, disk, bounds
<1>7. CASE Answer
  <2>1. res' \in Code /\ bad' \in 0..MaxBad /\ UNCHANGED <<faults, terms, crashes>>
    BY <1>0, <1>7 DEF Answer, Codes, Code, Bad, bounds
  <2>2. settled' \in [Server -> SUBSET Msg]
    BY <1>7, CalledFields, SettlesAdds DEF Answer
  <2>3. UNCHANGED <<shutdown, handed, left, round, up, disk>>
    BY <1>7 DEF Answer, Called
  <2> QED BY <1>7, <2>1, <2>2, <2>3, CalledFields DEF Answer, disk
<1>8. CASE NoAnswer
  <2>1. res' \in Code \union {"INIT"} /\ bad' \in 0..MaxBad
        /\ UNCHANGED <<faults, terms, crashes>>
    BY <1>0, <1>8 DEF NoAnswer, Code, Bad
  <2>2. settled' \in [Server -> SUBSET Msg]
    BY <1>8, CalledFields, SettlesAdds DEF NoAnswer
  <2>3. UNCHANGED <<shutdown, handed, left, round, up, disk>>
    BY <1>8 DEF NoAnswer, Called
  <2> QED BY <1>8, <2>1, <2>2, <2>3, CalledFields DEF NoAnswer, disk
<1>9. CASE SomeNew
  BY <1>9, SomeNewTakes, TakePartStep
<1>10. CASE NewSent
  BY <1>10 DEF NewSent, Answered, send, bounds, NextNew
<1>11. CASE Save
  BY <1>11, WriteFileAdds DEF Save, Wrote, send, bounds, NextNew
<1>12. CASE SaveCut
  BY <1>0, <1>12, WriteFileAdds DEF SaveCut, Wrote, send, Fault, NextNew
<1>13. CASE NotSaved
  BY <1>0, <1>13 DEF NotSaved, Wrote, send, bounds, Fault, NextNew
<1>14. CASE SaveFInfoList
  BY <1>0, <1>14 DEF SaveFInfoList, memory, send, bounds, Fault
<1>15. ASSUME NEW m \in Msg, SendNew(m) PROVE TypeOK'
  BY <1>0, <1>15 DEF SendNew, BeginSend, disk, bounds, Job
<1>16. CASE StartResend
  BY <1>16 DEF StartResend, Listed, send, disk, bounds
<1>17. CASE SavedSent
  BY <1>17, UnlinkTypes DEF SavedSent, Answered, send, bounds
<1>18. CASE EndResend
  BY <1>18 DEF EndResend, send, disk, bounds
<1>19. ASSUME NEW n \in Name, ReadFails(n) PROVE TypeOK'
  BY <1>0, <1>19 DEF ReadFails, Visit, Fault, send
<1>20. ASSUME NEW n \in Name, FormatError(n) PROVE TypeOK'
  BY <1>20, UnlinkTypes DEF FormatError, Visit, send, bounds
<1>21. ASSUME NEW n \in Name, SendSaved(n) PROVE TypeOK'
  <2>1. files[n] \in SavedFile
    BY <1>21 DEF SendSaved, Visit, JobInv
  <2>2. files[n].msg \in Msg /\ {n} \in SUBSET Name
        /\ (files[n].text = "whole") \in BOOLEAN
    BY <2>1 DEF SavedFile
  <2>3. job' \in Job /\ pc' = "call" /\ res' = "INIT"
    BY <1>21, <2>2, BeginSendFields DEF SendSaved
  <2>4. /\ round' \in SUBSET Name
        /\ UNCHANGED <<shutdown, handed, left, up, accepted, settled, files, bounds>>
    BY <1>21 DEF SendSaved, Visit
  <2> QED BY <2>3, <2>4 DEF bounds
<1> QED
  BY <1>2, <1>3, <1>4, <1>5, <1>6, <1>7, <1>8, <1>9, <1>10, <1>11, <1>12,
     <1>13, <1>14, <1>15, <1>16, <1>17, <1>18, <1>19, <1>20, <1>21
     DEF Next, Daemon

(***************************************************************************)
(* The message being sent                                                  *)
(***************************************************************************)
(* One answer, or none, settles the message or nothing.                     *)
LEMMA CallSettles ==
  ASSUME TypeOK, JobInv, Answer \/ NoAnswer
  PROVE  Settled' = Settled \/ (job.whole /\ Settled' = Settled \union job.msg)
<1>1. Called /\ (UNCHANGED settled \/ Settles)
  BY DEF Answer, NoAnswer
<1>2. job.server \in Server
  BY <1>1, CalledFields
<1> QED BY <1>1, <1>2, SettlesAdds DEF Settled

(* Every step keeps what is known of the message being sent.                *)
LEMMA JobStep == TypeOK /\ JobInv /\ [Next]_vars => JobInv'
<1> SUFFICES ASSUME TypeOK, JobInv, [Next]_vars PROVE JobInv'
  OBVIOUS
<1>1. NoJob.file = {} /\ NoJob.whole
  BY DEF NoJob
<1>2. CASE UNCHANGED vars
  BY <1>2 DEF vars, memory, send, disk, JobInv, Settled
<1>3. CASE SigTerm
  BY <1>3 DEF SigTerm, memory, send, disk, JobInv, Settled
<1>4. CASE pc' = "stopped" /\ LoseMemory
  BY <1>1, <1>4 DEF LoseMemory, JobInv
<1>5. CASE Start
  BY <1>5 DEF Start, send, JobInv
<1>7. CASE Answer
  <2>1. res' \in Code
    BY <1>7 DEF Answer, Codes, Code
  <2>2. /\ Settled \subseteq Settled'
        /\ job.whole /\ res' \notin TryToResend => job.msg \subseteq Settled'
    BY <1>7, CallSettles, SettlesAdds, CalledFields DEF Answer
  <2>3. UNCHANGED <<left, round, files>> /\ pc = "call"
    BY <1>7 DEF Answer, Called, disk
  <2> QED BY <1>7, <2>1, <2>2, <2>3, CalledFields DEF Answer, JobInv, Code
<1>8. CASE NoAnswer
  <2>1. res' = IF job.server = 1 THEN "ERROR" ELSE res
    BY <1>8 DEF NoAnswer
  <2>2. Settled \subseteq Settled'
    BY <1>8, CallSettles
  <2>3. UNCHANGED <<left, round, files>> /\ pc = "call"
    BY <1>8 DEF NoAnswer, Called, disk
  <2> QED BY <1>8, <2>1, <2>2, <2>3, CalledFields DEF NoAnswer, JobInv, TryToResend
<1>9. CASE SomeNew
  BY <1>9, SomeNewTakes, TakePartStep
<1>10. CASE NewSent
  BY <1>10 DEF NewSent, Answered, send, NextNew, JobInv
<1>11. ASSUME NEW text \in {"whole", "cut", "headless"}, Wrote, WriteFile(text)
       PROVE  JobInv'
  BY <1>11, WriteFileAdds DEF Wrote, send, NextNew, JobInv
<1>13. CASE NotSaved
  BY <1>13 DEF NotSaved, Wrote, send, NextNew, JobInv
<1>14. CASE SaveFInfoList
  BY <1>14 DEF SaveFInfoList, memory, send, JobInv
<1>15. ASSUME NEW m \in Msg, SendNew(m) PROVE JobInv'
  BY <1>15, BeginSendFields DEF SendNew, JobInv, disk
<1>16. CASE StartResend
  BY <1>16 DEF StartResend, Listed, send, disk, JobInv
<1>17. CASE SavedSent
  <2>1. /\ pc = "answer" /\ pc' = "resend" /\ round' \subseteq round
        /\ left = {} /\ UNCHANGED <<left, job, res>>
    BY <1>17 DEF SavedSent, Answered, send, JobInv
  <2>2. PICK n \in DOMAIN files \ round : job.file = {n}
    BY <1>17, <2>1 DEF SavedSent, JobInv
  <2>3. DOMAIN files \ {n} \subseteq DOMAIN files'
    BY <1>17, <2>2, UnlinkTypes DEF SavedSent
  <2>4. round' \subseteq DOMAIN files'
    BY <2>1, <2>2, <2>3 DEF JobInv
  <2> QED BY <2>1, <2>4 DEF JobInv
<1>18. CASE EndResend
  BY <1>18 DEF EndResend, send, disk, JobInv
<1>19. ASSUME NEW n \in Name, ReadFails(n) PROVE JobInv'
  BY <1>19 DEF ReadFails, Visit, send, JobInv
<1>20. ASSUME NEW n \in Name, FormatError(n) PROVE JobInv'
  <2>1. /\ pc' = "resend" /\ round' = round \ {n}
        /\ left = {} /\ UNCHANGED <<left, job, res>>
    BY <1>20 DEF FormatError, Visit, send, JobInv
  <2>2. DOMAIN files' = DOMAIN files \ {n}
    BY <1>20, UnlinkTypes DEF FormatError
  <2>3. round' \subseteq DOMAIN files'
    BY <2>1, <2>2 DEF JobInv
  <2> QED BY <2>1, <2>3 DEF JobInv
<1>21. ASSUME NEW n \in Name, SendSaved(n) PROVE JobInv'
  <2>1. /\ n \in round /\ round' = round \ {n} /\ left' = left /\ files' = files
        /\ pc = "resend"
    BY <1>21 DEF SendSaved, Visit
  <2>2. n \in DOMAIN files \ round' /\ round' \subseteq DOMAIN files
    BY <2>1 DEF JobInv
  <2>3. files[n].msg \in Msg /\ n \in Name /\ (files[n].text = "whole") \in BOOLEAN
    BY <2>2 DEF TypeOK, SavedFile
  <2>4. /\ job'.msg = {files[n].msg} /\ job'.file = {n} /\ job'.server = 1
        /\ job'.whole = (files[n].text = "whole") /\ 1 \in Server
        /\ pc' = "call" /\ res' = "INIT"
    BY <1>21, <2>3, BeginSendFields DEF SendSaved
  <2>5. left = {}
    BY <2>1 DEF JobInv
  <2> QED BY <2>1, <2>2, <2>3, <2>4, <2>5 DEF JobInv
<1>22. Crash \/ Exit => pc' = "stopped" /\ LoseMemory
  BY DEF Crash, Exit, LoseMemory
<1>23. CASE Save \/ SaveCut
  BY <1>11, <1>23 DEF Save, SaveCut
<1> QED
  BY <1>2, <1>3, <1>4, <1>5, <1>7, <1>8, <1>9, <1>10, <1>13, <1>14, <1>15,
     <1>16, <1>17, <1>18, <1>19, <1>20, <1>21, <1>22, <1>23
     DEF Next, Daemon

(***************************************************************************)
(* What a step does to what is settled, kept and accepted                  *)
(***************************************************************************)
(* Marking the files as old does not change what is kept.                   *)
LEMMA StartKeeps == ASSUME TypeOK, Start PROVE Kept' = Kept
<1>1. /\ DOMAIN files' = DOMAIN files
      /\ \A n \in DOMAIN files : files'[n] = [files[n] EXCEPT !.old = TRUE]
  BY DEF Start
<1>2. \A n \in DOMAIN files : files[n] \in SavedFile
  BY DEF TypeOK
<1>3. \A n \in DOMAIN files : files'[n].msg = files[n].msg /\ files'[n].text = files[n].text
  BY <1>1, <1>2 DEF SavedFile
<1>4. Kept' = {files'[n].msg : n \in {n \in DOMAIN files' : files'[n].text = "whole"}}
  BY DEF Kept
<1> QED BY <1>1, <1>3, <1>4 DEF Kept

(* writeFile() keeps the message, if none of its calls fails.               *)
LEMMA SaveKeeps ==
  ASSUME TypeOK, JobInv, Save
  PROVE  \E m \in Msg : job.msg = {m} /\ Kept' = Kept \union {m}
<1>1. PICK m \in Msg : job.msg = {m}
  BY DEF Save, Wrote, JobInv
<1>2. Kept' = Kept \union {m}
  BY <1>1, WriteFileAdds DEF Save
<1> QED BY <1>1, <1>2

(* A file is unlinked when its message is settled, or when it does not hold *)
(* all of it.                                                               *)
LEMMA SavedSentReleases ==
  ASSUME TypeOK, JobInv, SavedSent
  PROVE  Kept' = Kept \/ \E m \in Msg : m \in Settled /\ Kept' = Kept \ {m}
<1>1. CASE res \in TryToResend
  BY <1>1 DEF SavedSent, Kept
<1>2. CASE res \notin TryToResend
  <2>1. PICK n \in DOMAIN files :
          /\ job.file = {n} /\ job.msg = {files[n].msg}
          /\ job.whole = (files[n].text = "whole")
    BY DEF SavedSent, Answered, JobInv
  <2>2. Unlink({n})
    BY <1>2, <2>1 DEF SavedSent
  <2>3. job.whole => files[n].msg \in Settled
    BY <1>2, <2>1 DEF SavedSent, Answered, JobInv
  <2>4. files[n].msg \in Msg
    BY DEF TypeOK, SavedFile
  <2>5. CASE files[n].text = "whole"
    <3>1. files[n].msg \in Settled
      BY <2>1, <2>3, <2>5
    <3>2. Kept' = Kept \/ Kept' = Kept \ {files[n].msg}
      BY <2>2, UnlinkRemoves
    <3> QED BY <2>4, <3>1, <3>2
  <2>6. CASE files[n].text # "whole"
    BY <2>2, <2>6, UnlinkRemoves
  <2> QED BY <2>5, <2>6
<1> QED BY <1>1, <1>2

(* A file without a first line holds nothing.                               *)
LEMMA FormatErrorKeeps ==
  ASSUME TypeOK, JobInv, NEW n \in Name, FormatError(n)
  PROVE  Kept' = Kept
<1>1. n \in DOMAIN files /\ files[n].text # "whole"
  BY DEF FormatError, Visit, JobInv
<1> QED BY <1>1, UnlinkRemoves DEF FormatError

(* A kill leaves what is settled alone, and adds at most the message it     *)
(* interrupts the writing of to what is kept.                               *)
LEMMA CrashKeeps ==
  ASSUME TypeOK, JobInv, Crash
  PROVE  /\ Settled' = Settled
         /\ handed' = {} /\ left' = {} /\ pc' = "stopped"
         /\ \/ Kept' = Kept /\ accepted' = accepted
            \/ \E m \in Msg : Kept' = Kept \union {m} /\ accepted' = accepted
            \/ pc = "collected" /\ accepted' \in SUBSET handed /\ Kept' = Kept
<1>1. UNCHANGED settled /\ handed' = {} /\ left' = {} /\ pc' = "stopped"
  BY DEF Crash, LoseMemory
<1>2. Settled' = Settled
  BY <1>1 DEF Settled
<1>3. CASE UNCHANGED disk
  BY <1>1, <1>2, <1>3 DEF disk, Kept
<1>4. ASSUME NEW text \in {"whole", "cut", "headless"}, WriteFile(text),
             UNCHANGED accepted
      PROVE  \/ Kept' = Kept /\ accepted' = accepted
             \/ \E m \in Msg : Kept' = Kept \union {m} /\ accepted' = accepted
  <2>1. PICK m \in job.msg : Kept' = Kept \/ Kept' = Kept \union {m}
    BY <1>4, WriteFileAdds
  <2>2. m \in Msg
    BY DEF TypeOK, Job
  <2> QED BY <1>4, <2>1, <2>2
<1>5. CASE pc = "collected" /\ accepted' \in SUBSET handed /\ UNCHANGED files
  BY <1>1, <1>2, <1>5 DEF Kept
<1> QED BY <1>1, <1>2, <1>3, <1>4, <1>5 DEF Crash

(* What a step can do to what is settled, kept and accepted.                *)
StepKind ==
  \/ /\ Settled' = Settled /\ Kept' = Kept
     /\ accepted' = accepted \/ (pc = "collected" /\ accepted' \in SUBSET handed)
  \/ /\ \E m \in Msg : Settled' = Settled \union {m}
     /\ Kept' = Kept /\ accepted' = accepted
  \/ /\ \E m \in Msg : Kept' = Kept \union {m}
     /\ Settled' = Settled /\ accepted' = accepted
  \/ /\ \E m \in Msg : m \in Settled /\ Kept' = Kept \ {m}
     /\ Settled' = Settled /\ accepted' = accepted

(* Every step, with whatever failures, does one of these things.            *)
LEMMA StepKinds == ASSUME TypeOK, JobInv, [Next]_vars PROVE StepKind
<1>1. CASE UNCHANGED <<settled, files, accepted>>
  BY <1>1 DEF StepKind, Settled, Kept
<1>2. CASE Answer \/ NoAnswer
  <2>1. Kept' = Kept /\ accepted' = accepted /\ pc = "call"
    BY <1>2 DEF Answer, NoAnswer, Called, disk, Kept
  <2>2. PICK m \in Msg : job.msg = {m}
    BY <2>1 DEF JobInv
  <2>3. Settled' = Settled \/ Settled' = Settled \union {m}
    BY <1>2, <2>2, CallSettles
  <2> QED BY <2>1, <2>3 DEF StepKind
<1>3. CASE Save
  BY <1>3, SaveKeeps DEF Save, Wrote, Settled, StepKind
<1>4. CASE SaveCut
  BY <1>4, WriteFileAdds DEF SaveCut, Wrote, Settled, StepKind
<1>5. CASE SavedSent
  BY <1>5, SavedSentReleases DEF SavedSent, Answered, Settled, StepKind
<1>6. ASSUME NEW n \in Name, FormatError(n) PROVE StepKind
  BY <1>6, FormatErrorKeeps DEF FormatError, Visit, Settled, StepKind
<1>7. CASE Start
  BY <1>7, StartKeeps DEF Start, Settled, StepKind
<1>8. CASE SaveFInfoList
  BY <1>8 DEF SaveFInfoList, Settled, Kept, StepKind
<1>9. CASE Crash
  BY <1>9, CrashKeeps DEF StepKind
<1>10. CASE SigTerm \/ Exit
  BY <1>1, <1>10 DEF SigTerm, Exit, LoseMemory, disk
<1>11. CASE SomeNew \/ NewSent \/ NotSaved \/ StartResend \/ EndResend
  BY <1>1, <1>11
     DEF SomeNew, TakeNew, TakePart, NewSent, Answered, NotSaved, Wrote, StartResend,
         EndResend, disk
<1>12. ASSUME NEW m \in Msg, SendNew(m) PROVE StepKind
  BY <1>1, <1>12 DEF SendNew, disk
<1>13. ASSUME NEW n \in Name, ReadFails(n) \/ SendSaved(n) PROVE StepKind
  BY <1>1, <1>13 DEF ReadFails, SendSaved, Visit
<1>14. CASE UNCHANGED vars
  BY <1>1, <1>14 DEF vars, disk
<1> QED
  BY <1>2, <1>3, <1>4, <1>5, <1>6, <1>7, <1>8, <1>9, <1>10, <1>11, <1>12,
     <1>13, <1>14 DEF Next, Daemon

(* Nothing that is settled or kept ceases to be the one or the other.       *)
LEMMA StepKeeps ==
  ASSUME TypeOK, JobInv, [Next]_vars
  PROVE  Settled \union Kept \subseteq Settled' \union Kept'
BY StepKinds DEF StepKind

(* The steps that lose no message.                                          *)
SafeStep ==
  \/ SigTerm \/ Start \/ Exit
  \/ Answer \/ NoAnswer \/ SomeNew \/ NewSent \/ Save \/ SaveFInfoList
  \/ \E m \in Msg : SendNew(m)
  \/ StartResend \/ SavedSent \/ EndResend
  \/ \E n \in Name : ReadFails(n) \/ FormatError(n) \/ SendSaved(n)

(* A message that waits is settled or kept when it ceases to wait.          *)
LEMMA WaitingStep ==
  ASSUME TypeOK, JobInv, [SafeStep]_vars
  PROVE  Waiting \subseteq Waiting' \union Settled' \union Kept'
<1> DEFINE Ends == Waiting \subseteq Waiting' \union Settled' \union Kept'
<1>1. ASSUME UNCHANGED <<pc, left, job>> PROVE Ends
  BY <1>1 DEF Waiting
<1>2. ASSUME Start \/ Exit PROVE Ends
  BY <1>2 DEF Start, Exit, Waiting, JobInv
<1>3. ASSUME Answer \/ NoAnswer PROVE Ends
  BY <1>3, CalledFields DEF Answer, NoAnswer, Called, Waiting
<1>4. ASSUME SomeNew PROVE Ends
  BY <1>4, SomeNewTakes, TakePartStep
<1>5. ASSUME NEW m \in Msg, SendNew(m) PROVE Waiting \subseteq Waiting'
  BY <1>5, BeginSendFields DEF SendNew, Waiting
<1>6. ASSUME NewSent PROVE Ends
  <2>1. res \in TryToResend \/ job.msg \subseteq Settled
    BY <1>6 DEF NewSent, Answered, JobInv
  <2> QED BY <1>6, <2>1 DEF NewSent, Answered, send, Waiting, NextNew, Settled
<1>7. ASSUME Save PROVE Ends
  BY <1>7, SaveKeeps DEF Save, Wrote, send, Waiting, NextNew
<1>8. ASSUME SaveFInfoList \/ StartResend \/ EndResend \/ SavedSent PROVE Ends
  BY <1>8 DEF SaveFInfoList, StartResend, EndResend, SavedSent, Answered,
              memory, send, Waiting
<1>9. ASSUME NEW n \in Name, SendSaved(n) PROVE Waiting \subseteq Waiting'
  BY <1>9 DEF SendSaved, Visit, BeginSend, Waiting
<1>10. ASSUME NEW n \in Name, ReadFails(n) \/ FormatError(n)
       PROVE  UNCHANGED <<pc, left, job>>
  BY <1>10 DEF ReadFails, FormatError, Visit, send
<1>11. ASSUME SigTerm \/ UNCHANGED vars PROVE Ends
  BY <1>1, <1>11 DEF SigTerm, vars, memory, send
<1> QED
  BY <1>1, <1>2, <1>3, <1>4, <1>5, <1>6, <1>7, <1>8, <1>9, <1>10, <1>11
     DEF SafeStep

(* A failing write changes nothing but that one message waits no more.      *)
LEMMA LosingStep ==
  ASSUME TypeOK, JobInv, SaveCut \/ NotSaved
  PROVE  /\ Settled' = Settled /\ Kept' = Kept
         /\ \E m \in Msg : job.msg = {m} /\ Waiting \subseteq Waiting' \union {m}
<1>1. Settled' = Settled /\ Kept' = Kept
  BY WriteFileAdds DEF SaveCut, NotSaved, Wrote, Settled, Kept
<1>2. PICK m \in Msg : job.msg = {m}
  BY DEF SaveCut, NotSaved, Wrote, JobInv
<1>3. Waiting \subseteq Waiting' \union {m}
  BY <1>2 DEF SaveCut, NotSaved, Wrote, send, Waiting, NextNew
<1> QED BY <1>1, <1>2, <1>3

(***************************************************************************)
(* Nothing is lost, and AtLeastOnce is implemented                         *)
(***************************************************************************)
(* Without a failing write and without "/" in a decoder name, none of the   *)
(* steps that lose a message is possible.                                   *)
LEMMA NoLossyStep ==
  ASSUME NoLossyFault, TypeOK, JobInv
  PROVE  ~SaveCut /\ ~NotSaved
<1>1. ~SaveCut
  BY DEF NoLossyFault, SaveCut, Fault
<1>2. ASSUME NotSaved PROVE FALSE
  <2>1. \E m \in Msg : job.msg = {m}
    BY <1>2 DEF NotSaved, Wrote, JobInv
  <2>2. ~(job.msg \subseteq Slashed)
    BY <2>1 DEF NoLossyFault
  <2> QED BY <1>2, <2>2 DEF NotSaved, Fault, NoLossyFault
<1> QED BY <1>1, <1>2

(* As long as nothing was lost, each step is one of AtLeastOnce, or changes *)
(* nothing it speaks of.                                                    *)
LEMMA StepRefines ==
  ASSUME DInv, [Next]_vars
  PROVE  [ALO!Next]_(ALO!vars)
<1> USE DEF DInv
<1>1. pc = "collected" => handed \subseteq Settled \union Kept
  BY DEF LossInv, Waiting, JobInv
<1>2. handed \in SUBSET Msg
  BY DEF TypeOK
<1> QED
  BY <1>1, <1>2, StepKinds
     DEF StepKind, ALO!vars, ALO!Next, ALO!Settle, ALO!Keep, ALO!Release, ALO!Accept

(* Every step keeps what is handed on settled, kept or waiting.             *)
LEMMA LossStep == NoLossyFault /\ DInv /\ [Next]_vars => LossInv'
<1> SUFFICES ASSUME NoLossyFault, DInv, [Next]_vars PROVE LossInv'
  OBVIOUS
<1> USE DEF DInv
<1>1. /\ Settled \union Kept \subseteq Settled' \union Kept'
      /\ handed \subseteq Settled \union Kept \union Waiting
      /\ accepted \subseteq Settled \union Kept
      /\ pc = "collected" => Waiting = {}
  BY StepKeeps DEF LossInv, Waiting, JobInv
<1>2. accepted' \subseteq Settled' \union Kept'
  BY <1>1, StepKinds DEF StepKind
<1>3. CASE Crash
  BY <1>2, <1>3, CrashKeeps DEF LossInv
<1>4. CASE ~Crash
  <2>1. Waiting \subseteq Waiting' \union Settled' \union Kept'
    <3>1. [SafeStep]_vars
      BY <1>4, NoLossyStep DEF Next, Daemon, SafeStep
    <3> QED BY <3>1, WaitingStep
  <2>2. handed' \subseteq handed \union accepted \union Waiting'
    <3>1. CASE SomeNew
      BY <3>1, SomeNewTakes, TakePartStep
    <3>2. CASE ~SomeNew
      BY <1>4, <3>2
         DEF Next, Daemon, vars, memory, SigTerm, Start, Exit, LoseMemory,
             Answer, NoAnswer, Called, NewSent, Answered, Save, SaveCut,
             NotSaved, Wrote, SaveFInfoList, SendNew, StartResend, SavedSent,
             EndResend, ReadFails, FormatError, SendSaved, Visit
    <3> QED BY <3>1, <3>2
  <2> QED BY <1>1, <1>2, <2>1, <2>2 DEF LossInv
<1> QED BY <1>3, <1>4

(***************************************************************************)
(* How much can be lost                                                    *)
(***************************************************************************)
(* A step that loses nothing keeps the bound.                               *)
LEMMA LosesNothing ==
  ASSUME BInv, faults' \in Nat, faults <= faults', Lost' \subseteq Lost
  PROVE  IsFiniteSet(Lost') /\ Cardinality(Lost') <= faults'
<1>1. IsFiniteSet(Lost) /\ Cardinality(Lost) <= faults /\ faults \in Nat
  BY DEF BInv, LostInv, TypeOK
<1>2. /\ IsFiniteSet(Lost') /\ Cardinality(Lost') <= Cardinality(Lost)
      /\ Cardinality(Lost) \in Nat /\ Cardinality(Lost') \in Nat
  BY <1>1, FS_Subset, FS_CardinalityType
<1> QED BY <1>1, <1>2

(* A fault that loses one message keeps the bound.                          *)
LEMMA LosesOne ==
  ASSUME BInv, faults' = faults + 1, NEW m, Lost' \subseteq Lost \union {m}
  PROVE  IsFiniteSet(Lost') /\ Cardinality(Lost') <= faults'
<1>1. IsFiniteSet(Lost) /\ Cardinality(Lost) <= faults /\ faults \in Nat
  BY DEF BInv, LostInv, TypeOK
<1>2. /\ IsFiniteSet(Lost \union {m})
      /\ Cardinality(Lost \union {m}) = IF m \in Lost THEN Cardinality(Lost)
                                       ELSE Cardinality(Lost) + 1
  BY <1>1, FS_AddElement
<1>3. IsFiniteSet(Lost') /\ Cardinality(Lost') <= Cardinality(Lost \union {m})
  BY <1>2, FS_Subset
<1>4. Cardinality(Lost) \in Nat /\ Cardinality(Lost') \in Nat
  BY <1>1, <1>3, FS_CardinalityType
<1> QED BY <1>1, <1>2, <1>3, <1>4

(* Only the failing calls count as faults, each as one.                     *)
LEMMA FaultsGrow ==
  ASSUME TypeOK, [Next]_vars PROVE faults' \in Nat /\ faults <= faults'
<1>1. faults \in Nat
  BY DEF TypeOK
<1>2. faults' = faults \/ faults' = faults + 1
  BY DEF Next, Daemon, vars, bounds, SigTerm, Crash, Start, Exit, Answer,
         NoAnswer, Bad, SomeNew, TakeNew, TakePart, NewSent, Answered, Save, SaveCut,
         NotSaved, Fault, SaveFInfoList, SendNew, StartResend, SavedSent,
         EndResend, ReadFails, FormatError, SendSaved
<1> QED BY <1>1, <1>2

(* Every step keeps the bound: a message that is neither settled, kept nor  *)
(* waiting was lost by a failing call of writeFile(), which counts as a     *)
(* fault.                                                                   *)
LEMMA LostStep == BInv /\ [Next]_vars => LostInv'
<1> SUFFICES ASSUME BInv, [Next]_vars PROVE LostInv'
  OBVIOUS
<1> USE DEF BInv
<1> DEFINE Order == /\ pc' # "stopped" => accepted' \subseteq handed'
                    /\ Waiting' \intersect accepted' = {}
<1>1. /\ Settled \union Kept \subseteq Settled' \union Kept'
      /\ pc # "stopped" => accepted \subseteq handed
      /\ Waiting \intersect accepted = {}
      /\ pc \in {"stopped", "idle", "collected", "resend"} => Waiting = {}
  BY StepKeeps DEF LostInv, Waiting, JobInv
<1>2. ASSUME Order, Lost' \subseteq Lost PROVE LostInv'
  BY <1>2, FaultsGrow, LosesNothing DEF LostInv
<1>3. ASSUME handed' \subseteq handed \union accepted \union Waiting',
             accepted' \subseteq handed \union accepted,
             Waiting \subseteq Waiting' \union Settled' \union Kept' \union Slashed
      PROVE  Lost' \subseteq Lost
  BY <1>1, <1>3 DEF Lost
<1>4. ASSUME pc # "stopped", handed' = handed, accepted' = accepted,
             Waiting' \subseteq Waiting,
             Waiting \subseteq Waiting' \union Settled' \union Kept' \union Slashed
      PROVE  LostInv'
  BY <1>1, <1>2, <1>3, <1>4
<1>5. CASE UNCHANGED vars
  BY <1>1, <1>2, <1>3, <1>5 DEF vars, memory, send, disk, Waiting
<1>6. CASE Start
  BY <1>1, <1>2, <1>3, <1>6 DEF Start, send, Waiting
<1>7. CASE Exit
  <2>1. /\ pc' = "stopped" /\ handed' = {} /\ Waiting' = {}
        /\ accepted' = accepted /\ pc = "idle"
    BY <1>7 DEF Exit, LoseMemory, disk, Waiting
  <2> QED BY <1>1, <1>2, <1>3, <2>1
<1>8. CASE Crash
  <2>1. pc' = "stopped" /\ handed' = {} /\ Waiting' = {} /\ Settled' = Settled
    BY <1>8, CrashKeeps DEF Waiting
  <2>2. accepted' = accepted \/ (pc = "collected" /\ accepted' \in SUBSET handed)
    BY <1>8, CrashKeeps
  <2>3. Lost' \subseteq Lost
    BY <1>1, <2>1, <2>2 DEF Lost
  <2> QED BY <1>2, <2>1, <2>3
<1>9. CASE SigTerm \/ Answer \/ NoAnswer
  <2>1. /\ pc # "stopped" /\ handed' = handed /\ accepted' = accepted
        /\ Waiting' = Waiting
    BY <1>9, CalledFields
       DEF SigTerm, Answer, NoAnswer, Called, memory, send, disk, Waiting
  <2> QED BY <1>4, <2>1
<1>10. CASE SomeNew
  <2>1. PICK S \in SUBSET Msg : TakeNew(S)
    BY <1>10 DEF SomeNew
  <2>2. /\ pc \in {"idle", "collected"} /\ pc' = "next" /\ left' = S
        /\ handed' = handed \union S /\ accepted' = accepted
        /\ S \intersect handed = {}
    BY <2>1 DEF TakeNew, TakePart, disk
  <2>3. Waiting' = S /\ Waiting = {}
    BY <1>1, <2>2 DEF Waiting
  <2> QED BY <1>1, <1>2, <1>3, <2>2, <2>3
<1>11. ASSUME NEW m \in Msg, SendNew(m) PROVE LostInv'
  <2>1. /\ pc = "next" /\ handed' = handed /\ accepted' = accepted
        /\ Waiting' = Waiting
    BY <1>11, BeginSendFields DEF SendNew, disk, Waiting
  <2> QED BY <1>4, <2>1
<1>12. CASE NewSent
  <2>1. res \in TryToResend \/ job.msg \subseteq Settled
    BY <1>12 DEF NewSent, Answered, JobInv
  <2>2. /\ pc = "answer" /\ handed' = handed /\ accepted' = accepted
        /\ Waiting' \subseteq Waiting
        /\ Waiting \subseteq Waiting' \union Settled
    BY <1>12, <2>1 DEF NewSent, Answered, send, Waiting, NextNew
  <2> QED BY <1>1, <1>4, <2>2
<1>13. ASSUME Wrote
       PROVE  /\ pc = "write" /\ handed' = handed /\ accepted' = accepted
              /\ Waiting' = left /\ Waiting = left \union job.msg
  BY <1>13 DEF Wrote, send, Waiting, NextNew, JobInv
<1>14. CASE Save
  BY <1>4, <1>13, <1>14, SaveKeeps DEF Save
<1>15. CASE SaveCut \/ NotSaved
  <2>1. PICK m \in Msg : job.msg = {m}
    BY <1>15 DEF SaveCut, NotSaved, Wrote, JobInv
  <2>2. CASE faults' = faults + 1
    <3>1. Lost' \subseteq Lost \union {m}
      BY <1>1, <1>13, <1>15, <2>1 DEF SaveCut, NotSaved, Lost
    <3>2. Order
      BY <1>1, <1>13, <1>15 DEF SaveCut, NotSaved
    <3> QED BY <2>2, <3>1, <3>2, LosesOne DEF LostInv
  <2>3. CASE NotSaved /\ job.msg \subseteq Slashed
    BY <1>4, <1>13, <2>3 DEF NotSaved
  <2> QED BY <1>15, <2>2, <2>3 DEF SaveCut, NotSaved, Fault
<1>16. CASE SaveFInfoList
  <2>1. /\ pc = "collected" /\ pc' = "idle" /\ handed' = handed
        /\ accepted' \in SUBSET handed /\ left' = left
    BY <1>16 DEF SaveFInfoList, memory
  <2>2. Waiting' = {} /\ Waiting = {}
    BY <1>1, <2>1 DEF Waiting, JobInv
  <2> QED BY <1>2, <1>3, <2>1, <2>2
<1>17. CASE StartResend \/ EndResend
  BY <1>4, <1>17 DEF StartResend, EndResend, send, disk, Waiting
<1>18. CASE SavedSent
  BY <1>4, <1>18 DEF SavedSent, Answered, send, Waiting
<1>19. ASSUME NEW n \in Name, ReadFails(n) \/ FormatError(n) PROVE LostInv'
  BY <1>4, <1>19 DEF ReadFails, FormatError, Visit, send, Waiting
<1>20. ASSUME NEW n \in Name, SendSaved(n) PROVE LostInv'
  BY <1>4, <1>20 DEF SendSaved, Visit, BeginSend, Waiting
<1> QED
  BY <1>5, <1>6, <1>7, <1>8, <1>9, <1>10, <1>11, <1>12, <1>14, <1>15, <1>16,
     <1>17, <1>18, <1>19, <1>20 DEF Next, Daemon

(***************************************************************************)
(* The theorems                                                            *)
(***************************************************************************)
(* The variables have their types, whatever fails: what is kept in data2kv, *)
(* and what is being sent, are messages and files of data2kv.               *)
THEOREM TypeCorrect == Spec => []TypeOK
<1>1. Init => TypeOK /\ JobInv
  BY InitTypeOK DEF Init, NoJob, JobInv
<1>2. TypeOK /\ JobInv /\ [Next]_vars => (TypeOK /\ JobInv)'
  BY TypeStep, JobStep
<1> QED BY <1>1, <1>2, PTL DEF Spec

(* DInv, which NothingIsLost and Implements rest on: with no lossy fault,   *)
(* what sendWMORaport() has handed on is settled, kept or in memory still.  *)
THEOREM Invariant == ASSUME NoLossyFault PROVE Spec => []DInv
<1>1. Init => DInv
  BY InitTypeOK DEF Init, NoJob, DInv, JobInv, LossInv
<1>2. DInv /\ [Next]_vars => DInv'
  BY TypeStep, JobStep, LossStep DEF DInv
<1> QED BY <1>1, <1>2, PTL DEF Spec

(* If no write to data2kv fails and no decoder name has a "/" in it, an     *)
(* observation the state file counts as handed on is settled, or in a whole *)
(* file of data2kv: for any number of servers, messages, files, missing     *)
(* answers, kills and restarts.                                             *)
THEOREM NothingIsLost == ASSUME NoLossyFault PROVE Spec => []NothingLost
<1>1. DInv => NothingLost
  BY DEF DInv, LossInv, NothingLost
<1> QED BY <1>1, Invariant, PTL

(* Under the same assumption sendWMORaport() and                            *)
(* tryToSendSavedObservations() implement AtLeastOnce: a message is never   *)
(* taken from data2kv before a server has settled it.                       *)
THEOREM Implements == ASSUME NoLossyFault PROVE Spec => ImplementsAtLeastOnce
<1>1. Init => ALO!Init
  BY DEF Init, ALO!Init, Settled, Kept
<1>2. DInv /\ [Next]_vars => [ALO!Next]_(ALO!vars)
  BY StepRefines
<1> QED BY <1>1, <1>2, Invariant, PTL DEF Spec, ImplementsAtLeastOnce, ALO!Spec

(* BInv, which LossBound rests on, holds whatever calls fail: a failing     *)
(* writeFile() loses the message it was to write and no other.              *)
THEOREM LossesAreCounted == Spec => []BInv
<1>1. Init => BInv
  <2> SUFFICES ASSUME Init PROVE BInv
    OBVIOUS
  <2>1. Lost = {} /\ Waiting = {}
    BY DEF Init, Lost, Waiting
  <2>2. IsFiniteSet(Lost) /\ Cardinality(Lost) = 0
    BY <2>1, FS_EmptySet
  <2> QED BY <2>1, <2>2, InitTypeOK DEF Init, NoJob, BInv, JobInv, LostInv
<1>2. BInv /\ [Next]_vars => BInv'
  BY TypeStep, JobStep, LostStep DEF BInv
<1> QED BY <1>1, <1>2, PTL DEF Spec

(* Whatever fails, at most one message is lost for each failing call, but   *)
(* for those whose decoder name has a "/" in it: a failing write does not   *)
(* reach the messages sent after it, nor the files written before it.       *)
THEOREM LossBound == Spec => []LossIsBounded
<1>1. BInv => LossIsBounded
  <2> SUFFICES ASSUME BInv PROVE LossIsBounded
    OBVIOUS
  <2> DEFINE L == accepted \ (Settled \union Kept \union Slashed)
  <2>1. L \subseteq Lost
    BY DEF BInv, LostInv, Lost
  <2>2. /\ IsFiniteSet(Lost) /\ Cardinality(Lost) <= faults /\ faults \in Nat
    BY DEF BInv, LostInv, TypeOK
  <2>3. /\ Cardinality(L) <= Cardinality(Lost) /\ IsFiniteSet(L)
        /\ Cardinality(L) \in Nat /\ Cardinality(Lost) \in Nat
    BY <2>1, <2>2, FS_Subset, FS_CardinalityType
  <2> QED BY <2>2, <2>3 DEF LossIsBounded
<1> QED BY <1>1, LossesAreCounted, PTL
===============================================================================
