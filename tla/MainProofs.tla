------------------------------ MODULE MainProofs ------------------------------
(* Theorems about Main, for every value of its constants. *)
EXTENDS Main, WellFoundedInduction, TLAPS

(***************************************************************************)
(* Types and ages                                                          *)
(***************************************************************************)
PC == {"none", "config", "check", "create", "loop", "scan", "resend", "sleep"}

TypeInv == TypeOK /\ AgesInv

(* A process that ends leaves everything typed.                            *)
LEMMA ForgetTypes ==
  ASSUME TypeInv, NEW p \in Proc, Forget(p)
  PROVE  /\ pc' \in [Proc -> PC]
         /\ sigTerm' \in [Proc -> BOOLEAN]
         /\ scanAge' \in [Proc -> Age]
         /\ resendAge' \in [Proc -> Age]
         /\ due' \in [Proc -> SUBSET {"scan", "resend"}]
         /\ created' \in [Proc -> BOOLEAN]
         /\ \A q \in Proc : /\ scanAge'[q] \in {scanAge[q], RESEND_DELAY}
                            /\ resendAge'[q] \in {resendAge[q], RESEND_DELAY}
<1>1. RESEND_DELAY \in Age
  BY MainAssumption DEF Age
<1> QED BY <1>1 DEF TypeInv, TypeOK, Forget, PC

(* A step within main() keeps the other variables' types.                  *)
LEMMA GotoTypes ==
  ASSUME TypeInv, NEW p \in Proc, NEW from, NEW to \in PC, Goto(p, from, to)
  PROVE  pc' \in [Proc -> PC]
BY DEF TypeInv, TypeOK, Goto, PC

(* A round sets ages to 0 or leaves them.                                  *)
LEMMA RoundTypes ==
  ASSUME TypeInv, NEW p \in Proc, Round(p)
  PROVE  TypeInv'
<1> DEFINE d == {w \in {"scan"} : scanAge[p] >= DELAY} \union
                {w \in {"resend"} : resendAge[p] >= RESEND_DELAY}
<1>1. /\ due' = [due EXCEPT ![p] = d]
      /\ d \in SUBSET {"scan", "resend"}
  BY DEF Round
<1>2. due' \in [Proc -> SUBSET {"scan", "resend"}] /\ due'[p] = d
  BY <1>1 DEF TypeInv, TypeOK
<1>3. pc' \in [Proc -> PC]
  BY DEF Round, TypeInv, TypeOK, PC
<1>4. 0 \in Age
  BY MainAssumption DEF Age
<1>5. \A q \in Proc : scanAge'[q] \in {0, scanAge[q]}
                   /\ resendAge'[q] \in {0, resendAge[q]}
  BY DEF Round, TypeInv, TypeOK
<1>6. scanAge' \in [Proc -> Age] /\ resendAge' \in [Proc -> Age]
  BY <1>4 DEF Round, TypeInv, TypeOK
<1>7. TypeOK'
  BY <1>2, <1>3, <1>6 DEF Round, TypeInv, TypeOK, PC, pids, bounds
<1>8. AgesInv'
  <2>1. back' = back /\ 0 \in -back..RESEND_DELAY
    BY MainAssumption DEF Round, TypeInv, TypeOK, bounds
  <2> QED BY <1>5, <2>1 DEF AgesInv, TypeInv
<1> QED BY <1>7, <1>8 DEF TypeInv

(* Nothing but these is left to look at when a step leaves the ages alone, *)
(* or sets them to RESEND_DELAY.                                           *)
LEMMA AgesKept ==
  ASSUME TypeInv, back' = back,
         \A q \in Proc : /\ scanAge'[q] \in {scanAge[q], RESEND_DELAY}
                         /\ resendAge'[q] \in {resendAge[q], RESEND_DELAY}
  PROVE  AgesInv'
<1>1. RESEND_DELAY \in -back..RESEND_DELAY
  BY MainAssumption DEF TypeInv, TypeOK
<1> QED BY <1>1 DEF AgesInv, TypeInv

(* A second of the clock makes each age one more, up to RESEND_DELAY.      *)
LEMMA TickTypes ==
  ASSUME TypeInv, Tick
  PROVE  TypeInv'
<1>1. \A a \in Age : a # RESEND_DELAY => a + 1 \in Age
  BY MainAssumption DEF Age
<1>2. scanAge' \in [Proc -> Age] /\ resendAge' \in [Proc -> Age]
  BY <1>1, MainAssumption DEF Tick, TypeInv, TypeOK
<1>3. TypeOK'
  BY <1>2 DEF Tick, TypeInv, TypeOK, pids, bounds
<1>4. AgesInv'
  <2>1. back' = back /\ back \in Nat
    BY DEF Tick, TypeInv, TypeOK, bounds
  <2>2. \A a \in -back..RESEND_DELAY : a # RESEND_DELAY => a + 1 \in -back..RESEND_DELAY
    BY <2>1, MainAssumption
  <2> QED BY <2>1, <2>2 DEF Tick, TypeInv, TypeOK, AgesInv
<1> QED BY <1>3, <1>4 DEF TypeInv

(* The clock set back makes each age one less, and the ages may be below   *)
(* zero by as much as it was set back in all.                              *)
LEMMA SetBackTypes ==
  ASSUME TypeInv, SetBack
  PROVE  TypeInv'
<1>1. /\ back \in Nat /\ back' = back + 1 /\ back' \in 0..MaxBack
  BY MainAssumption DEF SetBack, TypeInv, TypeOK
<1>2. \A a \in -back..RESEND_DELAY :
        /\ a - 1 \in -back'..RESEND_DELAY
        /\ RESEND_DELAY \in -back'..RESEND_DELAY
  BY <1>1, MainAssumption
<1>3. -back'..RESEND_DELAY \subseteq Age
  BY <1>1, MainAssumption DEF Age
<1>4. \A p \in Proc : scanAge'[p] \in -back'..RESEND_DELAY
                   /\ resendAge'[p] \in -back'..RESEND_DELAY
  BY <1>2 DEF SetBack, Back, TypeInv, AgesInv
<1>5. scanAge' \in [Proc -> Age] /\ resendAge' \in [Proc -> Age]
  <2>1. DOMAIN scanAge' = Proc /\ DOMAIN resendAge' = Proc
        /\ scanAge' = [p \in Proc |-> scanAge'[p]]
        /\ resendAge' = [p \in Proc |-> resendAge'[p]]
    BY DEF SetBack, Back
  <2> QED BY <1>3, <1>4, <2>1
<1>6. TypeOK'
  BY <1>1, <1>5 DEF SetBack, TypeInv, TypeOK, pids
<1>7. AgesInv'
  BY <1>4 DEF AgesInv
<1> QED BY <1>6, <1>7 DEF TypeInv

(* Before anything has started both timers have run off.                   *)
LEMMA TypeInit == Init => TypeInv
<1> SUFFICES ASSUME Init PROVE TypeInv
  OBVIOUS
<1>1. RESEND_DELAY \in Age /\ RESEND_DELAY \in -0..RESEND_DELAY
  BY MainAssumption DEF Age
<1> QED BY <1>1, MainAssumption DEF Init, LongAgo, TypeInv, TypeOK, AgesInv

(* Types and ages are inductive; the steps of main() leave the ages alone. *)
LEMMA TypeNext == TypeInv /\ [Next]_vars => TypeInv'
<1> SUFFICES ASSUME TypeInv, [Next]_vars PROVE TypeInv'
  OBVIOUS
<1>1. CASE UNCHANGED vars
  BY <1>1 DEF TypeInv, TypeOK, AgesInv, vars, ages, pids, bounds
<1>2. CASE Tick
  BY <1>2, TickTypes
<1>3. CASE SetBack
  BY <1>3, SetBackTypes
<1>4. ASSUME NEW p \in Proc, Round(p) PROVE TypeInv'
  BY <1>4, RoundTypes
<1>5. ASSUME NEW p \in Proc,
             Refuse(p) \/ Return(p) \/ Terminated(p) \/ Kill(p)
      PROVE TypeInv'
  <2>1. Forget(p) /\ back' = back
    BY <1>5 DEF Refuse, Return, Terminated, Kill, bounds
  <2>2. kills' \in 0..MaxKills
    BY <1>5, MainAssumption
    DEF Refuse, Return, Terminated, Kill, bounds, TypeInv, TypeOK
  <2>3. pidfile' \in Proc \union {NoFile, Stale}
    BY <1>5 DEF Refuse, Return, Terminated, Kill, TypeInv, TypeOK
  <2>4. TypeOK'
    BY <2>1, <2>2, <2>3, ForgetTypes DEF TypeInv, TypeOK, PC
  <2> QED BY <2>1, <2>4, ForgetTypes, AgesKept DEF TypeInv
<1>6. ASSUME NEW p \in Proc,
             Start(p) \/ Configure(p) \/ Pass(p) \/ Create(p) \/ NotCreated(p)
             \/ Scanned(p) \/ Resent(p) \/ Wake(p) \/ SigTerm(p)
      PROVE TypeInv'
  <2>1. pc' \in [Proc -> PC]
    BY <1>6 DEF Start, Configure, Pass, Create, NotCreated, Scanned, Resent,
                Wake, SigTerm, Goto, TypeInv, TypeOK, PC
  <2>2. /\ sigTerm' \in [Proc -> BOOLEAN]
        /\ due' \in [Proc -> SUBSET {"scan", "resend"}]
    <3>1. sigTerm' = sigTerm \/ sigTerm' = [sigTerm EXCEPT ![p] = TRUE]
      BY <1>6 DEF Start, Configure, Pass, Create, NotCreated, Scanned, Resent,
                  Wake, SigTerm
    <3>2. \/ due' = due
          \/ due' = [due EXCEPT ![p] = due[p] \ {"scan"}]
          \/ due' = [due EXCEPT ![p] = {}]
      BY <1>6 DEF Start, Configure, Pass, Create, NotCreated, Scanned, Resent,
                  Wake, SigTerm
    <3>3. /\ due \in [Proc -> SUBSET {"scan", "resend"}]
          /\ sigTerm \in [Proc -> BOOLEAN]
          /\ due[p] \ {"scan"} \in SUBSET {"scan", "resend"}
      BY DEF TypeInv, TypeOK
    <3> QED BY <3>1, <3>2, <3>3
  <2>3. /\ pidfile' \in Proc \union {NoFile, Stale}
        /\ created' \in [Proc -> BOOLEAN]
    BY <1>6 DEF Start, Configure, Pass, Create, NotCreated, Scanned, Resent,
                Wake, SigTerm, TypeInv, TypeOK, pids
  <2>4. UNCHANGED <<ages, bounds>>
    BY <1>6 DEF Start, Configure, Pass, Create, NotCreated, Scanned, Resent,
                Wake, SigTerm
  <2>5. TypeOK'
    BY <2>1, <2>2, <2>3, <2>4 DEF TypeInv, TypeOK, ages, bounds, PC
  <2>6. AgesInv'
    BY <2>4, AgesKept DEF ages, bounds
  <2> QED BY <2>5, <2>6 DEF TypeInv
<1> QED BY <1>1, <1>2, <1>3, <1>4, <1>5, <1>6 DEF Next, Step

(* The type invariant of Main: no process, age or pid file is ever         *)
(* anything else, however often processes start and the clock is set back. *)
THEOREM TypeCorrect == Spec => []TypeOK
<1>1. TypeInv => TypeOK
  BY DEF TypeInv
<1> QED BY TypeInit, TypeNext, <1>1, PTL DEF Spec

(***************************************************************************)
(* The pid file                                                            *)
(***************************************************************************)
(* No step lets two processes past the test, or takes the pid file from    *)
(* the one that created it; a process that was refused leaves it there.    *)
LEMMA PidNext ==
  ASSUME Serialized, TypeInv, PidInv, [Next]_vars
  PROVE  PidInv'
<1> USE DEF Starting
<1>0. /\ pc \in [Proc -> PC]
      /\ created \in [Proc -> BOOLEAN]
      /\ pidfile \in Proc \union {NoFile, Stale}
  BY DEF TypeInv, TypeOK, PC
<1>1. CASE UNCHANGED vars
  BY <1>1 DEF PidInv, vars, pids
<1>2. CASE Tick \/ SetBack
  BY <1>2 DEF Tick, SetBack, PidInv, pids
<1>3. ASSUME NEW p \in Proc, Start(p) PROVE PidInv'
  BY <1>0, <1>3 DEF Start, Goto, PidInv, pids
<1>4. ASSUME NEW p \in Proc, Configure(p) PROVE PidInv'
  BY <1>0, <1>4 DEF Configure, Goto, PidInv, pids
<1>5. ASSUME NEW p \in Proc, Pass(p) PROVE PidInv'
  BY <1>0, <1>5 DEF Pass, Goto, PidInv, pids
<1>6. ASSUME NEW p \in Proc, Create(p) PROVE PidInv'
  (* Nobody else has created it, and nobody else is at it.                 *)
  <2>1. \A q \in Proc : ~created[q]
    BY <1>6, PidAssumption DEF Create, Goto, PidInv
  <2>2. \A q \in Proc : pc'[q] # "create"
    BY <1>0, <1>6 DEF Create, Goto, PidInv
  <2> QED BY <1>0, <1>6, <2>1, <2>2 DEF Create, Goto, PidInv
<1>7. ASSUME NEW p \in Proc, NotCreated(p) PROVE PidInv'
  BY <1>0, <1>7 DEF NotCreated, Goto, PidInv, pids
<1>8. ASSUME NEW p \in Proc,
             Refuse(p) \/ Terminated(p) \/ Return(p) \/ Kill(p)
      PROVE PidInv'
  <2>1. /\ pc' = [pc EXCEPT ![p] = "none"]
        /\ created' = [created EXCEPT ![p] = FALSE]
    BY <1>8 DEF Refuse, Terminated, Return, Kill, Forget
  <2>2. \/ pidfile' = pidfile
        \/ created[p] /\ pidfile' \in {NoFile, Stale}
    BY <1>8 DEF Refuse, Terminated, Return, Kill
  <2>3. created[p] => \A q \in Proc : created[q] => q = p
    BY DEF PidInv
  <2> QED BY <1>0, <2>1, <2>2, <2>3 DEF PidInv
<1>9. ASSUME NEW p \in Proc, Round(p) PROVE PidInv'
  <2>1. \A q \in Proc : pc'[q] # pc[q] => ~Starting(q)'
    BY <1>0, <1>9 DEF Round
  <2>2. \A q \in Proc : Starting(q)' => pc'[q] = pc[q]
    BY <2>1
  <2> QED BY <1>0, <1>9, <2>2 DEF Round, PidInv, pids
<1>10. ASSUME NEW p \in Proc, Scanned(p) \/ Resent(p) \/ Wake(p)
       PROVE PidInv'
  <2>1. /\ \A q \in Proc : Starting(q)' => pc'[q] = pc[q]
        /\ UNCHANGED pids
    BY <1>0, <1>10 DEF Scanned, Resent, Wake, Goto
  <2> QED BY <2>1 DEF PidInv, pids
<1>11. ASSUME NEW p \in Proc, SigTerm(p) PROVE PidInv'
  BY <1>11 DEF SigTerm, PidInv, pids
<1> QED BY <1>1, <1>2, <1>3, <1>4, <1>5, <1>6, <1>7, <1>8, <1>9, <1>10, <1>11
        DEF Next, Step

(* MInv, from which OnlyOneDaemon follows: if starts come one after the    *)
(* other, the pid file names the daemon that created it as long as that    *)
(* one runs, and the ages of its timers stay in their range.               *)
THEOREM PidFileIsKept == Serialized /\ Spec => []MInv
<1> SUFFICES ASSUME Serialized PROVE Spec => []MInv
  OBVIOUS
<1>1. Init => PidInv
  BY DEF Init, PidInv, Starting
<1>2. TypeInv /\ PidInv /\ [Next]_vars => PidInv'
  BY PidNext
<1>3. TypeInv /\ PidInv => MInv
  BY DEF TypeInv, MInv
<1> QED BY TypeInit, TypeNext, <1>1, <1>2, <1>3, PTL DEF Spec

(* If starts come one after the other, then for any number of processes    *)
(* two of them never run as daemons that have created the pid file,        *)
(* whoever is killed or ends meanwhile.                                    *)
THEOREM OnlyOneDaemon == Serialized /\ Spec => []OneDaemon
<1>1. MInv => OneDaemon
  BY DEF MInv, PidInv, OneDaemon
<1> QED BY <1>1, PidFileIsKept, PTL


(***************************************************************************)
(* Decoders                                                                *)
(***************************************************************************)
LEMMA SmallestOf ==
  ASSUME NEW I \in SUBSET Nat, I # {}
  PROVE  Min(I) \in I /\ \A i \in I : Min(I) <= i
<1>1. PICK m \in I : \A i \in I : <<i, m>> \notin OpToRel(<, Nat)
  BY WFMin, NatLessThanWellFounded, Zenon
<1>2. \A i \in I : <<i, m>> \in Nat \X Nat
  OBVIOUS
<1>3. \A i \in I : ~ (i < m)
  BY <1>1, <1>2, Zenon DEF OpToRel
<1>4. \A i \in I : m <= i
  BY <1>3
<1> QED BY <1>4 DEF Min

(* Only blanks make an empty decoder. *)
LEMMA DecoderIsEmpty ==
  ASSUME NEW e \in [type : STRING, decoder : STRING], e.decoder # "",
         e.type \in WmoRaport, Decoder(e) = ""
  PROVE  e.decoder = "blank"
<1>1. \A type \in WmoRaport : LowerCase[type] # ""
  <2>1. /\ LowerCase["AREP"] = "arep" /\ LowerCase["BATH"] = "bath"
        /\ LowerCase["DRAU"] = "drau" /\ LowerCase["METAR"] = "metar"
        /\ LowerCase["PILO"] = "pilo" /\ LowerCase["SYNOP"] = "synop"
        /\ LowerCase["TEMP"] = "temp" /\ LowerCase["TIDE"] = "tide"
        /\ LowerCase["BUFR_SURFACE"] = "bufr_surface"
    BY DEF LowerCase
  <2> QED BY <2>1 DEF WmoRaport
<1> QED BY <1>1 DEF Decoder

LEMMA AllDecodersSuffice == DecodersSuffice
<1> SUFFICES ASSUME NEW entries \in Entries
             PROVE  LET raports == getRaportConf(entries)
                        without == {type \in getRaportsToCollect(raports) :
                                      getDecoder(raports, type) = ""}
                    IN /\ getRaportsToCollect(raports) # {}
                       /\ \A type \in without :
                             entries[Min(Places(entries, type))].decoder = "blank"
  BY DEF DecodersSuffice
<1> DEFINE raports == getRaportConf(entries)
           known == {i \in DOMAIN entries : entries[i].type \in WmoRaport}
           made == [i \in known |->
                      [type |-> entries[i].type, decoder |-> Decoder(entries[i])]]
<1>1. /\ entries \in Seq([type : STRING, decoder : STRING])
      /\ \A i \in DOMAIN entries : entries[i].decoder # ""
  BY EntriesAssumption
<1>2. /\ DOMAIN entries = 1..Len(entries) /\ Len(entries) \in Nat
      /\ \A i \in DOMAIN entries : entries[i] \in [type : STRING, decoder : STRING]
  <2> DEFINE R == [type : STRING, decoder : STRING]
  <2>1. entries \in Seq(R)
    BY <1>1
  <2> HIDE DEF R
  <2>2. /\ DOMAIN entries = 1..Len(entries) /\ Len(entries) \in Nat
        /\ \A i \in DOMAIN entries : entries[i] \in R
    BY <2>1
  <2> QED BY <2>2 DEF R
<1>3. known \subseteq Nat
  BY <1>2
<1>4. CASE known = {}
  <2>1. raports = << [type |-> "SYNOP", decoder |-> "synop"],
                     [type |-> "BUFR_SURFACE", decoder |-> "bufr"] >>
    BY <1>4 DEF getRaportConf
  <2> HIDE DEF raports
  <2>2. /\ DOMAIN raports = {1, 2}
        /\ raports[1].type = "SYNOP" /\ raports[1].decoder = "synop"
        /\ raports[2].type = "BUFR_SURFACE" /\ raports[2].decoder = "bufr"
    BY <2>1
  <2>3. ASSUME NEW type \in getRaportsToCollect(raports)
        PROVE  getDecoder(raports, type) # ""
    <3>1. PICK i \in {1, 2} : type = raports[i].type
      BY <2>2 DEF getRaportsToCollect
    <3>2. Places(raports, type) \in SUBSET Nat /\ i \in Places(raports, type)
      BY <2>2, <3>1 DEF Places
    <3>3. Min(Places(raports, type)) \in {1, 2}
      BY <2>2, <3>2, SmallestOf DEF Places
    <3> QED BY <2>2, <3>2, <3>3 DEF getDecoder
  <2>4. getRaportsToCollect(raports) # {}
    BY <2>2 DEF getRaportsToCollect
  <2> QED BY <2>3, <2>4 DEF raports
<1>5. CASE known # {}
  <2>1. raports = made
    BY <1>5 DEF getRaportConf
  <2>2. /\ DOMAIN raports = known
        /\ \A i \in known : /\ raports[i].type = entries[i].type
                            /\ raports[i].decoder = Decoder(entries[i])
    BY <2>1
  <2> HIDE DEF raports
  <2>3. getRaportsToCollect(raports) # {}
    BY <1>5, <2>2 DEF getRaportsToCollect
  <2>4. ASSUME NEW type \in getRaportsToCollect(raports),
               getDecoder(raports, type) = ""
        PROVE  entries[Min(Places(entries, type))].decoder = "blank"
    <3>1. type \in WmoRaport /\ Places(raports, type) # {}
      BY <2>2, <2>4 DEF getRaportsToCollect, Places
    <3>2. Places(raports, type) = Places(entries, type)
      BY <2>2, <3>1 DEF Places
    <3> DEFINE i == Min(Places(raports, type))
    <3>3. i \in Places(raports, type)
      BY <1>3, <2>2, <3>1, SmallestOf DEF Places
    <3>4. i \in known /\ Decoder(entries[i]) = ""
      BY <2>2, <2>4, <3>1, <3>3 DEF getDecoder, Places
    <3>5. entries[i].decoder = "blank"
      <4>1. /\ entries[i] \in [type : STRING, decoder : STRING]
            /\ entries[i].decoder # "" /\ entries[i].type \in WmoRaport
        <5>1. i \in DOMAIN entries /\ entries[i].type \in WmoRaport
          BY <3>4
        <5> HIDE DEF i
        <5> QED BY <1>1, <1>2, <5>1
      <4> QED BY <3>4, <4>1, DecoderIsEmpty
    <3> QED BY <3>2, <3>5
  <2> QED BY <2>3, <2>4 DEF raports
<1> QED BY <1>4, <1>5

(* Whatever "raports" lists, a daemon that runs has types to collect, and  *)
(* the reports of a collected type are dropped for want of a decoder only  *)
(* if the first entry of that type has nothing but blanks for one.         *)
THEOREM DecodersAreFound == Spec => []CollectedHaveDecoders
<1>1. CollectedHaveDecoders
  BY AllDecodersSuffice DEF CollectedHaveDecoders
<1> QED BY <1>1, PTL
==============================================================================
