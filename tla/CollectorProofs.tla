--------------------------- MODULE CollectorProofs ---------------------------
(* Theorems about Collector, for every value of its constants. *)
EXTENDS Collector, SequenceTheorems, TLAPS

(***************************************************************************)
(* Contents, maps and entries                                              *)
(***************************************************************************)
(* A content is a sequence of at most MaxOps chunks.                        *)
LEMMA ContentIsSeq ==
  Content = {s \in Seq(Chunk) : Len(s) <= MaxOps}
<1>1. ASSUME NEW s \in Content PROVE s \in Seq(Chunk) /\ Len(s) <= MaxOps
  <2>1. PICK n \in 0..MaxOps : s \in [1..n -> Chunk]
    BY <1>1 DEF Content
  <2>2. s \in Seq(Chunk) /\ Len(s) = n
    BY <2>1, BoundsAssumption
  <2> QED BY <2>1, <2>2, BoundsAssumption
<1>2. ASSUME NEW s \in Seq(Chunk), Len(s) <= MaxOps PROVE s \in Content
  <2>1. s \in [1..Len(s) -> Chunk] /\ Len(s) \in 0..MaxOps
    BY <1>2, BoundsAssumption
  <2> QED BY <2>1 DEF Content
<1> QED BY <1>1, <1>2

(* Storing an entry in a std::map keeps it a map.                           *)
LEMMA PutIsMap ==
  ASSUME NEW S, NEW m, IsMap(m, S), NEW k \in File, NEW v \in S
  PROVE  IsMap(Put(m, k, v), S)
BY DEF IsMap, Put

(* What a map holds after one entry was stored.                             *)
LEMMA PutValue ==
  ASSUME NEW m, NEW k, NEW v
  PROVE  /\ DOMAIN Put(m, k, v) = DOMAIN m \union {k}
         /\ Put(m, k, v)[k] = v
         /\ \A x \in DOMAIN m \ {k} : Put(m, k, v)[x] = m[x]
BY DEF Put

(* Erasing entries of a std::map keeps it a map.                            *)
LEMMA RestrictIsMap ==
  ASSUME NEW S, NEW m, IsMap(m, S), NEW D, D \subseteq DOMAIN m
  PROVE  IsMap(Restrict(m, D), S)
BY DEF IsMap, Restrict

(* The entries that are not erased stay as they were.                       *)
LEMMA RestrictValue ==
  ASSUME NEW m, NEW D
  PROVE  /\ DOMAIN Restrict(m, D) = D
         /\ \A x \in D : Restrict(m, D)[x] = m[x]
BY DEF Restrict

(* Erasing one entry of a std::map keeps it a map.                          *)
LEMMA WithoutIsMap ==
  ASSUME NEW S, NEW m, IsMap(m, S), NEW k
  PROVE  IsMap(Without(m, k), S)
BY DEF IsMap, Without, Restrict

(* What a map holds after one entry was erased.                             *)
LEMMA WithoutValue ==
  ASSUME NEW m, NEW k
  PROVE  /\ DOMAIN Without(m, k) = DOMAIN m \ {k}
         /\ \A x \in DOMAIN m \ {k} : Without(m, k)[x] = m[x]
BY DEF Without, Restrict

(* The empty std::map is a map of any type.                                 *)
LEMMA NoEntryIsMap ==
  ASSUME NEW S PROVE IsMap(NoEntry, S) /\ DOMAIN NoEntry = {}
BY DEF IsMap, NoEntry

(* A key of a map is a file name, and its value is of the type of the map.  *)
LEMMA MapValue ==
  ASSUME NEW S, NEW m, IsMap(m, S), NEW k \in DOMAIN m
  PROVE  k \in File /\ m[k] \in S
BY DEF IsMap

(* The keys of a map are file names.                                        *)
LEMMA MapDomain ==
  ASSUME NEW S, NEW m, IsMap(m, S) PROVE DOMAIN m \subseteq File
BY DEF IsMap

(* The types of the fields of an FInfo.                                     *)
LEMMA FInfoFields ==
  ASSUME NEW e \in FInfo
  PROVE  /\ e.mtime \in Nat /\ e.offset \in Offset /\ e.crc \in Word
         /\ e.seen \in BOOLEAN /\ e.collected \in BOOLEAN
         /\ e.fcopy \in BOOLEAN
BY DEF FInfo

(* The FInfo constructor: an entry neither seen nor collected, without a    *)
(* copy.                                                                    *)
LEMMA NewFInfoFields ==
  ASSUME NEW mtime \in Nat, NEW offset \in Offset, NEW crc \in Word
  PROVE  LET n == NewFInfo(mtime, offset, crc)
         IN /\ n \in FInfo
            /\ n.mtime = mtime /\ n.offset = offset /\ n.crc = crc
            /\ ~n.seen /\ ~n.collected /\ ~n.fcopy
BY DEF FInfo, NewFInfo

(* seen(true) changes the flag seen and nothing else.                       *)
LEMMA SeenFields ==
  ASSUME NEW e \in FInfo
  PROVE  LET n == Seen(e)
         IN /\ n \in FInfo
            /\ n.mtime = e.mtime /\ n.offset = e.offset /\ n.crc = e.crc
            /\ n.seen /\ n.collected = e.collected /\ n.fcopy = e.fcopy
BY DEF FInfo, Seen

(* seen(false) and collected(false) reset two flags and nothing else.       *)
LEMMA UnseenFields ==
  ASSUME NEW e \in FInfo
  PROVE  LET n == Unseen(e)
         IN /\ n \in FInfo
            /\ n.mtime = e.mtime /\ n.offset = e.offset /\ n.crc = e.crc
            /\ ~n.seen /\ ~n.collected /\ n.fcopy = e.fcopy
BY DEF FInfo, Unseen

(* mtimeNow() with seen(false) and collected(false): offset, crc and copy   *)
(* stay.                                                                    *)
LEMMA ChangedFields ==
  ASSUME NEW e \in FInfo, NEW mtime \in Nat
  PROVE  LET n == Changed(e, mtime)
         IN /\ n \in FInfo
            /\ n.mtime = mtime /\ n.offset = e.offset /\ n.crc = e.crc
            /\ ~n.seen /\ ~n.collected /\ n.fcopy = e.fcopy
<1>1. Unseen(e) \in FInfo /\ ~Unseen(e).seen /\ ~Unseen(e).collected
  BY UnseenFields
<1> QED BY <1>1, UnseenFields DEF FInfo, Changed

(* copy(tofile) sets the name of the copy and nothing else.                 *)
LEMMA CopiedFields ==
  ASSUME NEW e \in FInfo
  PROVE  LET n == Copied(e)
         IN /\ n \in FInfo
            /\ n.mtime = e.mtime /\ n.offset = e.offset /\ n.crc = e.crc
            /\ n.seen = e.seen /\ n.collected = e.collected /\ n.fcopy
BY DEF FInfo, Copied

(* removecopy() erases the name of the copy and nothing else.               *)
LEMMA CopyRemovedFields ==
  ASSUME NEW e \in FInfo
  PROVE  LET n == CopyRemoved(e)
         IN /\ n \in FInfo
            /\ n.mtime = e.mtime /\ n.offset = e.offset /\ n.crc = e.crc
            /\ n.seen = e.seen /\ n.collected = e.collected /\ ~n.fcopy
BY DEF FInfo, CopyRemoved

(* After getNewObsPart() an entry has the length and the crc of the         *)
(* content.                                                                 *)
LEMMA HandedOnFields ==
  ASSUME NEW e \in FInfo, NEW obs \in Content
  PROVE  LET n == HandedOn(e, obs)
         IN /\ n \in FInfo
            /\ n.mtime = e.mtime /\ n.offset = Len(obs) /\ n.crc = Crc(obs)
            /\ n.seen = e.seen /\ n.collected /\ n.fcopy = e.fcopy
<1>1. Len(obs) \in Offset /\ Crc(obs) \in Word
  BY ContentIsSeq, CrcAssumption, BoundsAssumption DEF Offset
<1> QED BY <1>1 DEF FInfo, HandedOn

(* The types of what stat and read find in synopdir.                        *)
LEMMA DiskFields ==
  ASSUME IsMap(disk, FileStat), NEW f \in DOMAIN disk
  PROVE  /\ f \in File
         /\ disk[f].mtime \in Nat
         /\ disk[f].data \in Seq(Chunk)
         /\ Len(disk[f].data) \in Nat /\ Len(disk[f].data) <= MaxOps
         /\ disk[f].data \in Content
BY ContentIsSeq DEF FileStat, IsMap

(* A prefix of a content is a content.                                      *)
LEMMA PrefixOfContent ==
  ASSUME NEW s \in Content, NEW n \in 0..Len(s)
  PROVE  /\ SubSeq(s, 1, n) \in Content
         /\ Len(SubSeq(s, 1, n)) = n
BY ContentIsSeq, BoundsAssumption

(* A content that is not too long can be extended by a chunk.               *)
LEMMA AppendToContent ==
  ASSUME NEW s \in Content, Len(s) < MaxOps, NEW c \in Chunk
  PROVE  /\ Append(s, c) \in Content
         /\ Len(Append(s, c)) = Len(s) + 1
BY ContentIsSeq, BoundsAssumption

(* The empty file is a content.                                             *)
LEMMA EmptyContent == <<>> \in Content /\ Len(<<>>) = 0
BY ContentIsSeq, BoundsAssumption

(***************************************************************************)
(* What one operation of the writers does to synopdir: a file is as before *)
(* or carries the current second, and is at most one chunk longer.         *)
(***************************************************************************)
DiskOp ==
  \E f \in File : Write(f) \/ Truncate(f) \/ Touch(f) \/ Delete(f)

Fresh(g) ==
  \/ g \in DOMAIN disk /\ disk'[g] = disk[g]
  \/ disk'[g].mtime = now /\ Len(disk'[g].data) <= ops + 1

(* A write, truncation or touch leaves synopdir a map, with a fresh mtime   *)
(* for one file and no change to the others.                                *)
LEMMA PutStat ==
  ASSUME IsMap(disk, FileStat), now \in Nat, ops \in Nat,
         NEW f \in File, NEW d \in Content, Len(d) <= ops + 1,
         disk' = Put(disk, f, [mtime |-> now, data |-> d])
  PROVE  IsMap(disk', FileStat) /\ \A g \in DOMAIN disk' : Fresh(g)
<1> DEFINE st == [mtime |-> now, data |-> d]
<1>1. st \in FileStat /\ st.mtime = now /\ st.data = d
  BY DEF FileStat
<1>2. IsMap(disk', FileStat)
  BY <1>1, PutIsMap
<1>3. ASSUME NEW g \in DOMAIN disk' PROVE Fresh(g)
  <2> HIDE DEF st
  <2>1. disk' = Put(disk, f, st)
    BY DEF st
  <2>2. g = f => disk'[g] = st
    BY <2>1, <1>3 DEF Put
  <2>3. g # f => g \in DOMAIN disk /\ disk'[g] = disk[g]
    BY <2>1, <1>3 DEF Put
  <2> QED
    BY <1>1, <2>2, <2>3 DEF Fresh
<1> QED
  BY <1>2, <1>3

(* What any one operation of the writing programs can do to a file:         *)
(* nothing, or it sets the mtime to the current second.                     *)
LEMMA DiskEffect ==
  ASSUME TypeInv, DiskOp
  PROVE  /\ now < MaxNow /\ ops' = ops + 1 /\ ops' <= MaxOps
         /\ UNCHANGED <<now, pc, shutdown, memory, local, saved, history,
                        bounds>>
         /\ IsMap(disk', FileStat)
         /\ \A g \in DOMAIN disk' : Fresh(g)
<1>1. Operation
  BY DEF DiskOp, Write, Truncate, Touch, Delete
<1>2. /\ IsMap(disk, FileStat)
      /\ now \in Nat /\ ops \in Nat /\ ops < MaxOps /\ MaxOps \in Nat
      /\ \A g \in DOMAIN disk : Len(disk[g].data) <= ops
  BY <1>1, BoundsAssumption, ClockAssumption
  DEF Operation, TypeInv, TypeOK, Loops
<1>3. IsMap(disk', FileStat) /\ \A g \in DOMAIN disk' : Fresh(g)
  <2>1. ASSUME NEW f \in File, Write(f)
        PROVE  IsMap(disk', FileStat) /\ \A g \in DOMAIN disk' : Fresh(g)
    <3> DEFINE old == IF f \in DOMAIN disk THEN disk[f].data ELSE <<>>
    <3>1. PICK n \in 0..Len(old) :
             disk' = Put(disk, f, [mtime |-> now,
                         data |-> Append(SubSeq(old, 1, n), ops + 1)])
      BY <2>1 DEF Write
    <3>2. old \in Content /\ Len(old) \in Nat /\ Len(old) <= ops
      BY <1>2, DiskFields, EmptyContent
    <3> HIDE DEF old
    <3> DEFINE pre == SubSeq(old, 1, n)
    <3>3. pre \in Content /\ Len(pre) = n
      BY <3>2, PrefixOfContent
    <3>4. ops + 1 \in Chunk /\ n \in Nat /\ n <= ops
      BY <1>2, <3>2 DEF Chunk
    <3> HIDE DEF pre
    <3> DEFINE d == Append(pre, ops + 1)
    <3>5. Len(pre) < MaxOps
      BY <1>2, <3>3, <3>4
    <3>6. d \in Content /\ Len(d) = n + 1
      BY <3>3, <3>4, <3>5, AppendToContent
    <3>7. Len(d) <= ops + 1
      BY <1>2, <3>4, <3>6
    <3>8. disk' = Put(disk, f, [mtime |-> now, data |-> d])
      BY <3>1 DEF pre
    <3> HIDE DEF d
    <3> QED
      BY <1>2, <3>6, <3>7, <3>8, PutStat
  <2>2. ASSUME NEW f \in File, Truncate(f)
        PROVE  IsMap(disk', FileStat) /\ \A g \in DOMAIN disk' : Fresh(g)
    BY <1>2, <2>2, EmptyContent, PutStat DEF Truncate
  <2>3. ASSUME NEW f \in File, Touch(f)
        PROVE  IsMap(disk', FileStat) /\ \A g \in DOMAIN disk' : Fresh(g)
    <3>1. disk[f].data \in Content /\ Len(disk[f].data) <= ops + 1
      BY <1>2, <2>3, DiskFields DEF Touch
    <3> QED
      BY <1>2, <2>3, <3>1, PutStat DEF Touch
  <2>4. ASSUME NEW f \in File, Delete(f)
        PROVE  IsMap(disk', FileStat) /\ \A g \in DOMAIN disk' : Fresh(g)
    BY <1>2, <2>4 DEF Delete, Fresh, Without, Restrict, IsMap
  <2> QED
    BY <2>1, <2>2, <2>3, <2>4 DEF DiskOp
<1> QED
  BY <1>1, <1>2, <1>3 DEF Operation

(* The new part consists of chunks of obs, and misses only chunks of a      *)
(* prefix that the entry's offset and crc match.                            *)
LEMMA NewObsPartRange ==
  ASSUME NEW e \in FInfo, NEW obs \in Content
  PROVE  Range(NewObsPart(e, obs)) \subseteq Chunk
<1> DEFINE tail == SubSeq(obs, e.offset + 1, Len(obs))
<1>1. obs \in Seq(Chunk) /\ Len(obs) \in Nat /\ e.offset \in Nat
  BY ContentIsSeq, BoundsAssumption DEF FInfo, Offset
<1>2. Range(obs) \subseteq Chunk
  BY <1>1 DEF Range
<1>3. tail \in Seq(Chunk)
  BY <1>1
<1>4. Range(tail) \subseteq Chunk
  <2> HIDE DEF tail
  <2> QED BY <1>3 DEF Range
<1> QED BY <1>2, <1>4 DEF NewObsPart

(* A new entry has offset and crc 0.                                        *)
LEMMA ZeroFields == 0 \in Offset /\ 0 \in Word
<1>1. 0 \in Offset
  BY BoundsAssumption DEF Offset
<1>2. 0 \in Word
  BY DEF Word
<1> QED BY <1>1, <1>2

(* The types hold when nothing has run yet.                                 *)
LEMMA TypeInvInit == Init => TypeInv
<1> SUFFICES ASSUME Init PROVE TypeInv
  OBVIOUS
<1>1. shutdown \in BOOLEAN /\ hasNew \in BOOLEAN
  BY Zenon DEF Init
<1>2. /\ IsMap(disk, FileStat) /\ IsMap(list, Nat) /\ IsMap(info, FInfo)
      /\ IsMap(tmp, Content) /\ IsMap(saved, SavedLine)
  BY DEF Init, IsMap, NoEntry
<1>3. buf \in Content
  BY EmptyContent DEF Init
<1>4. TypeOK
  BY <1>1, <1>2, <1>3, ClockAssumption, BoundsAssumption DEF Init, TypeOK
<1>5. Loops
  BY DEF Init, Loops, NoEntry
<1> QED
  BY <1>4, <1>5 DEF TypeInv

(* Every step of the daemon and of the programs that write the files keeps  *)
(* the types and what its loops go over.                                    *)
LEMMA TypeInvStep == TypeInv /\ [Next]_vars => TypeInv'
<1> SUFFICES ASSUME TypeInv, [Next]_vars PROVE TypeInv'
  OBVIOUS
<1> USE BoundsAssumption, ClockAssumption
    DEF TypeInv, TypeOK, Loops, env, bounds, local, history, memory
<1>1. ASSUME Tick PROVE TypeInv'
  BY <1>1 DEF Tick
<1>2. ASSUME DiskOp PROVE TypeInv'
  <2>1. /\ ops' = ops + 1 /\ ops' <= MaxOps
        /\ UNCHANGED <<now, pc, shutdown, memory, local, saved, history,
                       bounds>>
        /\ IsMap(disk', FileStat)
        /\ \A g \in DOMAIN disk' : Fresh(g)
    BY <1>2, DiskEffect
  <2>2. TypeOK'
    BY <2>1
  <2>3. \A g \in DOMAIN disk' : Len(disk'[g].data) <= ops'
    BY <2>1, DiskFields DEF Fresh
  <2> QED
    BY <2>1, <2>2, <2>3
<1>3. ASSUME SigTerm PROVE TypeInv'
  BY <1>3 DEF SigTerm
<1>4. ASSUME Crash PROVE TypeInv'
  <2>1. shutdown' \in BOOLEAN /\ hasNew' \in BOOLEAN
    BY <1>4, Zenon DEF Crash, LoseMemory
  <2>2. IsMap(info', FInfo) /\ IsMap(tmp', Content) /\ IsMap(list', Nat)
    BY <1>4 DEF Crash, LoseMemory, IsMap, NoEntry
  <2>3. buf' \in Content
    BY <1>4, EmptyContent DEF Crash, LoseMemory
  <2>4. TypeOK'
    BY <1>4, <2>1, <2>2, <2>3 DEF Crash, LoseMemory
  <2>5. Loops'
    BY <1>4, <2>1, <2>2, <2>3 DEF Crash, LoseMemory
  <2> QED
    BY <2>4, <2>5
<1>5. ASSUME SaveFails PROVE TypeInv'
  BY <1>5 DEF SaveFails, Collected, Fault
<1>6. ASSUME NEW f \in File, CopyFails(f) PROVE TypeInv'
  <2>1. IsMap(info', FInfo) /\ IsMap(tmp', Content)
    BY <1>6 DEF CopyFails, Fault, EndCopy, IsMap, Without, Restrict
  <2>2. buf' \in Content
    BY <1>6, EmptyContent DEF CopyFails, Fault, EndCopy
  <2>3. TypeOK'
    BY <1>6, <2>1, <2>2 DEF CopyFails, Fault, EndCopy
  <2>4. Loops'
    BY <1>6, <2>1, <2>2 DEF CopyFails, Fault, EndCopy
  <2> QED
    BY <2>3, <2>4
<1>7. ASSUME NEW f \in File, ReadFails(f) PROVE TypeInv'
  <2>1. f \in DOMAIN info /\ info[f] \in FInfo
    BY <1>7 DEF ReadFails, Take, Fault, IsMap
  <2>2. Unseen(info[f]) \in FInfo
    BY <1>7, <2>1, UnseenFields DEF ReadFails, Take, Fault
  <2>3. IsMap(info', FInfo) /\ DOMAIN info' = DOMAIN info
    BY <1>7, <2>1, <2>2 DEF ReadFails, Take, Fault, IsMap, Put
  <2>4. IsMap(tmp', Content)
    BY <1>7 DEF ReadFails, Take, Fault, IsMap, Without, Restrict
  <2>5. faults' \in 0..MaxFaults /\ UNCHANGED <<terms, crashes>>
    BY <1>7 DEF ReadFails, Take, Fault
  <2>6. TypeOK'
    BY <1>7, <2>1, <2>2, <2>3, <2>4, <2>5 DEF ReadFails, Take, Fault
  <2>7. Loops'
    BY <1>7, <2>1, <2>2, <2>3, <2>4, <2>5 DEF ReadFails, Take, Fault
  <2> QED
    BY <2>6, <2>7
<1>8. ASSUME NEW f \in File, StatFails(f) PROVE TypeInv'
  <2>1. f \in DOMAIN info /\ info[f] \in FInfo
    BY <1>8 DEF StatFails, Take, Fault, IsMap
  <2>2. Unseen(CopyRemoved(info[f])) \in FInfo
    BY <1>8, <2>1, UnseenFields, CopyRemovedFields DEF StatFails, Take, Fault
  <2>3. IsMap(info', FInfo) /\ DOMAIN info' = DOMAIN info
    BY <1>8, <2>1, <2>2 DEF StatFails, Take, Fault, IsMap, Put
  <2>4. IsMap(tmp', Content)
    BY <1>8 DEF StatFails, Take, Fault, IsMap, Without, Restrict
  <2>5. faults' \in 0..MaxFaults /\ UNCHANGED <<terms, crashes>>
    BY <1>8 DEF StatFails, Take, Fault
  <2>6. TypeOK'
    BY <1>8, <2>1, <2>2, <2>3, <2>4, <2>5 DEF StatFails, Take, Fault
  <2>7. Loops'
    BY <1>8, <2>1, <2>2, <2>3, <2>4, <2>5 DEF StatFails, Take, Fault
  <2> QED
    BY <2>6, <2>7
<1>9. ASSUME Start PROVE TypeInv'
  <2>1. ASSUME NEW f \in DOMAIN saved \intersect DOMAIN disk
        PROVE  NewFInfo(disk[f].mtime, saved[f].offset, saved[f].crc) \in FInfo
    <3>1. disk[f].mtime \in Nat /\ saved[f].offset \in Offset
          /\ saved[f].crc \in Word
      BY <2>1, DiskFields DEF IsMap, SavedLine
    <3> QED
      BY <3>1, NewFInfoFields
  <2>2. IsMap(info', FInfo)
    BY <1>9, <2>1 DEF Start, IsMap
  <2>3. TypeOK'
    BY <1>9, <2>2 DEF Start
  <2>4. Loops'
    BY <1>9 DEF Start
  <2> QED
    BY <2>3, <2>4
<1>10. ASSUME Exit PROVE TypeInv'
  <2>1. shutdown' \in BOOLEAN /\ hasNew' \in BOOLEAN
    BY <1>10, Zenon DEF Exit, LoseMemory
  <2>2. IsMap(info', FInfo) /\ IsMap(tmp', Content) /\ IsMap(list', Nat)
    BY <1>10 DEF Exit, LoseMemory, IsMap, NoEntry
  <2>3. buf' \in Content
    BY <1>10, EmptyContent DEF Exit, LoseMemory
  <2>4. TypeOK'
    BY <1>10, <2>1, <2>2, <2>3 DEF Exit, LoseMemory
  <2>5. Loops'
    BY <1>10, <2>1, <2>2, <2>3 DEF Exit, LoseMemory
  <2> QED
    BY <2>4, <2>5
<1>11. ASSUME StartScan PROVE TypeInv'
  <2>1. hasNew' \in BOOLEAN
    BY <1>11, Zenon DEF StartScan, Due
  <2>2. IsMap(list', Nat)
    BY <1>11 DEF StartScan, Due, IsMap, NoEntry
  <2>3. TypeOK'
    BY <1>11, <2>1, <2>2 DEF StartScan, Due
  <2>4. Loops'
    BY <1>11, <2>1, <2>2 DEF StartScan, Due
  <2> QED
    BY <2>3, <2>4
<1>12. ASSUME NothingListed PROVE TypeInv'
  BY <1>12 DEF NothingListed
<1>13. ASSUME EraseGone PROVE TypeInv'
  <2>1. IsMap(info', FInfo) /\ DOMAIN list \subseteq File
    BY <1>13 DEF EraseGone, IsMap, Restrict
  <2>2. TypeOK'
    BY <1>13, <2>1 DEF EraseGone
  <2>3. Loops'
    BY <1>13, <2>1 DEF EraseGone
  <2> QED
    BY <2>2, <2>3
<1>14. ASSUME EndScan PROVE TypeInv'
  <2>1. todo' \subseteq DOMAIN info /\ DOMAIN info \subseteq File
    BY <1>14 DEF EndScan, IsMap
  <2>2. pc' \in {"collect", "idle"}
    BY <1>14 DEF EndScan
  <2>3. TypeOK'
    BY <1>14, <2>1, <2>2 DEF EndScan
  <2>4. Loops'
    BY <1>14, <2>1, <2>2 DEF EndScan
  <2> QED
    BY <2>3, <2>4
<1>15. ASSUME StartSave PROVE TypeInv'
  <2>1. IsMap(saved', SavedLine)
    BY <1>15 DEF StartSave, Collected, IsMap, NoEntry
  <2>2. todo' = DOMAIN info /\ DOMAIN info \subseteq File
    BY <1>15 DEF StartSave, Collected, IsMap
  <2>3. TypeOK'
    BY <1>15, <2>1, <2>2 DEF StartSave, Collected
  <2>4. Loops'
    BY <1>15, <2>1, <2>2 DEF StartSave, Collected
  <2> QED
    BY <2>3, <2>4
<1>16. ASSUME EndSave PROVE TypeInv'
  BY <1>16 DEF EndSave
<1>17. ASSUME NEW f \in File, ListFile(f) PROVE TypeInv'
  <2>1. f \in DOMAIN disk => disk[f].mtime \in Nat
    BY <1>17, DiskFields DEF ListFile, Fault, Listed
  <2>2. IsMap(list', Nat)
    BY <1>17, <2>1 DEF ListFile, Fault, Listed, IsMap, Put
  <2>3. TypeOK'
    BY <1>17, <2>1, <2>2 DEF ListFile, Fault, Listed
  <2>4. Loops'
    BY <1>17, <2>1, <2>2 DEF ListFile, Fault, Listed
  <2> QED
    BY <2>3, <2>4
<1>18. ASSUME NEW f \in File, NewEntry(f) PROVE TypeInv'
  <2>1. list[f] \in Nat
    BY <1>18 DEF NewEntry, Visit, IsMap
  <2>2. NewFInfo(list[f], 0, 0) \in FInfo
    BY <1>18, <2>1, NewFInfoFields, ZeroFields DEF NewEntry, Visit
  <2>3. IsMap(info', FInfo)
    BY <1>18, <2>2 DEF NewEntry, Visit, IsMap, Put
  <2>4. TypeOK'
    BY <1>18, <2>1, <2>2, <2>3 DEF NewEntry, Visit
  <2>5. Loops'
    BY <1>18, <2>1, <2>2, <2>3 DEF NewEntry, Visit
  <2> QED
    BY <2>4, <2>5
<1>19. ASSUME NEW f \in File, NewMtime(f) PROVE TypeInv'
  <2>1. f \in DOMAIN info /\ info[f] \in FInfo
    BY <1>19 DEF NewMtime, StatThrows, Fault, Visit, IsMap
  <2>2. f \in DOMAIN disk => Changed(info[f], disk[f].mtime) \in FInfo
    BY <1>19, <2>1, DiskFields, ChangedFields DEF NewMtime, StatThrows, Fault, Visit
  <2>3. IsMap(info', FInfo)
    BY <1>19, <2>1, <2>2 DEF NewMtime, StatThrows, Fault, Visit, IsMap, Put, Without, Restrict
  <2>4. IsMap(tmp', Content)
    BY <1>19 DEF NewMtime, StatThrows, Fault, Visit, IsMap, Without, Restrict
  <2>5. TypeOK'
    BY <1>19, <2>1, <2>2, <2>3, <2>4 DEF NewMtime, StatThrows, Fault, Visit
  <2>6. Loops'
    BY <1>19, <2>1, <2>2, <2>3, <2>4 DEF NewMtime, StatThrows, Fault, Visit
  <2> QED
    BY <2>5, <2>6
<1>20. ASSUME NEW f \in File, SeenFirst(f) PROVE TypeInv'
  <2>1. f \in DOMAIN info /\ info[f] \in FInfo
    BY <1>20 DEF SeenFirst, Visit, SameMtime, IsMap
  <2>2. Seen(info[f]) \in FInfo
    BY <1>20, <2>1, SeenFields DEF SeenFirst, Visit, SameMtime
  <2>3. IsMap(info', FInfo) /\ DOMAIN info' = DOMAIN info
    BY <1>20, <2>1, <2>2 DEF SeenFirst, Visit, SameMtime, IsMap, Put
  <2>4. hasNew' \in BOOLEAN
    BY <1>20, Zenon DEF SeenFirst, Visit, SameMtime
  <2>5. TypeOK'
    BY <1>20, <2>1, <2>2, <2>3, <2>4 DEF SeenFirst, Visit, SameMtime
  <2>6. Loops'
    BY <1>20, <2>1, <2>2, <2>3, <2>4 DEF SeenFirst, Visit, SameMtime
  <2> QED
    BY <2>5, <2>6
<1>21. ASSUME NEW f \in File, SeenCollected(f) PROVE TypeInv'
  BY <1>21 DEF SeenCollected, Visit, SameMtime
<1>22. ASSUME NEW f \in File, StartCopy(f) PROVE TypeInv'
  <2>1. buf' \in Content
    BY <1>22, EmptyContent DEF StartCopy, Visit, SameMtime
  <2>2. TypeOK'
    BY <1>22, <2>1 DEF StartCopy, Visit, SameMtime
  <2>3. Loops'
    BY <1>22, <2>1 DEF StartCopy, Visit, SameMtime
  <2> QED
    BY <2>2, <2>3
<1>23. ASSUME NEW f \in File, CopyRead(f) PROVE TypeInv'
  <2>1. disk[f].data \in Seq(Chunk) /\ Len(disk[f].data) <= MaxOps
    BY <1>23, DiskFields DEF CopyRead
  <2>2. Len(buf) \in Nat /\ disk[f].data[Len(buf) + 1] \in Chunk
    BY <1>23, <2>1, ContentIsSeq DEF CopyRead
  <2>3. buf' \in Content
    BY <1>23, <2>1, <2>2, AppendToContent DEF CopyRead
  <2>4. TypeOK'
    BY <1>23, <2>1, <2>2, <2>3 DEF CopyRead
  <2>5. Loops'
    BY <1>23, <2>1, <2>2, <2>3 DEF CopyRead
  <2> QED
    BY <2>4, <2>5
<1>24. ASSUME NEW f \in File, CopyEnds(f) PROVE TypeInv'
  BY <1>24 DEF CopyEnds
<1>25. ASSUME NEW f \in File, CopyVerified(f) PROVE TypeInv'
  <2>1. f \in DOMAIN info /\ info[f] \in FInfo
    BY <1>25 DEF CopyVerified, EndCopy, IsMap
  <2>2. Copied(info[f]) \in FInfo
    BY <1>25, <2>1, CopiedFields DEF CopyVerified, EndCopy
  <2>3. IsMap(info', FInfo) /\ DOMAIN info' = DOMAIN info
    BY <1>25, <2>1, <2>2 DEF CopyVerified, EndCopy, IsMap, Put
  <2>4. IsMap(tmp', Content)
    BY <1>25 DEF CopyVerified, EndCopy, IsMap, Put
  <2>5. buf' \in Content
    BY <1>25, EmptyContent DEF CopyVerified, EndCopy
  <2>6. hasNew' \in BOOLEAN
    BY <1>25, Zenon DEF CopyVerified, EndCopy
  <2>7. TypeOK'
    BY <1>25, <2>1, <2>2, <2>3, <2>4, <2>5, <2>6 DEF CopyVerified, EndCopy
  <2>8. Loops'
    BY <1>25, <2>1, <2>2, <2>3, <2>4, <2>5, <2>6 DEF CopyVerified, EndCopy
  <2> QED
    BY <2>7, <2>8
<1>26. ASSUME NEW f \in File, ChangedAfterCopy(f) PROVE TypeInv'
  <2>1. f \in DOMAIN info /\ info[f] \in FInfo
    BY <1>26 DEF ChangedAfterCopy, EndCopy, IsMap
  <2>2. Changed(info[f], disk[f].mtime) \in FInfo
    BY <1>26, <2>1, DiskFields, ChangedFields DEF ChangedAfterCopy, EndCopy
  <2>3. IsMap(info', FInfo) /\ DOMAIN info' = DOMAIN info
    BY <1>26, <2>1, <2>2 DEF ChangedAfterCopy, EndCopy, IsMap, Put
  <2>4. buf' \in Content
    BY <1>26, EmptyContent DEF ChangedAfterCopy, EndCopy
  <2>5. TypeOK'
    BY <1>26, <2>1, <2>2, <2>3, <2>4 DEF ChangedAfterCopy, EndCopy
  <2>6. Loops'
    BY <1>26, <2>1, <2>2, <2>3, <2>4 DEF ChangedAfterCopy, EndCopy
  <2> QED
    BY <2>5, <2>6
<1>27. ASSUME NEW f \in File, GoneAfterCopy(f) PROVE TypeInv'
  <2>1. IsMap(info', FInfo) /\ IsMap(tmp', Content)
    BY <1>27 DEF GoneAfterCopy, StatThrows, Fault, EndCopy, IsMap, Without, Restrict
  <2>2. buf' \in Content
    BY <1>27, EmptyContent DEF GoneAfterCopy, StatThrows, Fault, EndCopy
  <2>3. TypeOK'
    BY <1>27, <2>1, <2>2 DEF GoneAfterCopy, StatThrows, Fault, EndCopy
  <2>4. Loops'
    BY <1>27, <2>1, <2>2 DEF GoneAfterCopy, StatThrows, Fault, EndCopy
  <2> QED
    BY <2>3, <2>4
<1>28. ASSUME NEW f \in File, Collect(f) PROVE TypeInv'
  <2>1. /\ f \in DOMAIN info /\ info[f] \in FInfo
        /\ tmp[f] \in Content
    BY <1>28 DEF Collect, Take, IsMap
  <2>2. HandedOn(CopyRemoved(info[f]), tmp[f]) \in FInfo
    BY <2>1, CopyRemovedFields, HandedOnFields
  <2>3. IsMap(info', FInfo) /\ DOMAIN info' = DOMAIN info
    BY <1>28, <2>1, <2>2 DEF Collect, Take, IsMap, Put
  <2>4. IsMap(tmp', Content)
    BY <1>28 DEF Collect, Take, IsMap, Without, Restrict
  <2>5. part' \in SUBSET Chunk
    BY <1>28, <2>1, NewObsPartRange DEF Collect, Take
  <2>6. pc' \in {"collect", "hand"}
    BY <1>28 DEF Collect, Take
  <2>7. TypeOK'
    BY <1>28, <2>3, <2>4, <2>5, <2>6 DEF Collect, Take
  <2>8. Loops'
    BY <1>28, <2>3, <2>6 DEF Collect, Take
  <2> QED
    BY <2>7, <2>8
<1>29. ASSUME NEW f \in File, SaveLine(f) PROVE TypeInv'
  <2>1. f \in DOMAIN info /\ info[f] \in FInfo
    BY <1>29 DEF SaveLine, IsMap
  <2>2. [offset |-> info[f].offset, crc |-> info[f].crc] \in SavedLine
    BY <1>29, <2>1 DEF SaveLine, FInfo, SavedLine
  <2>3. IsMap(saved', SavedLine)
    BY <1>29, <2>2 DEF SaveLine, IsMap, Put
  <2>4. TypeOK'
    BY <1>29, <2>1, <2>2, <2>3 DEF SaveLine
  <2>5. Loops'
    BY <1>29, <2>1, <2>2, <2>3 DEF SaveLine
  <2> QED
    BY <2>4, <2>5
<1>30. ASSUME NEW c \in Chunk, Hand(c) PROVE TypeInv'
  BY <1>30 DEF Hand
<1>31. ASSUME UNCHANGED vars PROVE TypeInv'
  BY <1>31 DEF vars
<1>32. ASSUME OpenFails PROVE TypeInv'
  BY <1>32 DEF OpenFails, Fault
<1> QED
  BY <1>1, <1>2, <1>3, <1>4, <1>5, <1>6, <1>7, <1>8, <1>9, <1>10, <1>11, <1>12, <1>13, <1>14, <1>15, <1>16, <1>17, <1>18, <1>19, <1>20, <1>21, <1>22, <1>23, <1>24, <1>25, <1>26, <1>27, <1>28, <1>29, <1>30, <1>31, <1>32
  DEF Next, Environment, DiskOp, Failure, Daemon, Scan

(* The type invariant holds of every behaviour: every stat, copy,           *)
(* collection, save and restart of the daemon keeps its variables in their  *)
(* types.                                                                   *)
THEOREM TypeCorrect == Spec => []TypeOK
<1>1. Spec => []TypeInv
  BY TypeInvInit, TypeInvStep, PTL DEF Spec
<1>2. TypeInv => TypeOK
  BY DEF TypeInv
<1> QED BY <1>1, <1>2, PTL

(***************************************************************************)
(* Timing                                                                  *)
(***************************************************************************)
(* Clock and last scan are numbers, within the bound.                       *)
LEMMA TimeTypes ==
  ASSUME TypeInv
  PROVE  now \in Nat /\ lastScan \in Nat /\ MaxNow \in Nat /\ now <= MaxNow
BY ClockAssumption DEF TypeInv, TypeOK

(* Every step keeps the order of mtimes, the last scan and the clock: an    *)
(* entry seen twice has an mtime before the scan that copies it.            *)
LEMMA TimingStep ==
  TypeInv /\ TypeInv' /\ Timing /\ Copying /\ [Next]_vars => Timing'
<1> SUFFICES ASSUME TypeInv, TypeInv', Timing, Copying, [Next]_vars
             PROVE  Timing'
  OBVIOUS
<1> USE DEF env, bounds, local, history, memory
<1>1. ASSUME Tick PROVE Timing'
  <2>1. /\ \A f \in DOMAIN info : info[f].mtime \in Nat
        /\ \A f \in DOMAIN list : list[f] \in Nat
    BY DEF TypeInv, TypeOK, IsMap, FInfo
  <2>2. \A f \in DOMAIN disk : disk[f].mtime \in Nat
    BY DiskFields DEF TypeInv, TypeOK
  <2> QED
    BY <1>1, <2>1, <2>2, TimeTypes DEF Tick, Timing, Old
<1>2. ASSUME DiskOp PROVE Timing'
  <2>1. /\ now < MaxNow
        /\ UNCHANGED <<now, pc, shutdown, memory, local, saved, history,
                       bounds>>
        /\ \A g \in DOMAIN disk' : Fresh(g)
    BY <1>2, DiskEffect
  <2> QED
    BY <2>1, TimeTypes DEF Timing, Old, Fresh, memory, local
<1>3. ASSUME SigTerm PROVE Timing'
  BY <1>3 DEF SigTerm, Timing, Old, Put, Without, Restrict
<1>4. ASSUME Crash PROVE Timing'
  BY <1>4 DEF Crash, LoseMemory, Timing, NoEntry, TypeInv, TypeOK
<1>5. ASSUME SaveFails PROVE Timing'
  BY <1>5 DEF SaveFails, Collected, Fault, Timing, Old, Put, Without, Restrict
<1>6. ASSUME NEW f \in File, CopyFails(f) PROVE Timing'
  BY <1>6 DEF CopyFails, Fault, EndCopy, Timing, Old, Put, Without, Restrict
<1>7. ASSUME NEW f \in File, ReadFails(f) PROVE Timing'
  <2>1. f \in DOMAIN info /\ info[f] \in FInfo
    BY <1>7 DEF ReadFails, Take, Fault, TypeInv, TypeOK, Loops, IsMap
  <2>2. LET n == Unseen(info[f]) IN n.mtime = info[f].mtime /\ ~n.seen /\ ~n.collected
    BY <1>7, <2>1, UnseenFields DEF ReadFails, Take, Fault
  <2> QED
    BY <1>7, <2>1, <2>2 DEF ReadFails, Take, Fault, Timing, Old, Put, Without, Restrict
<1>8. ASSUME NEW f \in File, StatFails(f) PROVE Timing'
  <2>1. f \in DOMAIN info /\ info[f] \in FInfo
    BY <1>8 DEF StatFails, Take, Fault, TypeInv, TypeOK, Loops, IsMap
  <2>2. LET n == Unseen(CopyRemoved(info[f])) IN n.mtime = info[f].mtime /\ ~n.seen /\ ~n.collected
    BY <1>8, <2>1, UnseenFields, CopyRemovedFields DEF StatFails, Take, Fault
  <2> QED
    BY <1>8, <2>1, <2>2 DEF StatFails, Take, Fault, Timing, Old, Put, Without, Restrict
<1>9. ASSUME Start PROVE Timing'
  <2>1. ASSUME NEW f \in DOMAIN info'
        PROVE  /\ f \in DOMAIN disk
               /\ info'[f].mtime = disk[f].mtime
               /\ ~info'[f].seen /\ ~info'[f].collected
    <3>1. f \in DOMAIN saved /\ f \in DOMAIN disk
          /\ info'[f] = NewFInfo(disk[f].mtime, saved[f].offset, saved[f].crc)
      BY <1>9, <2>1 DEF Start
    <3>2. disk[f].mtime \in Nat /\ saved[f].offset \in Offset
          /\ saved[f].crc \in Word
      BY <3>1, DiskFields DEF TypeInv, TypeOK, IsMap, SavedLine
    <3> QED
      BY <3>1, <3>2, NewFInfoFields
  <2> QED
    BY <1>9, <2>1 DEF Start, Timing
<1>10. ASSUME Exit PROVE Timing'
  BY <1>10 DEF Exit, LoseMemory, Timing, NoEntry, TypeInv, TypeOK
<1>11. ASSUME StartScan PROVE Timing'
  <2>1. \A f \in DOMAIN info : info[f].mtime \in Nat
    BY DEF TypeInv, TypeOK, IsMap, FInfo
  <2>2. lastScan < now \/ now = MaxNow
    BY <1>11, TimeTypes, ClockAssumption DEF StartScan, Due
  <2> QED
    BY <1>11, <2>1, <2>2, TimeTypes DEF StartScan, Timing, Old, NoEntry
<1>12. ASSUME NothingListed PROVE Timing'
  BY <1>12 DEF NothingListed, Timing, Old, Put, Without, Restrict
<1>13. ASSUME EraseGone PROVE Timing'
  BY <1>13 DEF EraseGone, Timing, Old, Put, Without, Restrict
<1>14. ASSUME EndScan PROVE Timing'
  BY <1>14 DEF EndScan, Timing, Old, Put, Without, Restrict
<1>15. ASSUME StartSave PROVE Timing'
  BY <1>15 DEF StartSave, Collected, Timing, Old, Put, Without, Restrict
<1>16. ASSUME EndSave PROVE Timing'
  BY <1>16 DEF EndSave, Timing, Old, Put, Without, Restrict
<1>17. ASSUME NEW f \in File, ListFile(f) PROVE Timing'
  BY <1>17 DEF ListFile, Fault, Listed, Timing, Old, Put, Without, Restrict
<1>18. ASSUME NEW f \in File, NewEntry(f) PROVE Timing'
  <2>1. f \in DOMAIN list /\ list[f] \in Nat
    BY <1>18 DEF NewEntry, Visit, TypeInv, TypeOK, Loops, IsMap
  <2>2. LET n == NewFInfo(list[f], 0, 0) IN n.mtime = list[f] /\ ~n.seen /\ ~n.collected
    BY <1>18, <2>1, NewFInfoFields, ZeroFields DEF NewEntry, Visit
  <2> QED
    BY <1>18, <2>1, <2>2 DEF NewEntry, Visit, Timing, Old, Put, Without, Restrict
<1>19. ASSUME NEW f \in File, NewMtime(f) PROVE Timing'
  <2>1. f \in DOMAIN info /\ info[f] \in FInfo
    BY <1>19 DEF NewMtime, StatThrows, Fault, Visit, TypeInv, TypeOK, IsMap
  <2>2. f \in DOMAIN disk => disk[f].mtime \in Nat
    BY <1>19, DiskFields DEF NewMtime, StatThrows, Fault, Visit, TypeInv, TypeOK
  <2>3. f \in DOMAIN disk =>
          LET n == Changed(info[f], disk[f].mtime)
          IN n.mtime = disk[f].mtime /\ ~n.seen /\ ~n.collected
    BY <1>19, <2>1, <2>2, ChangedFields DEF NewMtime, StatThrows, Fault, Visit
  <2> QED
    BY <1>19, <2>1, <2>2, <2>3 DEF NewMtime, StatThrows, Fault, Visit, Timing, Old, Put, Without, Restrict
<1>20. ASSUME NEW f \in File, SeenFirst(f) PROVE Timing'
  <2>1. f \in DOMAIN info /\ info[f] \in FInfo
    BY <1>20 DEF SeenFirst, Visit, SameMtime, TypeInv, TypeOK, IsMap
  <2>2. LET n == Seen(info[f])
        IN n.mtime = info[f].mtime /\ n.collected = info[f].collected
    BY <1>20, <2>1, SeenFields DEF SeenFirst, Visit, SameMtime
  <2> QED
    BY <1>20, <2>1, <2>2 DEF SeenFirst, Visit, SameMtime, Timing, Old, Put, Without, Restrict
<1>21. ASSUME NEW f \in File, SeenCollected(f) PROVE Timing'
  BY <1>21 DEF SeenCollected, Visit, SameMtime, Timing, Old, Put, Without, Restrict
<1>22. ASSUME NEW f \in File, StartCopy(f) PROVE Timing'
  BY <1>22 DEF StartCopy, Visit, SameMtime, Timing, Old, Put, Without, Restrict
<1>23. ASSUME NEW f \in File, CopyRead(f) PROVE Timing'
  BY <1>23 DEF CopyRead, Timing, Old, Put, Without, Restrict
<1>24. ASSUME NEW f \in File, CopyEnds(f) PROVE Timing'
  BY <1>24 DEF CopyEnds, Timing, Old, Put, Without, Restrict
<1>25. ASSUME NEW f \in File, CopyVerified(f) PROVE Timing'
  <2>1. f \in DOMAIN info /\ info[f] \in FInfo
    BY <1>25 DEF CopyVerified, EndCopy, TypeInv, TypeOK, Loops, IsMap
  <2>2. LET n == Copied(info[f])
        IN /\ n.mtime = info[f].mtime /\ n.seen = info[f].seen
           /\ n.collected = info[f].collected
    BY <1>25, <2>1, CopiedFields DEF CopyVerified, EndCopy
  <2> QED
    BY <1>25, <2>1, <2>2 DEF CopyVerified, EndCopy, Timing, Old, Put, Without, Restrict
<1>26. ASSUME NEW f \in File, ChangedAfterCopy(f) PROVE Timing'
  <2>1. f \in DOMAIN info /\ info[f] \in FInfo
    BY <1>26 DEF ChangedAfterCopy, EndCopy, TypeInv, TypeOK, Loops, IsMap
  <2>2. disk[f].mtime \in Nat
    BY <1>26, DiskFields DEF ChangedAfterCopy, EndCopy, TypeInv, TypeOK
  <2>3. LET n == Changed(info[f], disk[f].mtime) IN n.mtime = disk[f].mtime /\ ~n.seen /\ ~n.collected
    BY <1>26, <2>1, <2>2, ChangedFields DEF ChangedAfterCopy, EndCopy
  <2> QED
    BY <1>26, <2>1, <2>2, <2>3 DEF ChangedAfterCopy, EndCopy, Timing, Old, Put, Without, Restrict
<1>27. ASSUME NEW f \in File, GoneAfterCopy(f) PROVE Timing'
  BY <1>27 DEF GoneAfterCopy, StatThrows, Fault, EndCopy, Timing, Old, Put, Without, Restrict
<1>28. ASSUME NEW f \in File, Collect(f) PROVE Timing'
  <2>1. /\ f \in DOMAIN info /\ info[f] \in FInfo
        /\ tmp[f] \in Content
    BY <1>28 DEF Collect, Take, TypeInv, TypeOK, Loops, IsMap
  <2>2. LET n == HandedOn(CopyRemoved(info[f]), tmp[f])
        IN n.mtime = info[f].mtime /\ n.seen = info[f].seen
    BY <1>28, <2>1, HandedOnFields, CopyRemovedFields DEF Collect, Take
  <2>3. info[f].mtime < lastScan
    BY <1>28 DEF Collect, Take, Copying
  <2> QED
    BY <1>28, <2>1, <2>2, <2>3 DEF Collect, Take, Timing, Old, Put, Without, Restrict
<1>29. ASSUME NEW f \in File, SaveLine(f) PROVE Timing'
  BY <1>29 DEF SaveLine, Timing, Old, Put, Without, Restrict
<1>30. ASSUME NEW c \in Chunk, Hand(c) PROVE Timing'
  BY <1>30 DEF Hand, Timing, Old, Put, Without, Restrict
<1>31. ASSUME UNCHANGED vars PROVE Timing'
  BY <1>31 DEF vars, Timing, Old, Put, Without, Restrict
<1>32. ASSUME OpenFails PROVE Timing'
  BY <1>32 DEF OpenFails, Fault, Timing, Old
<1> QED
  BY <1>1, <1>2, <1>3, <1>4, <1>5, <1>6, <1>7, <1>8, <1>9, <1>10, <1>11, <1>12, <1>13, <1>14, <1>15, <1>16, <1>17, <1>18, <1>19, <1>20, <1>21, <1>22, <1>23, <1>24, <1>25, <1>26, <1>27, <1>28, <1>29, <1>30, <1>31, <1>32
  DEF Next, Environment, DiskOp, Failure, Daemon, Scan

(***************************************************************************)
(* Copying                                                                 *)
(***************************************************************************)
(* A copy that has just begun is a prefix of the file.                      *)
LEMMA EmptyPrefix ==
  ASSUME NEW t \in Seq(Chunk) PROVE IsPrefix(<<>>, t)
BY DEF IsPrefix

(* Reading one more chunk of the file keeps the copy a prefix.              *)
LEMMA LongerPrefix ==
  ASSUME NEW s \in Seq(Chunk), NEW t \in Seq(Chunk), IsPrefix(s, t),
         Len(s) < Len(t)
  PROVE  IsPrefix(Append(s, t[Len(s) + 1]), t)
<1>1. s = SubSeq(t, 1, Len(s))
  BY DEF IsPrefix
<1>2. t[Len(s) + 1] \in Chunk
  OBVIOUS
<1> DEFINE a == Append(s, t[Len(s) + 1])
<1>3. a \in Seq(Chunk) /\ Len(a) = Len(s) + 1
  BY <1>2
<1>4. SubSeq(t, 1, Len(a)) \in Seq(Chunk)
      /\ Len(SubSeq(t, 1, Len(a))) = Len(s) + 1
  BY <1>3
<1>5. \A i \in 1..Len(a) : a[i] = SubSeq(t, 1, Len(a))[i]
  BY <1>1, <1>3
<1>6. a = SubSeq(t, 1, Len(a))
  BY <1>3, <1>4, <1>5, SeqEqual
<1> QED
  BY <1>3, <1>6 DEF IsPrefix

(* A prefix as long as the file is the file.                                *)
LEMMA FullPrefix ==
  ASSUME NEW s \in Seq(Chunk), NEW t \in Seq(Chunk), IsPrefix(s, t),
         Len(s) >= Len(t)
  PROVE  s = t
BY SeqEqual DEF IsPrefix

(* No copy outlives the failure to read it: copies are unlinked, or no     *)
(* read fails.                                                             *)
NoStaleCopy == ~Debug \/ "read" \notin Failing

(* Every step keeps the copies: those that wait to be collected are whole   *)
(* unless the file shows a new mtime, and the one in the making is a        *)
(* prefix.                                                                  *)
LEMMA CopyingStep ==
  ASSUME NoStaleCopy
  PROVE  TypeInv /\ TypeInv' /\ Timing /\ Copying /\ [Next]_vars => Copying'
<1> SUFFICES ASSUME TypeInv, TypeInv', Timing, Copying, [Next]_vars
             PROVE  Copying'
  OBVIOUS
<1> USE DEF env, bounds, local, history, memory
<1>1. ASSUME Tick PROVE Copying'
  BY <1>1 DEF Tick, Copying, Same, memory, local
<1>2. ASSUME DiskOp PROVE Copying'
  <2>1. /\ UNCHANGED <<now, pc, shutdown, memory, local, saved, history,
                       bounds>>
        /\ \A g \in DOMAIN disk' : Fresh(g)
    BY <1>2, DiskEffect
  <2>2. ASSUME NEW g, Same(g)', info[g].mtime < lastScan
        PROVE  Same(g) /\ disk'[g] = disk[g]
    <3>1. info[g].mtime # now
      BY <2>2, TimeTypes DEF Timing
    <3> QED
      BY <2>1, <2>2, <3>1 DEF Same, Fresh
  <2>3. \A g \in DOMAIN tmp : info[g].mtime < lastScan
    BY DEF Copying
  <2>4. pc \in {"copy", "verify"} => \A g \in cur : info[g].mtime < lastScan
    BY DEF Copying, Timing, Old, TypeInv, Loops
  <2> QED
    BY <2>1, <2>2, <2>3, <2>4 DEF Copying
<1>3. ASSUME SigTerm PROVE Copying'
  BY <1>3 DEF SigTerm, Copying, Same, ToBeCollected, Put, Without, Restrict
<1>4. ASSUME Crash PROVE Copying'
  BY <1>4 DEF Crash, LoseMemory, Copying, NoEntry
<1>5. ASSUME SaveFails PROVE Copying'
  BY <1>5 DEF SaveFails, Collected, Fault, Copying, Same, ToBeCollected, Put, Without, Restrict
<1>6. ASSUME NEW f \in File, CopyFails(f) PROVE Copying'
  <2>1. f \notin DOMAIN tmp
    BY <1>6 DEF CopyFails, Fault, EndCopy, Copying, TypeInv, Loops
  <2> QED
    BY <1>6, <2>1 DEF CopyFails, Fault, EndCopy, Copying, Same, ToBeCollected, Put, Without, Restrict
<1>7. ASSUME NEW f \in File, ReadFails(f) PROVE Copying'
  <2>1. /\ tmp' = IF Debug THEN tmp ELSE Without(tmp, f)
        /\ f \in DOMAIN tmp => "read" \in Failing
    BY <1>7 DEF ReadFails, Fault
  <2>2. f \notin DOMAIN tmp' /\ DOMAIN tmp' \subseteq DOMAIN tmp
        /\ \A g \in DOMAIN tmp' : tmp'[g] = tmp[g]
    <3>1. CASE Debug
      <4>1. f \notin DOMAIN tmp /\ tmp' = tmp
        BY <2>1, <3>1, Zenon DEF NoStaleCopy
      <4> QED
        BY <4>1
    <3>2. CASE ~Debug
      <4>1. tmp' = Without(tmp, f)
        BY <2>1, <3>2
      <4> QED
        BY <4>1 DEF Without, Restrict
    <3> QED
      BY <3>1, <3>2
  <2>3. \A g \in DOMAIN info \ {f} : g \in DOMAIN info' /\ info'[g] = info[g]
    BY <1>7 DEF ReadFails, Put
  <2> QED
    BY <1>7, <2>2, <2>3 DEF ReadFails, Take, Copying, Same
<1>8. ASSUME NEW f \in File, StatFails(f) PROVE Copying'
  BY <1>8 DEF StatFails, Take, Fault, Copying, Same, ToBeCollected, Put, Without, Restrict
<1>9. ASSUME Start PROVE Copying'
  BY <1>9 DEF Start, Copying
<1>10. ASSUME Exit PROVE Copying'
  BY <1>10 DEF Exit, LoseMemory, Copying, NoEntry
<1>11. ASSUME StartScan PROVE Copying'
  BY <1>11, TimeTypes DEF StartScan, Due, Copying, Timing, NoEntry
<1>12. ASSUME NothingListed PROVE Copying'
  BY <1>12 DEF NothingListed, Copying, Same, ToBeCollected, Put, Without, Restrict
<1>13. ASSUME EraseGone PROVE Copying'
  BY <1>13 DEF EraseGone, Copying
<1>14. ASSUME EndScan PROVE Copying'
  BY <1>14 DEF EndScan, Copying, Same, ToBeCollected, Put, Without, Restrict
<1>15. ASSUME StartSave PROVE Copying'
  BY <1>15 DEF StartSave, Collected, Copying, Same, ToBeCollected, Put, Without, Restrict
<1>16. ASSUME EndSave PROVE Copying'
  BY <1>16 DEF EndSave, Copying, Same, ToBeCollected, Put, Without, Restrict
<1>17. ASSUME NEW f \in File, ListFile(f) PROVE Copying'
  BY <1>17 DEF ListFile, Fault, Listed, Copying, Same, ToBeCollected, Put, Without, Restrict
<1>18. ASSUME NEW f \in File, NewEntry(f) PROVE Copying'
  <2>1. f \notin DOMAIN tmp
    BY <1>18 DEF NewEntry, Visit, Copying
  <2> QED
    BY <1>18, <2>1 DEF NewEntry, Visit, Copying, Same, ToBeCollected, Put, Without, Restrict
<1>19. ASSUME NEW f \in File, NewMtime(f) PROVE Copying'
  <2>1. f \notin DOMAIN tmp
    BY <1>19 DEF NewMtime, StatThrows, Fault, Visit, Copying
  <2>2. \A g \in DOMAIN info \ {f} : g \in DOMAIN info' /\ info'[g] = info[g]
    BY <1>19 DEF NewMtime, StatThrows, Put, Without, Restrict
  <2>3. UNCHANGED tmp \/ tmp' = Without(tmp, f)
    BY <1>19 DEF NewMtime, StatThrows
  <2>4. DOMAIN tmp' = DOMAIN tmp /\ \A g \in DOMAIN tmp : tmp'[g] = tmp[g]
    BY <2>1, <2>3 DEF Without, Restrict
  <2>5. UNCHANGED <<disk, pc, lastScan, hasNew>> /\ todo' \subseteq todo
        /\ pc = "scan"
    BY <1>19 DEF NewMtime, Visit
  <2> QED
    BY <2>1, <2>2, <2>4, <2>5 DEF Copying, Same
<1>20. ASSUME NEW f \in File, SeenFirst(f) PROVE Copying'
  <2>1. f \notin DOMAIN tmp
    BY <1>20 DEF SeenFirst, Visit, SameMtime, Copying
  <2> QED
    BY <1>20, <2>1 DEF SeenFirst, Visit, SameMtime, Copying, Same, ToBeCollected, Put, Without, Restrict
<1>21. ASSUME NEW f \in File, SeenCollected(f) PROVE Copying'
  BY <1>21 DEF SeenCollected, Visit, SameMtime, Copying, Same, ToBeCollected, Put, Without, Restrict
<1>22. ASSUME NEW f \in File, StartCopy(f) PROVE Copying'
  <2>1. Same(f) => IsPrefix(<<>>, disk[f].data)
    BY DiskFields, EmptyPrefix DEF Same, TypeInv, TypeOK
  <2> QED
    BY <1>22, <2>1 DEF StartCopy, Visit, SameMtime, Copying, Same
<1>23. ASSUME NEW f \in File, CopyRead(f) PROVE Copying'
  <2>1. cur = {f} /\ buf \in Seq(Chunk) /\ disk[f].data \in Seq(Chunk)
    BY <1>23, DiskFields, ContentIsSeq DEF CopyRead, Copying, TypeInv, TypeOK
  <2>2. Same(f) => IsPrefix(buf', disk[f].data)
    BY <1>23, <2>1, LongerPrefix DEF CopyRead, Copying
  <2> QED
    BY <1>23, <2>1, <2>2 DEF CopyRead, Copying, Same
<1>24. ASSUME NEW f \in File, CopyEnds(f) PROVE Copying'
  <2>1. cur = {f} /\ buf \in Seq(Chunk)
    BY <1>24, ContentIsSeq DEF CopyEnds, Copying, TypeInv, TypeOK
  <2>2. Same(f) => disk[f].data \in Seq(Chunk)
    BY DiskFields DEF Same, TypeInv, TypeOK
  <2>3. Same(f) => IsPrefix(buf, disk[f].data)
    BY <1>24 DEF CopyEnds, Copying
  <2>4. Same(f) => Len(buf) >= Len(disk[f].data)
    BY <1>24 DEF CopyEnds, Same
  <2>5. Same(f) => buf = disk[f].data
    BY <2>1, <2>2, <2>3, <2>4, FullPrefix
  <2> QED
    BY <1>24, <2>1, <2>5 DEF CopyEnds, Copying, Same
<1>25. ASSUME NEW f \in File, CopyVerified(f) PROVE Copying'
  <2>1. f \in DOMAIN info /\ info[f] \in FInfo
    BY <1>25 DEF CopyVerified, EndCopy, TypeInv, TypeOK, Loops, IsMap
  <2>2. f \in todo /\ info[f].seen /\ ~info[f].collected
    BY <1>25 DEF CopyVerified, EndCopy, Copying, TypeInv, Loops
  <2>3. info[f].mtime < lastScan
    BY <1>25, <2>1, <2>2 DEF CopyVerified, EndCopy, Timing, Old
  <2>4. LET n == Copied(info[f])
        IN /\ n.mtime = info[f].mtime /\ n.seen = info[f].seen
           /\ n.collected = info[f].collected /\ n.fcopy
    BY <1>25, <2>1, CopiedFields DEF CopyVerified, EndCopy
  <2>5. Same(f) => buf = disk[f].data
    BY <1>25 DEF CopyVerified, EndCopy, Copying
  <2> QED
    BY <1>25, <2>1, <2>2, <2>3, <2>4, <2>5 DEF CopyVerified, EndCopy, Copying, Same, ToBeCollected, Put, Without, Restrict
<1>26. ASSUME NEW f \in File, ChangedAfterCopy(f) PROVE Copying'
  <2>1. f \notin DOMAIN tmp
    BY <1>26 DEF ChangedAfterCopy, EndCopy, Copying, TypeInv, Loops
  <2> QED
    BY <1>26, <2>1 DEF ChangedAfterCopy, EndCopy, Copying, Same, ToBeCollected, Put, Without, Restrict
<1>27. ASSUME NEW f \in File, GoneAfterCopy(f) PROVE Copying'
  <2>1. f \notin DOMAIN tmp
    BY <1>27 DEF GoneAfterCopy, StatThrows, Fault, EndCopy, Copying, TypeInv, Loops
  <2> QED
    BY <1>27, <2>1 DEF GoneAfterCopy, StatThrows, Fault, EndCopy, Copying, Same, ToBeCollected, Put, Without, Restrict
<1>28. ASSUME NEW f \in File, Collect(f) PROVE Copying'
  BY <1>28 DEF Collect, Take, Copying, Same, ToBeCollected, Put, Without, Restrict
<1>29. ASSUME NEW f \in File, SaveLine(f) PROVE Copying'
  BY <1>29 DEF SaveLine, Copying, Same
<1>30. ASSUME NEW c \in Chunk, Hand(c) PROVE Copying'
  BY <1>30 DEF Hand, Copying, Same, ToBeCollected, Put, Without, Restrict
<1>31. ASSUME UNCHANGED vars PROVE Copying'
  BY <1>31 DEF vars, Copying, Same, ToBeCollected, Put, Without, Restrict
<1>32. ASSUME OpenFails PROVE Copying'
  BY <1>32 DEF OpenFails, Fault, Copying, Same, ToBeCollected
<1> QED
  BY <1>1, <1>2, <1>3, <1>4, <1>5, <1>6, <1>7, <1>8, <1>9, <1>10, <1>11, <1>12, <1>13, <1>14, <1>15, <1>16, <1>17, <1>18, <1>19, <1>20, <1>21, <1>22, <1>23, <1>24, <1>25, <1>26, <1>27, <1>28, <1>29, <1>30, <1>31, <1>32
  DEF Next, Environment, DiskOp, Failure, Daemon, Scan

(***************************************************************************)
(* Covering                                                                *)
(***************************************************************************)
(* What vouches for some chunks vouches for more.                           *)
LEMMA VouchesMore ==
  ASSUME NEW e, NEW S, NEW T, S \subseteq T, Vouches(e, S)
  PROVE  Vouches(e, T)
BY DEF Vouches

(* Offset 0 makes getNewObsPart() skip nothing.                             *)
LEMMA NothingToVouch ==
  ASSUME NEW e, e.offset = 0, NEW S PROVE Vouches(e, S)
BY ContentIsSeq DEF Vouches, Range

(* One content has the length and the crc of obs: obs itself.              *)
LEMMA VouchForAll ==
  ASSUME NEW e, NEW obs \in Content, e.offset = Len(obs), e.crc = Crc(obs),
         NEW S, Range(obs) \subseteq S
  PROVE  Vouches(e, S)
BY CrcAssumption DEF Vouches

(* What getNewObsPart() skips of a content is vouched for by the offset and *)
(* crc of the entry.                                                        *)
LEMMA SkippedIsVouchedFor ==
  ASSUME NEW e \in FInfo, NEW obs \in Content, NEW S, Vouches(e, S)
  PROVE  Range(obs) \subseteq S \union Range(NewObsPart(e, obs))
<1> DEFINE head == SubSeq(obs, 1, e.offset)
           tail == SubSeq(obs, e.offset + 1, Len(obs))
<1>1. CASE Appended(e, obs)
  <2>1. obs \in Seq(Chunk) /\ Len(obs) \in Nat /\ e.offset \in 1..Len(obs)
    BY <1>1, ContentIsSeq, BoundsAssumption DEF Appended, FInfo, Offset
  <2>2. head \in Content /\ Len(head) = e.offset /\ Crc(head) = e.crc
    BY <1>1, <2>1, PrefixOfContent DEF Appended
  <2>3. Range(head) \subseteq S
    BY <2>2 DEF Vouches
  <2>4. ASSUME NEW i \in 1..Len(obs)
        PROVE  obs[i] \in S \union Range(tail)
    <3>1. CASE i <= e.offset
      <4>1. i \in DOMAIN head /\ head[i] = obs[i]
        BY <2>1, <2>4, <3>1
      <4> QED BY <2>3, <4>1 DEF Range
    <3>2. CASE i > e.offset
      <4>1. i - e.offset \in DOMAIN tail /\ tail[i - e.offset] = obs[i]
        BY <2>1, <2>4, <3>2
      <4> QED BY <4>1 DEF Range
    <3> QED BY <2>1, <2>4, <3>1, <3>2
  <2>5. Range(obs) \subseteq S \union Range(tail)
    BY <2>1, <2>4 DEF Range
  <2> QED BY <1>1, <2>5 DEF NewObsPart
<1>2. CASE ~Appended(e, obs)
  BY <1>2 DEF NewObsPart
<1> QED BY <1>1, <1>2

(* Where the offset and the crc of an entry come from, and what may mark an *)
(* entry collected: it was so before and has kept its mtime, or the whole   *)
(* of its copy has just been collected.                                     *)
EntryFrom(g) ==
  \/ /\ g \in DOMAIN info
     /\ info'[g].offset = info[g].offset
     /\ info'[g].crc = info[g].crc
     /\ info'[g].collected =>
          info[g].collected /\ info'[g].mtime = info[g].mtime
  \/ info'[g].offset = 0 /\ ~info'[g].collected
  \/ /\ Start
     /\ g \in DOMAIN saved
     /\ info'[g].offset = saved[g].offset
     /\ info'[g].crc = saved[g].crc
     /\ ~info'[g].collected
  \/ /\ Collect(g)
     /\ g \in DOMAIN info /\ info[g] \in FInfo
     /\ g \in DOMAIN tmp /\ tmp[g] \in Content
     /\ info'[g].offset = Len(tmp[g])
     /\ info'[g].crc = Crc(tmp[g])
     /\ info'[g].mtime = info[g].mtime

(* In every step each entry comes from one of these.                        *)
LEMMA EntrySource ==
  ASSUME TypeInv, [Next]_vars, NEW g \in DOMAIN info'
  PROVE  EntryFrom(g)
<1> USE DEF memory, EntryFrom
<1>1. CASE UNCHANGED info
  BY <1>1
<1>2. CASE Crash \/ Exit
  BY <1>2 DEF Crash, Exit, LoseMemory, NoEntry
<1>3. CASE Start
  <2>1. g \in DOMAIN saved /\ g \in DOMAIN disk
        /\ info'[g] = NewFInfo(disk[g].mtime, saved[g].offset, saved[g].crc)
    BY <1>3 DEF Start
  <2> QED BY <1>3, <2>1 DEF NewFInfo
<1>4. CASE EraseGone
  BY <1>4 DEF EraseGone, Restrict
<1>5. ASSUME NEW f \in File, info' = Without(info, f) PROVE EntryFrom(g)
  BY <1>5 DEF Without, Restrict
<1>6. ASSUME NEW f \in File, NEW e, info' = Put(info, f, e),
             f = g => EntryFrom(g)
      PROVE  EntryFrom(g)
  BY <1>6 DEF Put
<1>7. ASSUME NEW f \in File, NewEntry(f) PROVE EntryFrom(g)
  <2>1. info' = Put(info, f, NewFInfo(list[f], 0, 0))
    BY <1>7 DEF NewEntry
  <2>2. info'[f].offset = 0 /\ ~info'[f].collected
    BY <2>1 DEF Put, NewFInfo
  <2> QED BY <1>6, <2>1, <2>2
<1>8. ASSUME NEW f \in DOMAIN info, NEW e, info' = Put(info, f, e),
             e.offset = info[f].offset, e.crc = info[f].crc,
             e.collected => info[f].collected /\ e.mtime = info[f].mtime
      PROVE  EntryFrom(g)
  BY <1>8 DEF Put
<1>9. ASSUME NEW f \in DOMAIN info PROVE f \in File /\ info[f] \in FInfo
  BY DEF TypeInv, TypeOK, IsMap
<1>10. ASSUME NEW f \in DOMAIN info, f \in DOMAIN disk,
              info' = Put(info, f, Changed(info[f], disk[f].mtime))
       PROVE  EntryFrom(g)
  <2>1. disk[f].mtime \in Nat
    BY <1>10, DiskFields DEF TypeInv, TypeOK
  <2> QED BY <1>8, <1>9, <1>10, <2>1, ChangedFields
<1>11. ASSUME NEW f \in File, NewMtime(f) PROVE EntryFrom(g)
  BY <1>5, <1>10, <1>11 DEF NewMtime, StatThrows, Fault
<1>12. ASSUME NEW f \in File, SeenFirst(f) PROVE EntryFrom(g)
  BY <1>8, <1>9, <1>12, SeenFields DEF SeenFirst, SameMtime
<1>13. ASSUME NEW f \in File, CopyFails(f) \/ GoneAfterCopy(f) PROVE EntryFrom(g)
  BY <1>5, <1>13 DEF CopyFails, GoneAfterCopy, StatThrows, Fault
<1>14. ASSUME NEW f \in File, CopyVerified(f) PROVE EntryFrom(g)
  BY <1>8, <1>9, <1>14, CopiedFields DEF CopyVerified, TypeInv, Loops
<1>15. ASSUME NEW f \in File, ChangedAfterCopy(f) PROVE EntryFrom(g)
  BY <1>10, <1>15 DEF ChangedAfterCopy, TypeInv, Loops
<1>16. ASSUME NEW f \in File, ReadFails(f) PROVE EntryFrom(g)
  <2>1. f \in DOMAIN info /\ info' = Put(info, f, Unseen(info[f]))
    BY <1>16 DEF ReadFails, Take, TypeInv, Loops
  <2> QED BY <1>8, <1>9, <2>1, UnseenFields
<1>17. ASSUME NEW f \in File, StatFails(f) PROVE EntryFrom(g)
  <2>1. f \in DOMAIN info /\ info' = Put(info, f, Unseen(CopyRemoved(info[f])))
    BY <1>17 DEF StatFails, Take, TypeInv, Loops
  <2>2. info[f] \in FInfo
    BY <1>9, <2>1
  <2> QED BY <1>8, <2>1, <2>2, UnseenFields, CopyRemovedFields
<1>18. ASSUME NEW f \in File, Collect(f) PROVE EntryFrom(g)
  <2>1. /\ f \in DOMAIN info /\ f \in DOMAIN tmp
        /\ info' = Put(info, f, HandedOn(CopyRemoved(info[f]), tmp[f]))
    BY <1>18 DEF Collect, Take, TypeInv, Loops
  <2>2. info[f] \in FInfo /\ tmp[f] \in Content
    BY <2>1 DEF TypeInv, TypeOK, IsMap
  <2>3. LET n == HandedOn(CopyRemoved(info[f]), tmp[f])
        IN n.mtime = info[f].mtime /\ n.offset = Len(tmp[f]) /\ n.crc = Crc(tmp[f])
    BY <2>2, HandedOnFields, CopyRemovedFields
  <2>4. f = g => EntryFrom(g)
    BY <1>18, <2>1, <2>2, <2>3 DEF Put
  <2> QED BY <1>6, <2>1, <2>4
<1>19. \/ UNCHANGED info \/ Crash \/ Exit \/ Start \/ EraseGone
       \/ \E f \in File : \/ NewEntry(f) \/ NewMtime(f) \/ SeenFirst(f)
                          \/ CopyFails(f) \/ GoneAfterCopy(f) \/ CopyVerified(f)
                          \/ ChangedAfterCopy(f) \/ ReadFails(f)
                          \/ StatFails(f) \/ Collect(f)
  BY DEF Next, Environment, Failure, Daemon, Scan, vars, Tick, Write,
         Truncate, Touch, Delete, Operation, SigTerm, SaveFails, OpenFails,
         StartScan, NothingListed, EndScan, StartSave, EndSave, ListFile,
         Fault, SeenCollected, Visit, StartCopy, CopyRead, CopyEnds, SaveLine,
         Hand
<1> QED
  BY <1>1, <1>2, <1>3, <1>4, <1>7, <1>11, <1>12, <1>13, <1>14, <1>15, <1>16,
     <1>17, <1>18, <1>19

(* A line of the state file was there before, or is written from an entry   *)
(* of fileInfoList by saveFInfoList().                                      *)
LEMMA LineSource ==
  ASSUME TypeInv, [Next]_vars, NEW g \in DOMAIN saved'
  PROVE  \/ g \in DOMAIN saved /\ saved'[g] = saved[g]
         \/ /\ pc = "save" /\ g \in DOMAIN info
            /\ SaveLine(g)
            /\ saved'[g] = [offset |-> info[g].offset, crc |-> info[g].crc]
<1>1. CASE UNCHANGED saved
  BY <1>1
<1>2. CASE StartSave
  BY <1>2 DEF StartSave, NoEntry
<1>3. ASSUME NEW f \in File, SaveLine(f)
      PROVE  \/ g \in DOMAIN saved /\ saved'[g] = saved[g]
             \/ /\ pc = "save" /\ g \in DOMAIN info
                /\ SaveLine(g)
                /\ saved'[g] = [offset |-> info[g].offset, crc |-> info[g].crc]
  BY <1>3 DEF SaveLine, Put, TypeInv, Loops
<1>4. UNCHANGED saved \/ StartSave \/ \E f \in File : SaveLine(f)
  BY DEF Next, Environment, Failure, Daemon, Scan, vars, Tick, Write,
         Truncate, Touch, Delete, Operation, SigTerm, Crash, Start, Exit,
         SaveFails, OpenFails, StartScan, NothingListed, EraseGone, EndScan,
         EndSave, ListFile, Visit, NewEntry, NewMtime, SeenFirst,
         SeenCollected, StartCopy, CopyRead, CopyEnds, EndCopy, CopyVerified,
         ChangedAfterCopy, GoneAfterCopy, StatThrows, Fault, CopyFails,
         ReadFails, StatFails, Take, Collect, Hand
<1> QED BY <1>1, <1>2, <1>3, <1>4

(* If offsets and crcs vouch for S before a step, they vouch for T after    *)
(* it, where T has S and the new part in it.  A process that ends forgets   *)
(* them.                                                                    *)
LEMMA VouchStep ==
  ASSUME TypeInv, [Next]_vars, NEW S, NEW T,
         Crash \/ Exit \/ S \subseteq T, part' \subseteq T,
         \A g \in DOMAIN info : Vouches(info[g], S),
         \A g \in DOMAIN saved : Vouches(saved[g], S),
         NEW g \in DOMAIN info'
  PROVE  Vouches(info'[g], T)
<1>1. EntryFrom(g)
  BY EntrySource
<1>2. S \subseteq T
  BY DEF Crash, Exit, LoseMemory, NoEntry
<1>3. CASE \/ /\ g \in DOMAIN info
              /\ info'[g].offset = info[g].offset
              /\ info'[g].crc = info[g].crc
           \/ /\ g \in DOMAIN saved
              /\ info'[g].offset = saved[g].offset
              /\ info'[g].crc = saved[g].crc
  BY <1>2, <1>3 DEF Vouches
<1>4. CASE info'[g].offset = 0
  BY <1>4, NothingToVouch
<1>5. CASE /\ Collect(g)
           /\ g \in DOMAIN info /\ info[g] \in FInfo
           /\ tmp[g] \in Content
           /\ info'[g].offset = Len(tmp[g])
           /\ info'[g].crc = Crc(tmp[g])
  <2>1. part' = Range(NewObsPart(info[g], tmp[g]))
    BY <1>5 DEF Collect
  <2>2. Range(tmp[g]) \subseteq S \union part'
    BY <1>5, <2>1, SkippedIsVouchedFor
  <2>3. Range(tmp[g]) \subseteq T
    BY <1>2, <2>2
  <2> QED BY <1>5, <2>3, VouchForAll
<1> QED BY <1>1, <1>3, <1>4, <1>5 DEF EntryFrom

(* The state file vouches for U as long as the entries do from which it is  *)
(* written.                                                                 *)
LEMMA LineStep ==
  ASSUME TypeInv, [Next]_vars, NEW U,
         \A g \in DOMAIN saved : Vouches(saved[g], U),
         pc = "save" => \A g \in DOMAIN info : Vouches(info[g], U),
         NEW g \in DOMAIN saved'
  PROVE  Vouches(saved'[g], U)
BY LineSource DEF Vouches

(* If the files that are collected and have not changed since are in S,     *)
(* they are in T after the step, with S and T as above: a further write to  *)
(* such a file gives it another mtime.                                      *)
LEMMA CollectedStep ==
  ASSUME TypeInv, Timing, Copying, [Next]_vars, NEW S, NEW T,
         Crash \/ Exit \/ S \subseteq T, part' \subseteq T,
         \A g \in DOMAIN info : Vouches(info[g], S),
         CollectedIn(S),
         NEW g \in DOMAIN info' \intersect DOMAIN disk',
         info'[g].collected, info'[g].mtime = disk'[g].mtime
  PROVE  Range(disk'[g].data) \subseteq T
<1>1. EntryFrom(g)
  BY EntrySource
<1>2. S \subseteq T
  BY DEF Crash, Exit, LoseMemory, NoEntry
<1>3. CASE /\ g \in DOMAIN info
           /\ info[g].collected
           /\ info'[g].mtime = info[g].mtime
  <2>1. g \in DOMAIN disk /\ disk'[g] = disk[g]
    <3>1. CASE UNCHANGED disk
      BY <3>1
    <3>2. CASE DiskOp
      <4>1. UNCHANGED now /\ Fresh(g)
        BY <3>2, DiskEffect
      <4>2. info[g].mtime \in Nat
        BY <1>3, MapValue, FInfoFields DEF TypeInv, TypeOK
      <4>3. info[g].mtime < lastScan /\ lastScan <= now
        BY <1>3 DEF Timing
      <4> QED BY <1>3, <4>1, <4>2, <4>3, TimeTypes DEF Fresh
    <3>3. UNCHANGED disk \/ DiskOp
      BY DEF Next, Environment, DiskOp, Failure, Daemon, Scan, vars, env,
             Tick, SigTerm, Crash, Start, Exit, SaveFails, OpenFails,
             StartScan, NothingListed, EraseGone, EndScan, StartSave, EndSave,
             ListFile, Visit, NewEntry, NewMtime, SeenFirst, SeenCollected,
             StartCopy, CopyRead, CopyEnds, EndCopy, CopyVerified,
             ChangedAfterCopy, GoneAfterCopy, StatThrows, Fault, CopyFails,
             ReadFails, StatFails, Take, Collect, SaveLine, Hand
    <3> QED BY <3>1, <3>2, <3>3
  <2> QED BY <1>2, <1>3, <2>1 DEF CollectedIn
<1>4. CASE /\ Collect(g)
           /\ g \in DOMAIN info /\ info[g] \in FInfo
           /\ g \in DOMAIN tmp /\ tmp[g] \in Content
           /\ info'[g].mtime = info[g].mtime
  <2>1. part' = Range(NewObsPart(info[g], tmp[g])) /\ UNCHANGED disk
    BY <1>4 DEF Collect, Take, env
  <2>2. tmp[g] = disk[g].data
    BY <1>4, <2>1 DEF Copying, Same
  <2>3. Range(tmp[g]) \subseteq S \union part'
    BY <1>4, <2>1, SkippedIsVouchedFor
  <2> QED BY <1>2, <2>1, <2>2, <2>3
<1> QED BY <1>1, <1>3, <1>4 DEF EntryFrom

(* What is handed on stays so, what is to be handed on is handed on or      *)
(* stays so, unless the process ends.                                       *)
LEMMA HandedStep ==
  ASSUME TypeInv, Covering, [Next]_vars
  PROVE  /\ handed \subseteq handed'
         /\ Crash \/ Exit \/ handed \union part \subseteq handed' \union part'
         /\ pc' # "hand" => part' = {}
<1> USE DEF env, bounds, local, history, memory
<1>1. CASE UNCHANGED <<handed, part>> /\ (pc = pc' \/ (pc' # "hand" /\ pc # "hand"))
  BY <1>1 DEF Covering
<1>2. CASE Crash \/ Exit
  BY <1>2 DEF Crash, Exit, LoseMemory
<1>3. ASSUME NEW f \in File, Collect(f)
      PROVE  /\ handed' = handed /\ part = {} /\ (pc' # "hand" => part' = {})
  BY <1>3 DEF Collect, Take, Covering
<1>4. ASSUME NEW c \in Chunk, Hand(c)
      PROVE  /\ handed \subseteq handed'
             /\ handed \union part \subseteq handed' \union part'
             /\ (pc' # "hand" => part' = {})
  BY <1>4 DEF Hand
<1>5. \/ UNCHANGED <<handed, part>> /\ (pc = pc' \/ (pc' # "hand" /\ pc # "hand"))
      \/ Crash \/ Exit
      \/ \E f \in File : Collect(f)
      \/ \E c \in Chunk : Hand(c)
  BY DEF Next, Environment, Failure, Daemon, Scan, vars, Tick, Write,
         Truncate, Touch, Delete, Operation, SigTerm, Start, SaveFails,
         OpenFails, Collected, StartScan, NothingListed, EraseGone, EndScan,
         StartSave, EndSave, ListFile, Visit, NewEntry, NewMtime, SeenFirst,
         SeenCollected, StartCopy, CopyRead, CopyEnds, EndCopy, CopyVerified,
         ChangedAfterCopy, GoneAfterCopy, StatThrows, Fault, CopyFails,
         ReadFails, StatFails, Take, SaveLine
<1> QED BY <1>1, <1>2, <1>3, <1>4, <1>5

(* Every step keeps offsets, in memory and in the state file, below what    *)
(* was handed on.                                                           *)
LEMMA CoveringStep ==
  TypeInv /\ Timing /\ Copying /\ Covering /\ [Next]_vars => Covering'
<1> SUFFICES ASSUME TypeInv, Timing, Copying, Covering, [Next]_vars
             PROVE  Covering'
  OBVIOUS
<1> DEFINE S == handed \union part
           T == handed' \union part'
<1>1. /\ Crash \/ Exit \/ S \subseteq T
      /\ part' \subseteq T
      /\ handed \subseteq handed'
      /\ pc' # "hand" => part' = {}
  BY HandedStep
<1>2. /\ \A g \in DOMAIN info : Vouches(info[g], S)
      /\ \A g \in DOMAIN saved : Vouches(saved[g], S)
      /\ CollectedIn(S)
  BY VouchesMore DEF Covering, PersistedIsHanded, NothingMissed
<1>3. \A g \in DOMAIN info' : Vouches(info'[g], T)
  <2> HIDE DEF S, T
  <2> QED BY <1>1, <1>2, VouchStep
<1>4. NothingMissed'
  <2>1. ASSUME NEW g \in DOMAIN info' \intersect DOMAIN disk',
               info'[g].collected, info'[g].mtime = disk'[g].mtime
        PROVE  Range(disk'[g].data) \subseteq T
    <3> HIDE DEF S, T
    <3> QED BY <1>1, <1>2, <2>1, CollectedStep
  <2> QED BY <2>1 DEF NothingMissed, CollectedIn
<1>5. PersistedIsHanded'
  <2>1. /\ \A g \in DOMAIN saved : Vouches(saved[g], handed')
        /\ pc = "save" => \A g \in DOMAIN info : Vouches(info[g], handed')
    BY <1>1, VouchesMore DEF Covering, PersistedIsHanded
  <2>2. \A g \in DOMAIN saved' : Vouches(saved'[g], handed')
    BY <2>1, LineStep
  <2> QED BY <2>2 DEF PersistedIsHanded
<1> QED BY <1>1, <1>3, <1>4, <1>5 DEF Covering

(***************************************************************************)
(* LeftAlone                                                               *)
(***************************************************************************)
(* Every step leaves files with an old mtime alone: where the mtime of an   *)
(* entry may become an old one it has no copy and is not collected, and     *)
(* what is copied has the mtime of the listing.                             *)
LEMMA LeftAloneStep ==
  ASSUME NoStaleCopy
  PROVE  TypeInv /\ TypeInv' /\ Copying /\ Copying' /\ LeftAlone /\ [Next]_vars
             => LeftAlone'
<1> SUFFICES ASSUME TypeInv, TypeInv', Copying, Copying', LeftAlone, [Next]_vars
             PROVE  LeftAlone'
  OBVIOUS
<1> USE DEF env, bounds, local, history, memory
<1>0. DOMAIN tmp \subseteq DOMAIN info
  BY DEF Copying
<1>1. ASSUME Tick PROVE LeftAlone'
  BY <1>1 DEF Tick, LeftAlone, OldIsLeftAlone
<1>2. ASSUME DiskOp PROVE LeftAlone'
  <2>1. UNCHANGED <<now, pc, shutdown, memory, local, saved, history, bounds>>
    BY <1>2, DiskEffect
  <2> QED
    BY <2>1 DEF LeftAlone, OldIsLeftAlone
<1>3. ASSUME SigTerm PROVE LeftAlone'
  BY <1>3 DEF SigTerm, LeftAlone, OldIsLeftAlone
<1>4. ASSUME Crash PROVE LeftAlone'
  BY <1>4 DEF Crash, LoseMemory, NoEntry, LeftAlone, OldIsLeftAlone
<1>5. ASSUME SaveFails PROVE LeftAlone'
  BY <1>5 DEF SaveFails, Collected, Fault, LeftAlone, OldIsLeftAlone
<1>6. ASSUME NEW f \in File, CopyFails(f) PROVE LeftAlone'
  <2>1. f \notin DOMAIN tmp
    BY <1>6 DEF CopyFails, Fault, EndCopy, Copying, TypeInv, Loops
  <2> QED
    BY <1>0, <1>6, <2>1 DEF CopyFails, Fault, EndCopy, LeftAlone, OldIsLeftAlone, Put, Without, Restrict
<1>7. ASSUME NEW f \in File, ReadFails(f) PROVE LeftAlone'
  <2>1. f \in DOMAIN info /\ info[f] \in FInfo
    BY <1>7 DEF ReadFails, Take, TypeInv, TypeOK, Loops, IsMap
  <2>2. LET n == Unseen(info[f]) IN n.mtime = info[f].mtime /\ ~n.seen /\ ~n.collected
    BY <2>1, UnseenFields
  <2>3. info' = Put(info, f, Unseen(info[f]))
    BY <1>7 DEF ReadFails
  <2>4. DOMAIN tmp' \subseteq DOMAIN tmp
    BY <1>7 DEF ReadFails, Without, Restrict
  <2>5. UNCHANGED <<ignoreBefore, list, cur>> /\ pc = "collect" /\ pc' = "collect"
    BY <1>7 DEF ReadFails, Take
  <2> QED
    BY <1>0, <2>1, <2>2, <2>3, <2>4, <2>5 DEF LeftAlone, OldIsLeftAlone, Put
<1>8. ASSUME NEW f \in File, StatFails(f) PROVE LeftAlone'
  <2>1. f \in DOMAIN info /\ info[f] \in FInfo
    BY <1>8 DEF StatFails, Take, TypeInv, TypeOK, Loops, IsMap
  <2>2. LET n == Unseen(CopyRemoved(info[f])) IN n.mtime = info[f].mtime /\ ~n.seen /\ ~n.collected
    BY <2>1, UnseenFields, CopyRemovedFields
  <2> QED
    BY <1>0, <1>8, <2>1, <2>2 DEF StatFails, Take, Fault, LeftAlone, OldIsLeftAlone, Put, Without, Restrict
<1>9. ASSUME Start PROVE LeftAlone'
  <2>1. ASSUME NEW f \in DOMAIN info' PROVE ~info'[f].collected
    <3>1. info'[f] = NewFInfo(disk[f].mtime, saved[f].offset, saved[f].crc)
      BY <1>9, <2>1 DEF Start
    <3> QED
      BY <3>1 DEF NewFInfo
  <2>2. DOMAIN tmp' = {} /\ DOMAIN list' = {}
    BY <1>9 DEF Start, Copying, LeftAlone
  <2> QED
    BY <1>9, <2>1, <2>2 DEF Start, LeftAlone, OldIsLeftAlone
<1>10. ASSUME Exit PROVE LeftAlone'
  BY <1>10 DEF Exit, LoseMemory, NoEntry, LeftAlone, OldIsLeftAlone
<1>11. ASSUME StartScan PROVE LeftAlone'
  BY <1>11 DEF StartScan, NoEntry, LeftAlone, OldIsLeftAlone
<1>12. ASSUME NothingListed PROVE LeftAlone'
  BY <1>12 DEF NothingListed, LeftAlone, OldIsLeftAlone
<1>13. ASSUME EraseGone PROVE LeftAlone'
  <2>1. DOMAIN tmp' = {}
    BY <1>13 DEF EraseGone, Copying
  <2> QED
    BY <1>13, <2>1 DEF EraseGone, LeftAlone, OldIsLeftAlone, Restrict
<1>14. ASSUME EndScan PROVE LeftAlone'
  BY <1>14 DEF EndScan, LeftAlone, OldIsLeftAlone
<1>15. ASSUME StartSave PROVE LeftAlone'
  BY <1>15 DEF StartSave, Collected, LeftAlone, OldIsLeftAlone
<1>16. ASSUME EndSave PROVE LeftAlone'
  BY <1>16 DEF EndSave, LeftAlone, OldIsLeftAlone
<1>17. ASSUME NEW f \in File, ListFile(f) PROVE LeftAlone'
  BY <1>17 DEF ListFile, Fault, Listed, Put, LeftAlone, OldIsLeftAlone
<1>18. ASSUME NEW f \in File, NewEntry(f) PROVE LeftAlone'
  <2>1. f \notin DOMAIN tmp
    BY <1>18 DEF NewEntry, Visit, Copying, TypeInv, Loops
  <2>2. ~NewFInfo(list[f], 0, 0).collected
    BY DEF NewFInfo
  <2> QED
    BY <1>0, <1>18, <2>1, <2>2 DEF NewEntry, Visit, LeftAlone, OldIsLeftAlone, Put, Without, Restrict
<1>19. ASSUME NEW f \in File, NewMtime(f) PROVE LeftAlone'
  <2>1. f \notin DOMAIN tmp
    BY <1>19 DEF NewMtime, StatThrows, Fault, Visit, Copying, TypeInv, Loops
  <2>2. f \in DOMAIN disk => ~Changed(info[f], disk[f].mtime).collected
    <3>1. info[f] \in FInfo
      BY <1>19 DEF NewMtime, StatThrows, Fault, TypeInv, TypeOK, IsMap
    <3>2. f \in DOMAIN disk => disk[f].mtime \in Nat
      BY DiskFields DEF TypeInv, TypeOK
    <3> QED
      BY <3>1, <3>2, ChangedFields
  <2> QED
    BY <1>0, <1>19, <2>1, <2>2 DEF NewMtime, StatThrows, Fault, Visit, LeftAlone, OldIsLeftAlone, Put, Without, Restrict
<1>20. ASSUME NEW f \in File, SeenFirst(f) PROVE LeftAlone'
  <2>1. f \notin DOMAIN tmp
    BY <1>20 DEF SeenFirst, Visit, SameMtime, Copying, TypeInv, Loops
  <2>2. LET n == Seen(info[f])
        IN n.mtime = info[f].mtime /\ n.collected = info[f].collected
    BY <1>20, SeenFields DEF SeenFirst, SameMtime, TypeInv, TypeOK, IsMap
  <2> QED
    BY <1>0, <1>20, <2>1, <2>2 DEF SeenFirst, Visit, SameMtime, LeftAlone, OldIsLeftAlone, Put, Without, Restrict
<1>21. ASSUME NEW f \in File, SeenCollected(f) PROVE LeftAlone'
  BY <1>21 DEF SeenCollected, Visit, LeftAlone, OldIsLeftAlone
<1>22. ASSUME NEW f \in File, StartCopy(f) PROVE LeftAlone'
  <2>1. info[f].mtime >= ignoreBefore
    BY <1>22 DEF StartCopy, Visit, SameMtime, TypeInv, Loops, LeftAlone
  <2> QED
    BY <1>22, <2>1 DEF StartCopy, Visit, LeftAlone, OldIsLeftAlone
<1>23. ASSUME NEW f \in File, CopyRead(f) PROVE LeftAlone'
  BY <1>23 DEF CopyRead, LeftAlone, OldIsLeftAlone
<1>24. ASSUME NEW f \in File, CopyEnds(f) PROVE LeftAlone'
  BY <1>24 DEF CopyEnds, LeftAlone, OldIsLeftAlone
<1>25. ASSUME NEW f \in File, CopyVerified(f) PROVE LeftAlone'
  <2>1. f \in DOMAIN info /\ info[f].mtime >= ignoreBefore
    BY <1>25 DEF CopyVerified, TypeInv, Loops, LeftAlone
  <2>2. LET n == Copied(info[f])
        IN n.mtime = info[f].mtime /\ n.collected = info[f].collected
    BY <2>1, CopiedFields DEF TypeInv, TypeOK, IsMap
  <2> QED
    BY <1>0, <1>25, <2>1, <2>2 DEF CopyVerified, EndCopy, LeftAlone, OldIsLeftAlone, Put, Without, Restrict
<1>26. ASSUME NEW f \in File, ChangedAfterCopy(f) PROVE LeftAlone'
  <2>1. f \notin DOMAIN tmp
    BY <1>26 DEF ChangedAfterCopy, EndCopy, Copying, TypeInv, Loops
  <2>2. ~Changed(info[f], disk[f].mtime).collected
    <3>1. info[f] \in FInfo
      BY <1>26 DEF ChangedAfterCopy, TypeInv, TypeOK, Loops, IsMap
    <3>2. disk[f].mtime \in Nat
      BY <1>26, DiskFields DEF ChangedAfterCopy, TypeInv, TypeOK
    <3> QED
      BY <3>1, <3>2, ChangedFields
  <2> QED
    BY <1>0, <1>26, <2>1, <2>2 DEF ChangedAfterCopy, EndCopy, LeftAlone, OldIsLeftAlone, Put, Without, Restrict
<1>27. ASSUME NEW f \in File, GoneAfterCopy(f) PROVE LeftAlone'
  <2>1. f \notin DOMAIN tmp
    BY <1>27 DEF GoneAfterCopy, StatThrows, Fault, EndCopy, Copying, TypeInv, Loops
  <2> QED
    BY <1>0, <1>27, <2>1 DEF GoneAfterCopy, StatThrows, Fault, EndCopy, LeftAlone, OldIsLeftAlone, Put, Without, Restrict
<1>28. ASSUME NEW f \in File, Collect(f) PROVE LeftAlone'
  <2>1. f \in DOMAIN info /\ info[f].mtime >= ignoreBefore
    BY <1>28 DEF Collect, Copying, LeftAlone, OldIsLeftAlone
  <2>2. info'[f].mtime = info[f].mtime
    <3>1. info[f] \in FInfo /\ tmp[f] \in Content
      BY <1>28, <2>1 DEF Collect, TypeInv, TypeOK, IsMap
    <3>2. HandedOn(CopyRemoved(info[f]), tmp[f]).mtime = info[f].mtime
      BY <3>1, CopyRemovedFields, HandedOnFields
    <3> QED
      BY <1>28, <3>2 DEF Collect, Put
  <2> QED
    BY <1>0, <1>28, <2>1, <2>2 DEF Collect, Take, LeftAlone, OldIsLeftAlone, Put, Without, Restrict
<1>29. ASSUME NEW f \in File, SaveLine(f) PROVE LeftAlone'
  BY <1>29 DEF SaveLine, LeftAlone, OldIsLeftAlone
<1>30. ASSUME NEW c \in Chunk, Hand(c) PROVE LeftAlone'
  BY <1>30 DEF Hand, LeftAlone, OldIsLeftAlone
<1>31. ASSUME UNCHANGED vars PROVE LeftAlone'
  BY <1>31 DEF vars, LeftAlone, OldIsLeftAlone
<1>32. ASSUME OpenFails PROVE LeftAlone'
  BY <1>32 DEF OpenFails, Fault, LeftAlone, OldIsLeftAlone
<1> QED
  BY <1>1, <1>2, <1>3, <1>4, <1>5, <1>6, <1>7, <1>8, <1>9, <1>10, <1>11, <1>12, <1>13, <1>14, <1>15, <1>16, <1>17, <1>18, <1>19, <1>20, <1>21, <1>22, <1>23, <1>24, <1>25, <1>26, <1>27, <1>28, <1>29, <1>30, <1>31, <1>32
  DEF Next, Environment, DiskOp, Failure, Daemon, Scan

(***************************************************************************)
(* Trapped                                                                 *)
(***************************************************************************)
(* Every step keeps an entry whose copy is missing away from copyFile(),    *)
(* which only an entry seen before the scan gets to.                        *)
LEMMA TrappedStep ==
  ASSUME TypeInv, Trapped, [Next]_vars
  PROVE  Trapped'
<1> USE DEF env, bounds, local, history, memory
<1>0. \A f \in DOMAIN info : f \in File /\ info[f] \in FInfo
  BY DEF TypeInv, TypeOK, IsMap
<1>1. CASE DiskOp \/ Tick \/ SigTerm \/ UNCHANGED vars
  <2>1. DiskOp => UNCHANGED <<pc, shutdown, memory, local>>
    BY DiskEffect
  <2> QED BY <1>1, <2>1 DEF Tick, SigTerm, vars, Trapped, Stale
<1>2. CASE Crash \/ Exit
  BY <1>2 DEF Crash, Exit, LoseMemory, NoEntry, Trapped, Stale
<1>3. CASE Start
  <2>1. \A f \in DOMAIN info' : ~info'[f].fcopy
    BY <1>3 DEF Start, NewFInfo
  <2> QED BY <1>3, <2>1 DEF Start, Trapped, Stale
<1>4. CASE StartScan \/ NothingListed \/ OpenFails
  BY <1>4 DEF StartScan, NothingListed, OpenFails, Trapped, Stale
<1>5. CASE EraseGone
  BY <1>5 DEF EraseGone, Trapped, Stale, Restrict
<1>6. CASE EndScan
  BY <1>6 DEF EndScan, Trapped, Stale, ToBeCollected
<1>7. CASE StartSave \/ EndSave \/ SaveFails
  BY <1>7 DEF StartSave, EndSave, SaveFails, Collected, Trapped, Stale
<1>8. ASSUME NEW f \in File, ListFile(f) \/ SeenCollected(f) \/ StartCopy(f)
      PROVE  Trapped'
  BY <1>8 DEF ListFile, SeenCollected, StartCopy, Visit, SameMtime, Trapped, Stale
<1>9. ASSUME NEW f \in File, NewEntry(f) PROVE Trapped'
  <2>1. LET n == NewFInfo(list[f], 0, 0) IN ~n.fcopy
    BY DEF NewFInfo
  <2> QED BY <1>9, <2>1 DEF NewEntry, Visit, Trapped, Stale, Put
<1>10. ASSUME NEW f \in File, NewMtime(f) PROVE Trapped'
  <2>1. CASE StatThrows(f)
    BY <1>10, <2>1 DEF NewMtime, StatThrows, Visit, Trapped, Stale, Without, Restrict
  <2>2. CASE f \in DOMAIN disk /\ UNCHANGED tmp
             /\ info' = Put(info, f, Changed(info[f], disk[f].mtime))
    <3>1. disk[f].mtime \in Nat
      BY <2>2, DiskFields DEF TypeInv, TypeOK
    <3>2. LET n == Changed(info[f], disk[f].mtime)
          IN ~n.seen /\ ~n.collected /\ n.fcopy = info[f].fcopy
      BY <1>0, <1>10, <3>1, ChangedFields DEF NewMtime
    <3> QED BY <1>10, <2>2, <3>2 DEF NewMtime, Visit, Trapped, Stale, Put
  <2> QED BY <1>10, <2>1, <2>2 DEF NewMtime
<1>11. ASSUME NEW f \in File, SeenFirst(f) PROVE Trapped'
  <2>1. LET n == Seen(info[f])
        IN /\ n.seen /\ n.collected = info[f].collected
           /\ n.fcopy = info[f].fcopy
    BY <1>0, <1>11, SeenFields DEF SeenFirst, SameMtime
  <2> QED BY <1>11, <2>1 DEF SeenFirst, SameMtime, Visit, Trapped, Stale,
                            ToBeCollected, Put
<1>12. ASSUME NEW f \in File, CopyRead(f) \/ CopyEnds(f) PROVE Trapped'
  BY <1>12 DEF CopyRead, CopyEnds, Trapped, Stale
<1>13. ASSUME NEW f \in File, CopyFails(f) \/ GoneAfterCopy(f) PROVE Trapped'
  BY <1>13 DEF CopyFails, GoneAfterCopy, StatThrows, EndCopy, Trapped, Stale,
               Without, Restrict
<1>14. ASSUME NEW f \in File, CopyVerified(f) PROVE Trapped'
  <2>1. LET n == Copied(info[f]) IN n.collected = info[f].collected
    BY <1>0, <1>14, CopiedFields DEF CopyVerified, TypeInv, Loops
  <2> QED BY <1>14, <2>1 DEF CopyVerified, EndCopy, Trapped, Stale, Put
<1>15. ASSUME NEW f \in File, ChangedAfterCopy(f) PROVE Trapped'
  <2>1. f \in DOMAIN info /\ disk[f].mtime \in Nat
    BY <1>15, DiskFields DEF ChangedAfterCopy, TypeInv, TypeOK, Loops
  <2>2. LET n == Changed(info[f], disk[f].mtime) IN ~n.seen /\ ~n.collected
    BY <1>0, <2>1, ChangedFields
  <2> QED BY <1>15, <2>2 DEF ChangedAfterCopy, EndCopy, Trapped, Stale, Put
<1>16. ASSUME NEW f \in File, ReadFails(f) PROVE Trapped'
  <2>1. LET n == Unseen(info[f]) IN ~n.seen /\ ~n.collected
    BY <1>0, <1>16, UnseenFields DEF ReadFails, Take, TypeInv, Loops
  <2> QED BY <1>16, <2>1 DEF ReadFails, Take, Trapped, Stale, Put, Without, Restrict
<1>17. ASSUME NEW f \in File, StatFails(f) PROVE Trapped'
  <2>1. LET n == Unseen(CopyRemoved(info[f])) IN ~n.fcopy
    BY <1>0, <1>17, UnseenFields, CopyRemovedFields
    DEF StatFails, Take, TypeInv, Loops
  <2> QED BY <1>17, <2>1 DEF StatFails, Take, Trapped, Stale, Put, Without, Restrict
<1>18. ASSUME NEW f \in File, Collect(f) PROVE Trapped'
  <2>1. f \in DOMAIN info /\ tmp[f] \in Content
    BY <1>18 DEF Collect, Take, TypeInv, TypeOK, Loops, IsMap
  <2>2. LET n == HandedOn(CopyRemoved(info[f]), tmp[f]) IN ~n.fcopy
    BY <1>0, <2>1, CopyRemovedFields, HandedOnFields
  <2> QED BY <1>18, <2>2 DEF Collect, Take, Trapped, Stale, Put, Without, Restrict
<1>19. ASSUME NEW f \in File, SaveLine(f) PROVE Trapped'
  BY <1>19 DEF SaveLine, Trapped, Stale
<1>20. ASSUME NEW c \in Chunk, Hand(c) PROVE Trapped'
  BY <1>20 DEF Hand, Trapped, Stale
<1> QED
  BY <1>1, <1>2, <1>3, <1>4, <1>5, <1>6, <1>7, <1>8, <1>9, <1>10, <1>11,
     <1>12, <1>13, <1>14, <1>15, <1>16, <1>17, <1>18, <1>19, <1>20
  DEF Next, Environment, DiskOp, Failure, Daemon, Scan

(* A step leaves the name of a missing copy in the entry, and makes no copy *)
(* of it, or erases the entry.                                              *)
LEMMA StaleStep ==
  ASSUME TypeInv, Trapped, [Next]_vars, NEW f \in File, Stale(f)
  PROVE  Stale(f)' \/ f \notin DOMAIN info'
<1> USE DEF env, bounds, local, history, memory, Stale
<1>0. info[f] \in FInfo
  BY DEF TypeInv, TypeOK, IsMap
<1>1. CASE UNCHANGED <<info, tmp>>
  BY <1>1
<1>2. CASE Crash \/ Exit
  BY <1>2 DEF Crash, Exit, LoseMemory, NoEntry
<1>3. CASE Start
  BY <1>3 DEF Start, Trapped
<1>4. CASE EraseGone
  BY <1>4 DEF EraseGone, Restrict
<1>5. ASSUME NEW g \in File, NewEntry(g) PROVE Stale(f)' \/ f \notin DOMAIN info'
  BY <1>5 DEF NewEntry, Put
<1>6. ASSUME NEW g \in File, NewMtime(g) PROVE Stale(f)' \/ f \notin DOMAIN info'
  <2>1. g = f /\ f \in DOMAIN disk => Changed(info[f], disk[f].mtime).fcopy
    BY <1>0, DiskFields, ChangedFields DEF TypeInv, TypeOK
  <2> QED BY <1>6, <2>1 DEF NewMtime, StatThrows, Put, Without, Restrict
<1>7. ASSUME NEW g \in File, SeenFirst(g) PROVE Stale(f)' \/ f \notin DOMAIN info'
  <2>1. Seen(info[f]).fcopy
    BY <1>0, SeenFields
  <2> QED BY <1>7, <2>1 DEF SeenFirst, SameMtime, Put
<1>8. ASSUME NEW g \in File, CopyFails(g) \/ GoneAfterCopy(g)
      PROVE  Stale(f)' \/ f \notin DOMAIN info'
  BY <1>8 DEF CopyFails, GoneAfterCopy, StatThrows, Without, Restrict
<1>9. ASSUME NEW g \in File, CopyVerified(g) \/ ChangedAfterCopy(g)
      PROVE  Stale(f)' \/ f \notin DOMAIN info'
  <2>1. g \in todo /\ info[g].seen
    BY <1>9 DEF CopyVerified, ChangedAfterCopy, Trapped, TypeInv, Loops
  <2>2. g # f
    BY <1>9, <2>1 DEF CopyVerified, ChangedAfterCopy, Trapped
  <2> QED BY <1>9, <2>2 DEF CopyVerified, ChangedAfterCopy, Put
<1>10. ASSUME NEW g \in File, ReadFails(g) PROVE Stale(f)' \/ f \notin DOMAIN info'
  <2>1. Unseen(info[f]).fcopy
    BY <1>0, UnseenFields
  <2> QED BY <1>10, <2>1 DEF ReadFails, Put, Without, Restrict
<1>11. ASSUME NEW g \in File, StatFails(g) \/ Collect(g)
       PROVE  Stale(f)' \/ f \notin DOMAIN info'
  BY <1>11 DEF StatFails, Collect, Put, Without, Restrict
<1>12. \/ UNCHANGED <<info, tmp>> \/ Crash \/ Exit \/ Start \/ EraseGone
       \/ \E g \in File : \/ NewEntry(g) \/ NewMtime(g) \/ SeenFirst(g)
                          \/ CopyFails(g) \/ GoneAfterCopy(g) \/ CopyVerified(g)
                          \/ ChangedAfterCopy(g) \/ ReadFails(g)
                          \/ StatFails(g) \/ Collect(g)
  BY DEF Next, Environment, Failure, Daemon, Scan, vars, Tick, Write,
         Truncate, Touch, Delete, Operation, SigTerm, SaveFails, OpenFails,
         StartScan, NothingListed, EndScan, StartSave, EndSave, ListFile,
         SeenCollected, Visit, StartCopy, CopyRead, CopyEnds, SaveLine, Hand
<1> QED
  BY <1>1, <1>2, <1>3, <1>4, <1>5, <1>6, <1>7, <1>8, <1>9, <1>10, <1>11, <1>12

(***************************************************************************)
(* The theorems                                                            *)
(***************************************************************************)
(* The invariant holds when nothing has run yet.                            *)
LEMMA InductiveInit == Init => IInv
<1> SUFFICES ASSUME Init PROVE IInv
  OBVIOUS
<1>1. TypeInv
  BY TypeInvInit
<1>2. Timing /\ Copying
  BY ClockAssumption DEF Init, Timing, Copying, NoEntry
<1>3. Covering
  BY DEF Init, Covering, PersistedIsHanded, NothingMissed, CollectedIn, NoEntry
<1>4. LeftAlone
  BY DEF Init, LeftAlone, OldIsLeftAlone, NoEntry
<1>5. Trapped
  BY DEF Init, Trapped, Stale, NoEntry
<1> QED
  BY <1>1, <1>2, <1>3, <1>4, <1>5 DEF IInv

(* Every step keeps the conjuncts together.                                 *)
LEMMA InductiveStep ==
  ASSUME NoStaleCopy
  PROVE  IInv /\ [Next]_vars => IInv'
<1> SUFFICES ASSUME IInv, [Next]_vars PROVE IInv'
  OBVIOUS
<1>1. TypeInv'
  BY TypeInvStep DEF IInv
<1>2. Copying'
  BY <1>1, CopyingStep DEF IInv
<1> QED
  BY <1>1, <1>2, TimingStep, CoveringStep, LeftAloneStep, TrappedStep DEF IInv

(* The invariant the properties below rest on: however writers, failing     *)
(* calls, signals and kills interleave with a scan, offsets and crcs vouch  *)
(* for no more than was handed on, and copies are what their entries say.   *)
THEOREM Inductive ==
  ASSUME NoStaleCopy
  PROVE  Spec => []IInv
<1>1. Init => IInv
  BY InductiveInit
<1>2. IInv /\ [Next]_vars => IInv'
  BY InductiveStep
<1> QED
  BY <1>1, <1>2, PTL DEF Spec

(* copyFile(): of a file that still has the mtime of its entry, the copy    *)
(* waiting to be collected is the whole file, however writers and the       *)
(* copying interleave.                                                      *)
THEOREM CopiesAreIntact ==
  ASSUME NoStaleCopy
  PROVE  Spec => []CopyIntact
<1>1. IInv => CopyIntact
  BY DEF IInv, Copying, Same, CopyIntact
<1> QED
  BY <1>1, Inductive, PTL

(* checkForNewObservations() compares mtimes of one second, and still no    *)
(* write to a file that is marked collected goes unnoticed.                 *)
THEOREM NothingIsMissed ==
  ASSUME NoStaleCopy
  PROVE  Spec => []NothingMissed
<1>1. IInv => NothingMissed
  BY DEF IInv, Covering
<1> QED
  BY <1>1, Inductive, PTL

(* saveFInfoList() and readFInfoList(): wherever the daemon is killed, the  *)
(* state file makes the next process skip nothing that was not handed on.   *)
THEOREM RestartSkipsNothing ==
  ASSUME NoStaleCopy
  PROVE  Spec => []PersistedIsHanded
<1>1. IInv => PersistedIsHanded
  BY DEF IInv, Covering
<1> QED
  BY <1>1, Inductive, PTL

(* With ignore_files_before_startup no file last written before the start   *)
(* is copied or collected, although readFInfoList() makes entries for them. *)
THEOREM OldFilesAreLeftAlone ==
  ASSUME NoStaleCopy
  PROVE  Spec => []OldIsLeftAlone
<1>1. IInv => OldIsLeftAlone
  BY DEF IInv, LeftAlone
<1> QED
  BY <1>1, Inductive, PTL

(* collectObservations() unlinks a copy it could not read and leaves its    *)
(* name in the entry, toBeCollected() is true of the entry as soon as it is *)
(* seen, and the next failing read resets seen: whatever is written to the  *)
(* file, copyFile() is not called for it until its entry is erased or the   *)
(* process ends.                                                            *)
THEOREM StaleIsForever == Spec => StaleStays
<1>1. Init => TypeInv /\ Trapped
  BY InductiveInit DEF IInv
<1>2. TypeInv /\ Trapped /\ [Next]_vars => TypeInv' /\ Trapped'
  BY TypeInvStep, TrappedStep
<1>3. TypeInv /\ Trapped /\ [Next]_vars
        => [\A f \in File : Stale(f) => Stale(f)' \/ f \notin DOMAIN info']_vars
  BY StaleStep
<1> QED
  BY <1>1, <1>2, <1>3, PTL DEF Spec, StaleStays
==============================================================================
