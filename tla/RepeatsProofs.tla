---------------------------- MODULE RepeatsProofs ----------------------------
(* How often an observation is handed on: the theorem about               *)
(* RepeatsAreBounded, for every value of the constants of Collector.      *)
EXTENDS CollectorProofs

(* Files grow or go, no read leaves a stale copy, and no file is hidden by  *)
(* ignore_files_before_startup, which would make the daemon forget how much *)
(* of it was handed on.                                                     *)
OnlyGrow == AppendOnly /\ IgnoreOld \subseteq {FALSE} /\ NoStaleCopy

(***************************************************************************)
(* Contents                                                                *)
(***************************************************************************)
(* What there is of a file, and of its copy, are contents.                  *)
LEMMA FileTypes ==
  ASSUME TypeInv, NEW f \in File
  PROVE  /\ OnDisk(f) \in Content /\ OnDisk(f) \in Seq(Chunk)
         /\ CopyOf(f) \in Content /\ CopyOf(f) \in Seq(Chunk)
         /\ Range(OnDisk(f)) \subseteq Chunk
         /\ Range(CopyOf(f)) \subseteq Chunk
         /\ ops \in Nat
<1>1. OnDisk(f) \in Content
  BY EmptyContent, DiskFields DEF OnDisk, TypeInv, TypeOK
<1>2. CopyOf(f) \in Content
  BY EmptyContent, MapValue DEF CopyOf, TypeInv, TypeOK
<1>3. ASSUME NEW s \in Content PROVE s \in Seq(Chunk) /\ Range(s) \subseteq Chunk
  <2>1. s \in Seq(Chunk)
    BY ContentIsSeq
  <2> QED BY <2>1 DEF Range
<1> QED BY <1>1, <1>2, <1>3, BoundsAssumption DEF TypeInv, TypeOK

(* How often a chunk was given is a number, and counts the part that is     *)
(* being handed on.                                                         *)
LEMMA GivenIsNat ==
  ASSUME TypeInv, NEW c \in Chunk
  PROVE  /\ Given(c) \in Nat
         /\ faults \in Nat /\ crashes \in Nat
BY BoundsAssumption DEF Given, TypeInv, TypeOK

(* Nothing is in the empty file.                                            *)
LEMMA EmptyRange == Range(<<>>) = {}
BY DEF Range

(* Writing a chunk behind a file adds that chunk.                           *)
LEMMA AppendRange ==
  ASSUME NEW t \in Seq(Chunk), NEW c \in Chunk
  PROVE  Range(Append(t, c)) = Range(t) \union {c}
<1>1. DOMAIN Append(t, c) = 1..(Len(t) + 1) /\ DOMAIN t = 1..Len(t)
  OBVIOUS
<1>2. \A i \in 1..Len(t) : Append(t, c)[i] = t[i]
  OBVIOUS
<1>3. Append(t, c)[Len(t) + 1] = c
  OBVIOUS
<1>4. 1..(Len(t) + 1) = 1..Len(t) \union {Len(t) + 1}
  OBVIOUS
<1> DEFINE a == Append(t, c)
<1>5. Range(a) = {a[i] : i \in 1..Len(t)} \union {a[Len(t) + 1]}
  <2> HIDE DEF a
  <2>1. DOMAIN a = 1..Len(t) \union {Len(t) + 1}
    BY <1>1, <1>4 DEF a
  <2> QED BY <2>1 DEF Range
<1>6. Range(t) = {t[i] : i \in 1..Len(t)}
  BY <1>1 DEF Range
<1>7. {a[i] : i \in 1..Len(t)} = {t[i] : i \in 1..Len(t)}
  BY <1>2
<1> QED BY <1>3, <1>5, <1>6, <1>7

(* What follows the first n chunks of a file.                               *)
LEMMA TailIndex ==
  ASSUME NEW t \in Seq(Chunk), NEW n \in Nat,
         NEW j \in DOMAIN SubSeq(t, n + 1, Len(t))
  PROVE  /\ n + j \in 1..Len(t) /\ j >= 1
         /\ SubSeq(t, n + 1, Len(t))[j] = t[n + j]
OBVIOUS

(* What follows some of a file is in it.                                    *)
LEMMA TailRange ==
  ASSUME NEW t \in Seq(Chunk), NEW n \in Nat
  PROVE  Range(SubSeq(t, n + 1, Len(t))) \subseteq Range(t)
<1> DEFINE tail == SubSeq(t, n + 1, Len(t))
<1>1. ASSUME NEW i \in DOMAIN tail PROVE tail[i] \in Range(t)
  <2>1. n + i \in 1..Len(t) /\ tail[i] = t[n + i]
    BY <1>1, TailIndex
  <2> QED BY <2>1 DEF Range
<1> QED BY <1>1 DEF Range

(* A file precedes what it becomes when a new chunk is written behind it.   *)
LEMMA PrecedesGrown ==
  ASSUME NEW s \in Seq(Chunk), NEW t \in Seq(Chunk), NEW c \in Chunk,
         Precedes(s, t), c \notin Range(s)
  PROVE  Precedes(s, Append(t, c))
<1>1. Range(Append(t, c)) = Range(t) \union {c}
  BY AppendRange
<1>2. IsPrefix(s, t) => IsPrefix(s, Append(t, c))
  <2> SUFFICES ASSUME IsPrefix(s, t) PROVE IsPrefix(s, Append(t, c))
    OBVIOUS
  <2> DEFINE a == Append(t, c)
  <2>1. /\ Len(s) <= Len(t) /\ s = SubSeq(t, 1, Len(s))
        /\ a \in Seq(Chunk) /\ Len(a) = Len(t) + 1
    BY DEF IsPrefix
  <2>2. \A i \in 1..Len(t) : a[i] = t[i]
    OBVIOUS
  <2> HIDE DEF a
  <2>3. /\ SubSeq(a, 1, Len(s)) \in Seq(Chunk)
        /\ Len(SubSeq(a, 1, Len(s))) = Len(s)
    BY <2>1
  <2>4. \A i \in 1..Len(s) : s[i] = t[i]
    BY <2>1
  <2>5. \A i \in 1..Len(s) : s[i] = SubSeq(a, 1, Len(s))[i]
    BY <2>1, <2>2, <2>4
  <2>6. s = SubSeq(a, 1, Len(s))
    BY <2>3, <2>5, SeqEqual
  <2> QED BY <2>1, <2>6 DEF IsPrefix, a
<1> QED BY <1>1, <1>2 DEF Precedes

(* A file precedes itself, and the empty file.                              *)
LEMMA PrecedesSelf ==
  ASSUME NEW s \in Seq(Chunk)
  PROVE  Precedes(s, s) /\ Precedes(s, <<>>) /\ Precedes(<<>>, s)
BY EmptyRange DEF Precedes, IsPrefix

(* Of an entry with offset 0 nothing is handed on yet.                      *)
LEMMA NothingMatched ==
  ASSUME NEW e, e.offset = 0, NEW s \in Matched(e)
  PROVE  s = <<>> /\ Range(s) = {}
BY ContentIsSeq, EmptyRange DEF Matched

(* Of an entry that has just been collected its copy is handed on.          *)
LEMMA CopyMatched ==
  ASSUME NEW e, NEW obs \in Content, e.offset = Len(obs), e.crc = Crc(obs)
  PROVE  Matched(e) = {obs}
BY CrcAssumption DEF Matched

(* A new chunk behind a file without it leaves the chunks different.        *)
LEMMA AppendInjects ==
  ASSUME NEW t \in Seq(Chunk), IsInjective(t), NEW c \in Chunk, c \notin Range(t)
  PROVE  IsInjective(Append(t, c))
<1>1. DOMAIN Append(t, c) = 1..Len(t) + 1 /\ DOMAIN t = 1..Len(t)
  OBVIOUS
<1>2. \A i \in 1..Len(t) : Append(t, c)[i] = t[i] /\ t[i] # c
  BY DEF Range
<1>3. Append(t, c)[Len(t) + 1] = c
  OBVIOUS
<1> QED BY <1>1, <1>2, <1>3 DEF IsInjective

(***************************************************************************)
(* What a step does to files, copies and counts                            *)
(***************************************************************************)
(* A step of the daemon leaves the files alone, one of the writers changes  *)
(* one file, which grows or goes.                                           *)
Grows(f) ==
  /\ \A g \in File \ {f} : OnDisk(g)' = OnDisk(g)
  /\ \/ OnDisk(f)' = OnDisk(f)
     \/ OnDisk(f)' = <<>>
     \/ ops + 1 \in Chunk /\ OnDisk(f)' = Append(OnDisk(f), ops + 1)

LEMMA DiskOpGrows ==
  ASSUME AppendOnly, TypeInv, DiskOp PROVE \E f \in File : Grows(f)
<1>1. ASSUME NEW f \in File, Write(f) PROVE Grows(f)
  <2> DEFINE old == OnDisk(f)
  <2>1. PICK n \in 0..Len(old) :
           /\ n = Len(old)
           /\ disk' = Put(disk, f, [mtime |-> now,
                         data |-> Append(SubSeq(old, 1, n), ops + 1)])
    BY <1>1 DEF Write, OnDisk
  <2>2. old \in Seq(Chunk)
    BY FileTypes
  <2>3. SubSeq(old, 1, n) = old
    BY <2>1, <2>2
  <2>4. OnDisk(f)' = Append(old, ops + 1)
    BY <2>1, <2>3 DEF OnDisk, Put
  <2>5. \A g \in File \ {f} : OnDisk(g)' = OnDisk(g)
    BY <2>1 DEF OnDisk, Put
  <2>6. ops + 1 \in Chunk
    BY <1>1, BoundsAssumption DEF Write, Operation, Chunk, TypeInv, TypeOK
  <2> QED BY <2>4, <2>5, <2>6 DEF Grows
<1>2. ASSUME NEW f \in File, Touch(f) PROVE Grows(f)
  BY <1>2 DEF Touch, Grows, OnDisk, Put
<1>3. ASSUME NEW f \in File, Delete(f) PROVE Grows(f)
  BY <1>3 DEF Delete, Grows, OnDisk, Without, Restrict
<1>4. \A f \in File : ~Truncate(f)
  BY DEF Truncate
<1> QED BY <1>1, <1>2, <1>3, <1>4 DEF DiskOp

(* All other steps leave synopdir as it is.                                 *)
LEMMA DiskRests ==
  ASSUME [Next]_vars PROVE DiskOp \/ UNCHANGED <<disk, ops>>
BY DEF Next, Environment, DiskOp, Failure, Daemon, Scan, vars, env, Tick,
       SigTerm, Crash, Start, Exit, SaveFails, OpenFails, StartScan,
       NothingListed, EraseGone, EndScan, StartSave, EndSave, ListFile, Visit,
       NewEntry, NewMtime, SeenFirst, SeenCollected, StartCopy, CopyRead,
       CopyEnds, EndCopy, CopyVerified, ChangedAfterCopy, GoneAfterCopy,
       StatThrows, Fault, CopyFails, ReadFails, StatFails, Take, Collect,
       SaveLine, Hand

(* Copies are taken over whole, when copyFile() has verified them, and they *)
(* go; none changes.                                                        *)
CopyTaken(f) ==
  /\ CopyVerified(f)
  /\ f \in File
  /\ tmp' = Put(tmp, f, OnDisk(f))

CopiesOnlyGo ==
  /\ DOMAIN tmp' \subseteq DOMAIN tmp
  /\ \A g \in DOMAIN tmp' : tmp'[g] = tmp[g]

LEMMA CopySource ==
  ASSUME TypeInv, Copying, [Next]_vars
  PROVE  CopiesOnlyGo \/ \E f \in File : CopyTaken(f)
<1> USE DEF CopiesOnlyGo
<1>1. CASE UNCHANGED tmp
  BY <1>1
<1>2. CASE Crash \/ Exit
  BY <1>2 DEF Crash, Exit, LoseMemory, NoEntry
<1>3. ASSUME NEW f \in File, tmp' = Without(tmp, f) PROVE CopiesOnlyGo
  BY <1>3 DEF Without, Restrict
<1>4. ASSUME NEW f \in File, CopyVerified(f) PROVE CopyTaken(f)
  <2>1. f \in DOMAIN disk /\ Same(f) /\ tmp' = Put(tmp, f, buf)
    BY <1>4 DEF CopyVerified, Same
  <2>2. buf = OnDisk(f)
    BY <1>4, <2>1 DEF CopyVerified, Copying, OnDisk
  <2> QED BY <1>4, <2>1, <2>2 DEF CopyTaken
<1>5. \/ UNCHANGED tmp \/ Crash \/ Exit
      \/ \E f \in File : tmp' = Without(tmp, f) \/ CopyVerified(f)
  BY DEF Next, Environment, Failure, Daemon, Scan, vars, memory, Tick, Write,
         Truncate, Touch, Delete, Operation, SigTerm, Start, SaveFails,
         OpenFails, StartScan, NothingListed, EraseGone, EndScan, StartSave,
         EndSave, ListFile, Visit, NewEntry, NewMtime, SeenFirst,
         SeenCollected, StartCopy, CopyRead, CopyEnds, EndCopy,
         ChangedAfterCopy, GoneAfterCopy, StatThrows, Fault, CopyFails,
         ReadFails, StatFails, Take, Collect, SaveLine, Hand
<1> QED BY <1>1, <1>2, <1>3, <1>4, <1>5

(* Only where a part is collected is a chunk given once more; doNewObs()    *)
(* hands on what was counted then.                                          *)
GivesMore(f) ==
  /\ Collect(f)
  /\ f \in DOMAIN tmp
  /\ part = {} /\ part' = Range(NewObsPart(info[f], tmp[f]))
  /\ UNCHANGED <<times, disk, ops>>
  /\ tmp' = Without(tmp, f)

GivesNoMore == \A c \in Chunk : Given(c)' <= Given(c)

LEMMA GivenStep ==
  ASSUME TypeInv, Covering, [Next]_vars
  PROVE  GivesNoMore \/ \E f \in File : GivesMore(f)
<1> USE DEF GivesNoMore
<1>0. \A c \in Chunk : times[c] \in Nat
  BY DEF TypeInv, TypeOK
<1>1. CASE UNCHANGED <<times, part>>
  BY <1>0, <1>1 DEF Given
<1>2. CASE Crash \/ Exit
  BY <1>0, <1>2 DEF Crash, Exit, LoseMemory, history, Given
<1>3. ASSUME NEW d \in Chunk, Hand(d) PROVE GivesNoMore
  <2>1. /\ d \in part /\ part' = part \ {d}
        /\ times' = [times EXCEPT ![d] = times[d] + 1]
    BY <1>3 DEF Hand
  <2>2. times'[d] = times[d] + 1 /\ \A c \in Chunk \ {d} : times'[c] = times[c]
    BY <2>1 DEF TypeInv, TypeOK
  <2> QED BY <1>0, <2>1, <2>2 DEF Given
<1>4. ASSUME NEW f \in File, Collect(f) PROVE GivesMore(f)
  BY <1>4 DEF Collect, Take, env, history, Covering, GivesMore
<1>5. \/ UNCHANGED <<times, part>> \/ Crash \/ Exit
      \/ \E d \in Chunk : Hand(d)
      \/ \E f \in File : Collect(f)
  BY DEF Next, Environment, Failure, Daemon, Scan, vars, local, history, Tick,
         Write, Truncate, Touch, Delete, Operation, SigTerm, Start, SaveFails,
         OpenFails, StartScan, NothingListed, EraseGone, EndScan, StartSave,
         EndSave, ListFile, Visit, NewEntry, NewMtime, SeenFirst,
         SeenCollected, StartCopy, CopyRead, CopyEnds, EndCopy, CopyVerified,
         ChangedAfterCopy, GoneAfterCopy, StatThrows, Fault, CopyFails,
         ReadFails, StatFails, Take, SaveLine
<1> QED BY <1>1, <1>2, <1>3, <1>4, <1>5

(***************************************************************************)
(* WrittenOnce                                                             *)
(***************************************************************************)
(* Writers number what they write: a new chunk is in no other file, and was *)
(* never handed on.                                                         *)
LEMMA WrittenByWriters ==
  ASSUME AppendOnly, TypeInv, WrittenOnce, DiskOp PROVE WrittenOnce'
<1>1. PICK f \in File : Grows(f)
  BY DiskOpGrows
<1>2. /\ ops' = ops + 1 /\ ops \in Nat /\ ops + 1 \in Chunk
      /\ UNCHANGED <<tmp, times, part>>
  BY DiskEffect, FileTypes, BoundsAssumption DEF memory, history, local, Chunk
<1>3. /\ \A c : Given(c)' = Given(c)
      /\ \A g \in File : CopyOf(g)' = CopyOf(g)
  BY <1>2 DEF Given, CopyOf
<1>4. \A g \in File : /\ OnDisk(g) \in Seq(Chunk) /\ CopyOf(g) \in Seq(Chunk)
                      /\ ops + 1 \notin ChunksOf(g)
  BY <1>2, FileTypes DEF WrittenOnce
<1>5. /\ Range(OnDisk(f)') \subseteq Range(OnDisk(f)) \union {ops + 1}
      /\ IsInjective(OnDisk(f)')
      /\ Precedes(CopyOf(f), OnDisk(f)')
  <2>1. CASE OnDisk(f)' = OnDisk(f)
    BY <2>1 DEF WrittenOnce
  <2>2. CASE OnDisk(f)' = <<>>
    BY <1>4, <2>2, EmptyRange, PrecedesSelf DEF IsInjective
  <2>3. CASE ops + 1 \in Chunk /\ OnDisk(f)' = Append(OnDisk(f), ops + 1)
    <3>1. /\ ops + 1 \notin Range(OnDisk(f)) /\ ops + 1 \notin Range(CopyOf(f))
          /\ IsInjective(OnDisk(f)) /\ Precedes(CopyOf(f), OnDisk(f))
      BY <1>4 DEF WrittenOnce, ChunksOf
    <3> QED BY <1>4, <2>3, <3>1, AppendRange, AppendInjects, PrecedesGrown
  <2> QED BY <1>1, <2>1, <2>2, <2>3 DEF Grows
<1>6. \A g \in File \ {f} : OnDisk(g)' = OnDisk(g)
  BY <1>1 DEF Grows
<1>7. /\ \A g \in File \ {f} : ChunksOf(g)' = ChunksOf(g)
      /\ ChunksOf(f)' \subseteq ChunksOf(f) \union {ops + 1}
  BY <1>3, <1>5, <1>6 DEF ChunksOf
<1>8. \A c \in Chunk : c > ops' => Given(c)' = 0
  BY <1>2, <1>3 DEF WrittenOnce, Chunk
<1>9. ASSUME NEW g \in File PROVE ChunksOf(g)' \subseteq 1..ops'
  BY <1>2, <1>7 DEF WrittenOnce
<1>10. ASSUME NEW g \in File PROVE
          /\ IsInjective(OnDisk(g))' /\ IsInjective(CopyOf(g))'
          /\ Precedes(CopyOf(g), OnDisk(g))'
  <2>1. IsInjective(OnDisk(g)') /\ Precedes(CopyOf(g), OnDisk(g)')
    BY <1>5, <1>6 DEF WrittenOnce
  <2> QED BY <1>3, <2>1 DEF WrittenOnce
<1>11. ASSUME NEW g \in File, NEW h \in File \ {g}
       PROVE  ChunksOf(g)' \intersect ChunksOf(h)' = {}
  <2>1. /\ ops + 1 \notin ChunksOf(g) /\ ops + 1 \notin ChunksOf(h)
        /\ ChunksOf(g) \intersect ChunksOf(h) = {}
    BY <1>4 DEF WrittenOnce
  <2>2. \/ ChunksOf(g)' = ChunksOf(g) /\ ChunksOf(h)' = ChunksOf(h)
        \/ /\ ChunksOf(g)' \subseteq ChunksOf(g) \union {ops + 1}
           /\ ChunksOf(h)' = ChunksOf(h)
        \/ /\ ChunksOf(h)' \subseteq ChunksOf(h) \union {ops + 1}
           /\ ChunksOf(g)' = ChunksOf(g)
    BY <1>7
  <2> QED BY <2>1, <2>2
<1>12. ASSUME NEW g \in File, g \in DOMAIN tmp', NEW c \in Range(OnDisk(g)')
       PROVE  c \in Range(tmp'[g]) \/ Given(c)' = 0
  <2>1. CASE c \in Range(OnDisk(g))
    BY <1>2, <1>3, <1>12, <2>1 DEF WrittenOnce
  <2>2. CASE c = ops + 1
    BY <1>2, <1>3, <2>2 DEF WrittenOnce
  <2> QED BY <1>5, <1>6, <1>12, <2>1, <2>2
<1> QED BY <1>8, <1>9, <1>10, <1>11, <1>12 DEF WrittenOnce

(* A part that is collected is of one file: those of the others are not     *)
(* given, and what is not written yet is not either.                        *)
LEMMA WrittenWhenCollected ==
  ASSUME TypeInv, WrittenOnce, NEW f \in File, GivesMore(f) PROVE WrittenOnce'
<1>1. /\ UNCHANGED <<times, disk, ops>> /\ part = {}
      /\ part' = Range(NewObsPart(info[f], tmp[f]))
      /\ f \in DOMAIN tmp /\ tmp' = Without(tmp, f)
  BY DEF GivesMore
<1>2. part' \subseteq Range(tmp[f]) /\ Range(tmp[f]) \subseteq ChunksOf(f)
  <2>1. tmp[f] \in Seq(Chunk) /\ info[f].offset \in Nat
    <3>1. tmp[f] \in Seq(Chunk)
      BY <1>1, FileTypes DEF CopyOf
    <3>2. f \in DOMAIN info
      BY DEF GivesMore, Collect, Take, TypeInv, Loops
    <3>3. info[f].offset \in Nat
      BY <3>2, MapValue, FInfoFields, BoundsAssumption DEF TypeInv, TypeOK, Offset
    <3> QED BY <3>1, <3>3
  <2> DEFINE tail == SubSeq(tmp[f], info[f].offset + 1, Len(tmp[f]))
  <2>2. Range(tail) \subseteq Range(tmp[f])
    BY <2>1, TailRange
  <2>3. part' \subseteq Range(tmp[f])
    BY <1>1, <2>2 DEF NewObsPart
  <2> QED BY <1>1, <2>3 DEF ChunksOf, CopyOf
<1>3. \A g \in File : OnDisk(g)' = OnDisk(g)
  BY <1>1 DEF OnDisk
<1>4. /\ CopyOf(f)' = <<>>
      /\ \A g \in File \ {f} : CopyOf(g)' = CopyOf(g)
  BY <1>1 DEF CopyOf, Without, Restrict
<1>5. \A g \in File : ChunksOf(g)' \subseteq ChunksOf(g)
  BY <1>3, <1>4, EmptyRange DEF ChunksOf
<1>6. \A c : c \notin Range(tmp[f]) => Given(c)' = Given(c)
  BY <1>1, <1>2 DEF Given
<1>7. ASSUME NEW c \in Chunk, c > ops PROVE Given(c)' = 0
  <2>1. c \notin ChunksOf(f)
    BY <1>7, FileTypes DEF WrittenOnce, Chunk
  <2> QED BY <1>2, <1>6, <1>7, <2>1 DEF WrittenOnce
<1>8. ASSUME NEW g \in File PROVE
         /\ IsInjective(OnDisk(g))' /\ IsInjective(CopyOf(g))'
         /\ Precedes(CopyOf(g), OnDisk(g))'
  <2>1. CASE g = f
    <3>1. IsInjective(<<>>) /\ Precedes(<<>>, OnDisk(g))
      BY FileTypes, PrecedesSelf DEF IsInjective
    <3> QED BY <1>3, <1>4, <2>1, <3>1 DEF WrittenOnce
  <2>2. CASE g # f
    BY <1>3, <1>4, <2>2 DEF WrittenOnce
  <2> QED BY <2>1, <2>2
<1>9. ASSUME NEW g \in File, g \in DOMAIN tmp', NEW c \in Range(OnDisk(g)')
      PROVE  c \in Range(tmp'[g]) \/ Given(c)' = 0
  <2>1. g # f /\ g \in DOMAIN tmp /\ tmp'[g] = tmp[g]
    BY <1>1, <1>9 DEF Without, Restrict
  <2>2. c \in ChunksOf(g) /\ c \notin Range(tmp[f])
    BY <1>2, <1>3, <1>9, <2>1 DEF WrittenOnce, ChunksOf
  <2> QED BY <1>3, <1>6, <1>9, <2>1, <2>2 DEF WrittenOnce
<1>10. ASSUME NEW g \in File, NEW h \in File \ {g}
       PROVE  ChunksOf(g)' \intersect ChunksOf(h)' = {}
  BY <1>5 DEF WrittenOnce
<1>11. \A g \in File : ChunksOf(g)' \subseteq 1..ops'
  BY <1>1, <1>5 DEF WrittenOnce
<1> QED BY <1>1, <1>7, <1>8, <1>9, <1>10, <1>11 DEF WrittenOnce

(* A copy is of its own file, and has all of it.                            *)
LEMMA WrittenWhenCopied ==
  ASSUME TypeInv, WrittenOnce, UNCHANGED <<disk, ops>>, GivesNoMore,
         NEW f \in File, CopyTaken(f)
  PROVE  WrittenOnce'
<1>1. tmp' = Put(tmp, f, OnDisk(f))
  BY DEF CopyTaken
<1>2. \A g \in File : OnDisk(g)' = OnDisk(g)
  BY DEF OnDisk
<1>3. /\ CopyOf(f)' = OnDisk(f)
      /\ \A g \in File \ {f} : CopyOf(g)' = CopyOf(g)
  BY <1>1 DEF CopyOf, Put
<1>4. \A g \in File : ChunksOf(g)' \subseteq ChunksOf(g)
  BY <1>2, <1>3 DEF ChunksOf
<1>5. \A c \in Chunk : Given(c) = 0 => Given(c)' = 0
  BY GivenIsNat DEF GivesNoMore, Given, CopyTaken, CopyVerified, EndCopy,
                    history
<1>6. ASSUME NEW g \in File PROVE
         /\ IsInjective(OnDisk(g))' /\ IsInjective(CopyOf(g))'
         /\ Precedes(CopyOf(g), OnDisk(g))'
  <2>1. IsInjective(OnDisk(g)) /\ IsInjective(CopyOf(g))
        /\ Precedes(CopyOf(g), OnDisk(g)) /\ Precedes(OnDisk(g), OnDisk(g))
    BY FileTypes, PrecedesSelf DEF WrittenOnce
  <2> QED BY <1>2, <1>3, <2>1
<1>7. ASSUME NEW g \in File, g \in DOMAIN tmp', NEW c \in Range(OnDisk(g)')
      PROVE  c \in Range(tmp'[g]) \/ Given(c)' = 0
  <2>1. CASE g = f
    BY <1>1, <1>2, <1>7, <2>1 DEF Put
  <2>2. CASE g # f
    <3>1. g \in DOMAIN tmp /\ tmp'[g] = tmp[g] /\ c \in Range(OnDisk(g))
      BY <1>1, <1>2, <1>7, <2>2 DEF Put
    <3>2. c \in Chunk
      BY <3>1, FileTypes
    <3> QED BY <1>5, <3>1, <3>2 DEF WrittenOnce
  <2> QED BY <2>1, <2>2
<1> QED BY <1>4, <1>5, <1>6, <1>7 DEF WrittenOnce

(* The other steps write nothing, and at most forget a copy.                *)
LEMMA WrittenOtherwise ==
  ASSUME TypeInv, TypeInv', WrittenOnce, UNCHANGED <<disk, ops>>, GivesNoMore,
         CopiesOnlyGo
  PROVE  WrittenOnce'
<1>1. \A g \in File : OnDisk(g)' = OnDisk(g)
  BY DEF OnDisk
<1>2. \A g \in File : CopyOf(g)' \in {CopyOf(g), <<>>}
  BY DEF CopyOf, CopiesOnlyGo
<1>3. \A g \in File : ChunksOf(g)' \subseteq ChunksOf(g)
  BY <1>1, <1>2, EmptyRange DEF ChunksOf
<1>4. ASSUME NEW c \in Chunk, Given(c) = 0 PROVE Given(c)' = 0
  <2>1. Given(c)' \in Nat /\ Given(c)' <= Given(c)
    BY DEF GivesNoMore, Given, TypeInv, TypeOK
  <2> QED BY <1>4, <2>1
<1>5. ASSUME NEW g \in File PROVE
         /\ IsInjective(OnDisk(g))' /\ IsInjective(CopyOf(g))'
         /\ Precedes(CopyOf(g), OnDisk(g))'
  <2>1. /\ IsInjective(OnDisk(g)) /\ IsInjective(CopyOf(g))
        /\ Precedes(CopyOf(g), OnDisk(g))
        /\ Precedes(<<>>, OnDisk(g)) /\ IsInjective(<<>>)
    BY FileTypes, PrecedesSelf DEF WrittenOnce, IsInjective
  <2> QED BY <1>1, <1>2, <2>1
<1>6. ASSUME NEW g \in File, g \in DOMAIN tmp', NEW c \in Range(OnDisk(g)')
      PROVE  c \in Range(tmp'[g]) \/ Given(c)' = 0
  <2>1. c \in Chunk
    BY <1>1, <1>6, FileTypes
  <2> QED BY <1>1, <1>4, <1>6, <2>1 DEF CopiesOnlyGo, WrittenOnce
<1> QED BY <1>3, <1>4, <1>5, <1>6 DEF WrittenOnce

(* Every step keeps chunks apart.                                           *)
LEMMA WrittenStep ==
  ASSUME AppendOnly, TypeInv, TypeInv', Copying, Covering, WrittenOnce,
         [Next]_vars
  PROVE  WrittenOnce'
<1>1. CASE DiskOp
  BY <1>1, WrittenByWriters
<1>2. CASE UNCHANGED <<disk, ops>>
  <2>1. ASSUME NEW f \in File, GivesMore(f) PROVE WrittenOnce'
    BY <2>1, WrittenWhenCollected
  <2>2. ASSUME GivesNoMore PROVE WrittenOnce'
    BY <1>2, <2>2, CopySource, WrittenWhenCopied, WrittenOtherwise
  <2> QED BY <2>1, <2>2, GivenStep
<1> QED BY <1>1, <1>2, DiskRests

(***************************************************************************)
(* OffsetsFit                                                              *)
(***************************************************************************)
(* What a step can do to t, a file of synopdir or its copy: nothing, or it  *)
(* goes, or what was written with operation n + 1 comes behind it.          *)
Grown(t, u, n) ==
  \/ u = t
  \/ u = <<>>
  \/ n + 1 \in Chunk /\ u = Append(t, n + 1)

LEMMA FitsStays ==
  ASSUME NEW d, NEW e, e.offset = d.offset, e.crc = d.crc,
         NEW t \in Seq(Chunk), NEW u, NEW n \in Nat, NEW m \in Nat,
         Fits(d, t, n), Grown(t, u, n), n <= m
  PROVE  Fits(e, u, m)
<1> SUFFICES ASSUME NEW s \in Matched(e)
             PROVE  Range(s) \subseteq 1..m /\ Precedes(s, u)
  BY DEF Fits
<1>1. s \in Seq(Chunk) /\ Range(s) \subseteq 1..n /\ Precedes(s, t)
  BY ContentIsSeq DEF Matched, Fits
<1>2. n + 1 \notin Range(s) /\ Range(s) \subseteq 1..m
  BY <1>1
<1>3. Precedes(s, u)
  BY <1>1, <1>2, PrecedesSelf, PrecedesGrown DEF Grown
<1> QED BY <1>2, <1>3

(* An offset of 0 fits.                                                     *)
LEMMA ZeroFits ==
  ASSUME NEW e, e.offset = 0, NEW t \in Seq(Chunk), NEW n
  PROVE  Fits(e, t, n)
BY NothingMatched, PrecedesSelf DEF Fits

(* In any step a file of synopdir grows or goes, and no operation is        *)
(* forgotten.                                                               *)
LEMMA DiskStep ==
  ASSUME AppendOnly, TypeInv, [Next]_vars
  PROVE  /\ ops \in Nat /\ ops' \in Nat /\ ops <= ops'
         /\ \A g \in File : Grown(OnDisk(g), OnDisk(g)', ops)
<1>1. CASE DiskOp
  <2>1. ops' = ops + 1 /\ ops \in Nat
    BY <1>1, DiskEffect, BoundsAssumption DEF TypeInv, TypeOK
  <2>2. PICK f \in File : Grows(f)
    BY <1>1, DiskOpGrows
  <2> QED BY <2>1, <2>2 DEF Grows, Grown
<1>2. CASE UNCHANGED <<disk, ops>>
  BY <1>2, BoundsAssumption DEF OnDisk, Grown, TypeInv, TypeOK
<1> QED BY <1>1, <1>2, DiskRests

(* A copy stays, goes, or is the file.                                      *)
LEMMA CopyStep ==
  ASSUME TypeInv, Copying, [Next]_vars, NEW g \in File
  PROVE  CopyOf(g)' \in {CopyOf(g), <<>>, OnDisk(g)}
<1>1. CASE CopiesOnlyGo
  BY <1>1 DEF CopiesOnlyGo, CopyOf
<1>2. ASSUME NEW f \in File, CopyTaken(f) PROVE CopyOf(g)' \in {CopyOf(g), OnDisk(g)}
  BY <1>2 DEF CopyTaken, CopyOf, Put
<1> QED BY <1>1, <1>2, CopySource

(* Offsets and crcs move to what has just been copied from the file, which  *)
(* can only have grown or gone since.                                       *)
LEMMA OffsetsStep ==
  ASSUME AppendOnly, TypeInv, Copying, WrittenOnce, OffsetsFit, [Next]_vars
  PROVE  OffsetsFit'
<1>1. /\ ops \in Nat /\ ops' \in Nat /\ ops <= ops'
      /\ \A g \in File : Grown(OnDisk(g), OnDisk(g)', ops)
  BY DiskStep
<1>2. \A g \in File : OnDisk(g) \in Seq(Chunk) /\ CopyOf(g) \in Seq(Chunk)
  BY FileTypes
<1>3. ASSUME NEW d, NEW e, e.offset = d.offset, e.crc = d.crc, NEW g \in File,
             Fits(d, OnDisk(g), ops)
      PROVE  Fits(e, OnDisk(g)', ops')
  <2> DEFINE u == OnDisk(g)'
  <2>1. Grown(OnDisk(g), u, ops)
    BY <1>1
  <2> HIDE DEF u
  <2>2. Fits(e, u, ops')
    BY <1>1, <1>2, <1>3, <2>1, FitsStays
  <2> QED BY <2>2 DEF u
<1>4. ASSUME NEW d, NEW e, e.offset = d.offset, e.crc = d.crc, NEW g \in File,
             Fits(d, OnDisk(g), ops), Fits(d, CopyOf(g), ops)
      PROVE  Fits(e, CopyOf(g)', ops')
  <2> DEFINE u == CopyOf(g)'
  <2>1. Grown(CopyOf(g), u, ops) \/ Grown(OnDisk(g), u, ops)
    BY CopyStep DEF Grown
  <2> HIDE DEF u
  <2>2. Fits(e, u, ops')
    BY <1>1, <1>2, <1>4, <2>1, FitsStays
  <2> QED BY <2>2 DEF u
<1>5. ASSUME NEW g \in DOMAIN info'
      PROVE  Fits(info'[g], OnDisk(g)', ops') /\ Fits(info'[g], CopyOf(g)', ops')
  <2>1. EntryFrom(g)
    BY <1>5, EntrySource
  <2>2. g \in File
    BY <1>5, TypeInvStep, MapDomain DEF TypeInv, TypeOK
  <2>3. CASE /\ g \in DOMAIN info
             /\ info'[g].offset = info[g].offset
             /\ info'[g].crc = info[g].crc
    BY <1>3, <1>4, <2>2, <2>3 DEF OffsetsFit
  <2>4. CASE info'[g].offset = 0
    <3>1. OnDisk(g)' \in Seq(Chunk) /\ CopyOf(g)' \in Seq(Chunk)
      <4>1. <<>> \in Seq(Chunk)
        OBVIOUS
      <4>2. CopyOf(g)' \in Seq(Chunk)
        BY <1>2, <2>2, <4>1, CopyStep
      <4>3. Grown(OnDisk(g), OnDisk(g)', ops)
        BY <1>1, <2>2
      <4>4. OnDisk(g)' \in Seq(Chunk)
        <5>1. \A t \in Seq(Chunk), c \in Chunk : Append(t, c) \in Seq(Chunk)
          OBVIOUS
        <5> QED BY <1>2, <2>2, <4>1, <4>3, <5>1, Zenon DEF Grown
      <4> QED BY <4>2, <4>4
    <3> DEFINE u == OnDisk(g)'
               v == CopyOf(g)'
    <3> HIDE DEF u, v
    <3>2. Fits(info'[g], u, ops') /\ Fits(info'[g], v, ops')
      BY <2>4, <3>1, ZeroFits DEF u, v
    <3> QED BY <3>2 DEF u, v
  <2>5. CASE /\ Start
             /\ g \in DOMAIN saved
             /\ info'[g].offset = saved[g].offset
             /\ info'[g].crc = saved[g].crc
    <3>1. CopyOf(g)' = <<>>
      BY <2>5 DEF Start, Copying, CopyOf
    <3>2. Fits(info'[g], OnDisk(g)', ops')
      BY <1>3, <2>2, <2>5 DEF OffsetsFit
    <3>3. Fits(info'[g], <<>>, ops')
      <4>1. Grown(OnDisk(g), <<>>, ops) /\ Fits(saved[g], OnDisk(g), ops)
        BY <2>5 DEF Grown, OffsetsFit
      <4> QED BY <1>1, <1>2, <2>2, <2>5, <4>1, FitsStays
    <3> QED BY <3>1, <3>2, <3>3
  <2>6. CASE /\ Collect(g)
             /\ g \in DOMAIN tmp /\ tmp[g] \in Content
             /\ info'[g].offset = Len(tmp[g])
             /\ info'[g].crc = Crc(tmp[g])
    <3>1. /\ UNCHANGED <<disk, ops>>
          /\ CopyOf(g) = tmp[g]
          /\ CopyOf(g)' = <<>>
      BY <2>6 DEF Collect, Take, env, CopyOf, Without, Restrict
    <3>2. OnDisk(g)' = OnDisk(g)
      BY <3>1 DEF OnDisk
    <3>3. Matched(info'[g]) = {tmp[g]}
      BY <2>6, CopyMatched
    <3>4. /\ Range(tmp[g]) \subseteq 1..ops /\ Precedes(tmp[g], OnDisk(g))
          /\ Precedes(tmp[g], <<>>)
      BY <1>2, <2>2, <3>1, PrecedesSelf DEF WrittenOnce, ChunksOf
    <3> QED BY <3>1, <3>2, <3>3, <3>4 DEF Fits
  <2> QED BY <2>1, <2>3, <2>4, <2>5, <2>6 DEF EntryFrom
<1>6. ASSUME NEW g \in DOMAIN saved' PROVE Fits(saved'[g], OnDisk(g)', ops')
  <2>1. g \in File
    BY <1>6, TypeInvStep, MapDomain DEF TypeInv, TypeOK
  <2>2. \/ g \in DOMAIN saved /\ saved'[g] = saved[g]
        \/ /\ g \in DOMAIN info
           /\ saved'[g] = [offset |-> info[g].offset, crc |-> info[g].crc]
    BY <1>6, LineSource
  <2> QED BY <1>3, <2>1, <2>2 DEF OffsetsFit
<1> QED BY <1>5, <1>6 DEF OffsetsFit

(***************************************************************************)
(* Counting                                                                *)
(***************************************************************************)
(* getNewObsPart() skips what the entry covers: a chunk of the new part has *)
(* been handed on less often than the bound.                                *)
LEMMA PartIsSpare ==
  ASSUME TypeInv, WrittenOnce, OffsetsFit, Counting,
         NEW f \in File, GivesMore(f), NEW c \in part'
  PROVE  Spare(c)
<1> DEFINE t == tmp[f]
           e == info[f]
<1>1. /\ f \in DOMAIN info /\ f \in DOMAIN tmp /\ pc = "collect"
      /\ part' = Range(NewObsPart(e, t))
      /\ t = CopyOf(f)
  BY DEF GivesMore, Collect, Take, TypeInv, Loops, CopyOf
<1>2. /\ t \in Seq(Chunk) /\ t \in Content /\ IsInjective(t)
      /\ e.offset \in Nat
  BY <1>1, FileTypes, MapValue, FInfoFields, BoundsAssumption
  DEF WrittenOnce, TypeInv, TypeOK, Offset
<1>3. c \in Range(t)
  BY <1>1, <1>2, TailRange DEF NewObsPart
<1>4. ASSUME NEW s \in Matched(e), c \in Range(s) PROVE FALSE
  <2>1. /\ s \in Seq(Chunk) /\ Len(s) = e.offset /\ Crc(s) = e.crc
        /\ Precedes(s, t)
    BY <1>1, ContentIsSeq DEF OffsetsFit, Fits, Matched
  <2>2. Len(s) <= Len(t) /\ s = SubSeq(t, 1, Len(s))
    BY <1>2, <1>3, <1>4, <2>1 DEF Precedes, IsPrefix
  <2>3. PICK i \in 1..Len(s) : s[i] = c
    BY <1>4, <2>1 DEF Range
  <2>4. i \in 1..Len(t) /\ i <= e.offset /\ t[i] = c
    BY <1>2, <2>1, <2>2, <2>3
  <2>5. Appended(e, t)
    <3> HIDE DEF t, e
    <3>1. e.offset > 0 /\ e.offset <= Len(t)
      BY <1>2, <2>1, <2>2, <2>4
    <3>2. Crc(SubSeq(t, 1, e.offset)) = e.crc
      BY <2>1, <2>2, Zenon
    <3> QED BY <3>1, <3>2 DEF Appended
  <2> DEFINE tail == SubSeq(t, e.offset + 1, Len(t))
  <2>6. c \in Range(tail)
    BY <1>1, <2>5 DEF NewObsPart
  <2>7. PICK j \in DOMAIN tail : tail[j] = c
    BY <2>6 DEF Range
  <2>8. e.offset + j \in 1..Len(t) /\ t[e.offset + j] = c /\ j >= 1
    BY <1>2, <2>7, TailIndex
  <2>9. e.offset + j = i
    BY <1>2, <2>4, <2>8 DEF IsInjective
  <2> QED BY <1>2, <2>4, <2>8, <2>9
<1>5. Covered(info, f, c)
  <2>1. c \in ChunksOf(f)
    BY <1>1, <1>3 DEF ChunksOf
  <2> QED BY <1>1, <2>1 DEF Counting
<1> QED BY <1>1, <1>4, <1>5 DEF Covered

(* A failing call or a kill makes the bound greater, and hands on nothing.  *)
Loosens ==
  /\ faults' + crashes' = faults + crashes + 1
  /\ GivesNoMore

(* Neither the failing calls nor the kills are ever fewer than before.      *)
LEMMA BoundGrows ==
  ASSUME TypeInv, Covering, [Next]_vars
  PROVE  \/ UNCHANGED <<faults, crashes>>
         \/ Loosens
<1> USE BoundsAssumption DEF bounds
<1>1. CASE Crash
  BY <1>1 DEF Crash, LoseMemory, Loosens, GivesNoMore, Given, history, TypeInv,
              TypeOK
<1>2. ASSUME NEW f \in File, Fault("copy") /\ CopyFails(f) PROVE Loosens
  BY <1>2 DEF Fault, CopyFails, EndCopy, Loosens, GivesNoMore, Given, history,
              TypeInv, TypeOK
<1>3. ASSUME SaveFails PROVE Loosens
  BY <1>3 DEF Fault, SaveFails, Loosens, GivesNoMore, Given, history, local,
              TypeInv, TypeOK
<1>4. ASSUME NEW f \in File, ReadFails(f), ~UNCHANGED bounds PROVE Loosens
  BY <1>4 DEF Fault, ReadFails, Take, Loosens, GivesNoMore, Given, history,
              TypeInv, TypeOK
<1>5. ASSUME NEW f \in File, StatFails(f) PROVE Loosens
  BY <1>5 DEF Fault, StatFails, Take, Loosens, GivesNoMore, Given, history,
              TypeInv, TypeOK
<1>6. ASSUME NEW f \in File, CopyFails(f) PROVE Fault("copy")
  BY <1>6 DEF CopyFails
<1>7. ASSUME OpenFails PROVE Loosens
  BY <1>7 DEF Fault, OpenFails, Loosens, GivesNoMore, Given, history, TypeInv,
              TypeOK
<1>8. ASSUME NEW f \in File, ListFile(f), ~UNCHANGED bounds PROVE Loosens
  BY <1>8 DEF Fault, ListFile, Loosens, GivesNoMore, Given, history, TypeInv,
              TypeOK
<1>9. ASSUME NEW f \in File, NewMtime(f) \/ GoneAfterCopy(f), ~UNCHANGED bounds
      PROVE  Loosens
  BY <1>9 DEF Fault, StatThrows, NewMtime, Visit, GoneAfterCopy, EndCopy,
              Loosens, GivesNoMore, Given, history, TypeInv, TypeOK
<1>10. \/ UNCHANGED <<faults, crashes>> \/ Crash \/ SaveFails \/ OpenFails
       \/ \E f \in File : \/ CopyFails(f) \/ ReadFails(f) \/ StatFails(f)
                          \/ ListFile(f) \/ NewMtime(f) \/ GoneAfterCopy(f)
  BY DEF Next, Environment, Failure, Daemon, Scan, vars, Tick, Write,
         Truncate, Touch, Delete, Operation, SigTerm, Start, Exit, StartScan,
         NothingListed, EraseGone, EndScan, StartSave, EndSave, NewEntry,
         SeenFirst, SeenCollected, StartCopy, CopyRead, CopyEnds,
         CopyVerified, ChangedAfterCopy, Collect, SaveLine, Hand
<1> QED BY <1>1, <1>2, <1>3, <1>4, <1>5, <1>6, <1>7, <1>8, <1>9, <1>10

(* Counts and bounds are numbers, and bounds do not shrink.                 *)
LEMMA NumbersStep ==
  ASSUME TypeInv, Covering, [Next]_vars, NEW c \in Chunk
  PROVE  /\ Given(c) \in Nat /\ Given(c)' \in Nat
         /\ faults + crashes \in Nat /\ faults' + crashes' \in Nat
         /\ faults + crashes <= faults' + crashes'
<1>1. TypeInv'
  BY TypeInvStep
<1>2. Given(c)' \in Nat
  BY <1>1 DEF Given, TypeInv, TypeOK
<1>3. faults \in Nat /\ crashes \in Nat /\ faults' \in Nat /\ crashes' \in Nat
  BY <1>1, BoundsAssumption DEF TypeInv, TypeOK
<1>4. \/ faults' = faults /\ crashes' = crashes
      \/ faults' + crashes' = faults + crashes + 1
  BY BoundGrows DEF Loosens
<1>5. /\ faults + crashes \in Nat /\ faults' + crashes' \in Nat
      /\ faults + crashes <= faults' + crashes'
  <2> DEFINE m == faults
             n == crashes
             x == faults'
             y == crashes'
  <2>1. m \in Nat /\ n \in Nat /\ x \in Nat /\ y \in Nat
    BY <1>3
  <2>2. (x = m /\ y = n) \/ x + y = m + n + 1
    BY <1>4
  <2> HIDE DEF m, n, x, y
  <2>3. m + n \in Nat /\ x + y \in Nat /\ m + n <= x + y
    BY <2>1, <2>2
  <2> QED BY <2>3, Zenon DEF m, n, x, y
<1>6. Given(c) \in Nat
  BY GivenIsNat
<1> QED BY <1>2, <1>5, <1>6, Zenon

(* No chunk is ever given more often than the bound.                        *)
LEMMA GivenIsBounded ==
  ASSUME TypeInv, Covering, WrittenOnce, OffsetsFit, Counting, [Next]_vars,
         NEW c \in Chunk
  PROVE  Given(c)' <= 1 + (faults' + crashes')
<1> DEFINE g == Given(c)
           h == Given(c)'
           b == faults + crashes
           d == faults' + crashes'
<1>1. g \in Nat /\ h \in Nat /\ b \in Nat /\ d \in Nat /\ b <= d
  BY NumbersStep
<1>2. g <= 1 + b
  BY GivenIsNat DEF Counting
<1>3. ASSUME GivesNoMore PROVE h <= 1 + d
  <2>1. h <= g
    BY <1>3 DEF GivesNoMore
  <2> HIDE DEF g, h, b, d
  <2> QED BY <1>1, <1>2, <2>1
<1>4. ASSUME NEW f \in File, GivesMore(f) PROVE h <= 1 + d
  <2>1. times' = times /\ part = {}
    BY <1>4 DEF GivesMore
  <2>2. times[c] \in Nat
    BY DEF TypeInv, TypeOK
  <2>3. CASE c \in part'
    <3>1. g <= b
      BY <1>4, <2>3, PartIsSpare DEF Spare
    <3>2. h = g + 1
      BY <2>1, <2>2, <2>3 DEF Given
    <3> HIDE DEF g, h, b, d
    <3> QED BY <1>1, <3>1, <3>2
  <2>4. CASE c \notin part'
    <3>1. h = g
      BY <2>1, <2>2, <2>4 DEF Given
    <3> HIDE DEF g, h, b, d
    <3> QED BY <1>1, <1>2, <3>1
  <2> QED BY <2>3, <2>4
<1> QED BY <1>3, <1>4, GivenStep

(* What has a spare keeps it, unless its part is collected.                 *)
LEMMA SpareStays ==
  ASSUME TypeInv, Covering, [Next]_vars, NEW c \in Chunk, Spare(c),
         Given(c)' <= Given(c)
  PROVE  Spare(c)'
<1> DEFINE g == Given(c)
           h == Given(c)'
           b == faults + crashes
           d == faults' + crashes'
<1>1. g \in Nat /\ h \in Nat /\ b \in Nat /\ d \in Nat /\ b <= d
  BY NumbersStep
<1>2. g <= b /\ h <= g
  BY DEF Spare
<1>3. h <= d
  <2> HIDE DEF g, h, b, d
  <2> QED BY <1>1, <1>2
<1> QED BY <1>3 DEF Spare

(* A failing call or a kill gives every chunk one.                          *)
LEMMA LooseIsSpare ==
  ASSUME TypeInv, Covering, Counting, [Next]_vars, Loosens, NEW c \in Chunk
  PROVE  Spare(c)'
<1> DEFINE g == Given(c)
           h == Given(c)'
           b == faults + crashes
           d == faults' + crashes'
<1>1. g \in Nat /\ h \in Nat /\ b \in Nat /\ d \in Nat
  BY NumbersStep
<1>2. g <= 1 + b
  BY GivenIsNat DEF Counting
<1>3. h <= g /\ d = b + 1
  BY DEF Loosens, GivesNoMore
<1>4. h <= d
  <2> HIDE DEF g, h, b, d
  <2> QED BY <1>1, <1>2, <1>3
<1> QED BY <1>4 DEF Spare

(* What was never given has one.                                            *)
LEMMA UngivenIsSpare ==
  ASSUME TypeInv', NEW c, Given(c)' = 0 PROVE Spare(c)'
BY BoundsAssumption DEF Spare, Given, TypeInv, TypeOK

(* What is on disk or in a copy was there before, or is written by this     *)
(* step, and then was never given.                                          *)
LEMMA ChunkSource ==
  ASSUME AppendOnly, TypeInv, Copying, WrittenOnce, [Next]_vars,
         NEW f \in File, NEW c \in ChunksOf(f)'
  PROVE  /\ c \in Chunk
         /\ \/ c \in ChunksOf(f) /\ (c \in Range(OnDisk(f)') => c \in Range(OnDisk(f)))
            \/ Given(c)' = 0
<1> DEFINE t == OnDisk(f)
           u == OnDisk(f)'
<1>1. t \in Seq(Chunk) /\ Range(t) \subseteq Chunk /\ Range(CopyOf(f)) \subseteq Chunk
  BY FileTypes
<1>2. CopyOf(f)' \in {CopyOf(f), <<>>, t}
  BY CopyStep
<1>3. c \in Range(u) \/ c \in Range(CopyOf(f)')
  BY DEF ChunksOf
<1>4. CASE DiskOp
  <2>1. UNCHANGED <<tmp, times, part>> /\ ops \in Nat
    BY <1>4, DiskEffect, FileTypes DEF memory, history, local
  <2>2. CopyOf(f)' = CopyOf(f) /\ Given(c)' = Given(c)
    BY <2>1 DEF CopyOf, Given
  <2>3. Grown(t, u, ops)
    BY DiskStep
  <2> HIDE DEF u
  <2>4. Range(u) \subseteq Range(t) \/ (ops + 1 \in Chunk /\ Range(u) = Range(t) \union {ops + 1})
    BY <1>1, <2>3, AppendRange, EmptyRange DEF Grown
  <2>5. c = ops + 1 /\ c \in Chunk => Given(c) = 0
    BY <2>1 DEF WrittenOnce
  <2> QED BY <1>1, <1>3, <2>2, <2>4, <2>5 DEF ChunksOf, u
<1>5. CASE UNCHANGED <<disk, ops>>
  <2>1. u = t
    BY <1>5 DEF OnDisk
  <2> QED BY <1>1, <1>2, <1>3, <2>1, EmptyRange DEF ChunksOf
<1> QED BY <1>4, <1>5, DiskRests

(* What an entry covers stays covered by an entry with its offset and crc.  *)
LEMMA CoverStays ==
  ASSUME TypeInv, Covering, [Next]_vars, NEW c \in Chunk, Given(c)' <= Given(c),
         NEW f, NEW m, NEW n, Covered(m, f, c),
         f \in DOMAIN m => /\ f \in DOMAIN n
                           /\ n[f].offset = m[f].offset
                           /\ n[f].crc = m[f].crc
  PROVE  Spare(c)' \/ (f \in DOMAIN n /\ \E s \in Matched(n[f]) : c \in Range(s))
<1>1. CASE Spare(c)
  BY <1>1, SpareStays
<1>2. CASE f \in DOMAIN m /\ \E s \in Matched(m[f]) : c \in Range(s)
  BY <1>2 DEF Matched
<1> QED BY <1>1, <1>2 DEF Covered

(* The entry of a file keeps offset and crc, unless its copy is collected,  *)
(* the process ends, a call fails, the file has gone or was not listed.     *)
LEMMA EntryStays ==
  ASSUME TypeInv, [Next]_vars, NEW f \in DOMAIN info
  PROVE  \/ /\ f \in DOMAIN info'
            /\ info'[f].offset = info[f].offset
            /\ info'[f].crc = info[f].crc
         \/ pc' = "stopped" \/ Start \/ Collect(f)
         \/ faults' = faults + 1
         \/ UNCHANGED disk /\ f \notin DOMAIN disk /\ f \notin DOMAIN tmp'
         \/ EraseGone /\ f \notin DOMAIN list
<1> DEFINE Kept == /\ f \in DOMAIN info'
                   /\ info'[f].offset = info[f].offset
                   /\ info'[f].crc = info[f].crc
           Gone == UNCHANGED disk /\ f \notin DOMAIN disk /\ f \notin DOMAIN tmp'
<1>1. CASE UNCHANGED info
  BY <1>1
<1>2. CASE Crash \/ Exit
  BY <1>2 DEF Crash, Exit, LoseMemory
<1>3. CASE EraseGone /\ f \in DOMAIN list
  BY <1>3 DEF EraseGone, Restrict
<1>4. ASSUME NEW g \in DOMAIN info, NEW e, info' = Put(info, g, e),
             e.offset = info[g].offset, e.crc = info[g].crc
      PROVE  Kept
  BY <1>4 DEF Put
<1>5. ASSUME NEW g \in File, g # f,
             info' = Without(info, g) \/ \E e : info' = Put(info, g, e)
      PROVE  Kept
  BY <1>5 DEF Without, Restrict, Put
<1>6. ASSUME NEW g \in DOMAIN info PROVE g \in File /\ info[g] \in FInfo
  BY DEF TypeInv, TypeOK, IsMap
<1>7. ASSUME NEW g \in DOMAIN info, g \in DOMAIN disk,
             info' = Put(info, g, Changed(info[g], disk[g].mtime))
      PROVE  Kept
  <2>1. disk[g].mtime \in Nat
    BY <1>7, DiskFields DEF TypeInv, TypeOK
  <2> QED BY <1>4, <1>6, <1>7, <2>1, ChangedFields
<1>8. ASSUME NEW g \in File, StatThrows(g), UNCHANGED disk
      PROVE  Kept \/ Gone \/ faults' = faults + 1
  <2>1. g \in DOMAIN disk => faults' = faults + 1
    BY <1>8 DEF StatThrows, Fault
  <2>2. g = f /\ g \notin DOMAIN disk => Gone
    BY <1>8 DEF StatThrows, Without, Restrict
  <2>3. g # f => Kept
    BY <1>5, <1>8 DEF StatThrows
  <2> QED BY <2>1, <2>2, <2>3
<1>9. ASSUME NEW g \in File, NewEntry(g) PROVE Kept
  BY <1>5, <1>9 DEF NewEntry
<1>10. ASSUME NEW g \in File, NewMtime(g)
       PROVE  Kept \/ Gone \/ faults' = faults + 1
  BY <1>7, <1>8, <1>10 DEF NewMtime, Visit, env
<1>11. ASSUME NEW g \in File, SeenFirst(g) PROVE Kept
  BY <1>4, <1>6, <1>11, SeenFields DEF SeenFirst, SameMtime
<1>12. ASSUME NEW g \in File, GoneAfterCopy(g)
       PROVE  Kept \/ Gone \/ faults' = faults + 1
  BY <1>8, <1>12 DEF GoneAfterCopy, EndCopy, env
<1>13. ASSUME NEW g \in File, CopyVerified(g) PROVE Kept
  BY <1>4, <1>6, <1>13, CopiedFields DEF CopyVerified, TypeInv, Loops
<1>14. ASSUME NEW g \in File, ChangedAfterCopy(g) PROVE Kept
  BY <1>7, <1>14 DEF ChangedAfterCopy, TypeInv, Loops
<1>15. ASSUME NEW g \in File, ReadFails(g) PROVE Kept
  <2>1. g \in DOMAIN info /\ info' = Put(info, g, Unseen(info[g]))
    BY <1>15 DEF ReadFails, Take, TypeInv, Loops
  <2> QED BY <1>4, <1>6, <2>1, UnseenFields
<1>16. ASSUME NEW g \in File, StatFails(g) PROVE Kept
  <2>1. g \in DOMAIN info /\ info' = Put(info, g, Unseen(CopyRemoved(info[g])))
    BY <1>16 DEF StatFails, Take, TypeInv, Loops
  <2>2. info[g] \in FInfo
    BY <1>6, <2>1
  <2> QED BY <1>4, <2>1, <2>2, UnseenFields, CopyRemovedFields
<1>17. ASSUME NEW g \in File, Collect(g) PROVE Kept \/ Collect(f)
  <2>1. \E e : info' = Put(info, g, e)
    BY <1>17 DEF Collect
  <2> QED BY <1>5, <1>17, <2>1
<1>18. ASSUME NEW g \in File, CopyFails(g) PROVE faults' = faults + 1
  BY <1>18 DEF CopyFails, Fault
<1>19. \/ UNCHANGED info \/ Crash \/ Exit \/ Start \/ EraseGone
       \/ \E g \in File : \/ NewEntry(g) \/ NewMtime(g) \/ SeenFirst(g)
                          \/ CopyFails(g) \/ GoneAfterCopy(g) \/ CopyVerified(g)
                          \/ ChangedAfterCopy(g) \/ ReadFails(g)
                          \/ StatFails(g) \/ Collect(g)
  BY DEF Next, Environment, Failure, Daemon, Scan, vars, memory, Tick, Write,
         Truncate, Touch, Delete, Operation, SigTerm, SaveFails, OpenFails,
         StartScan, NothingListed, EndScan, StartSave, EndSave, ListFile,
         Fault, SeenCollected, Visit, StartCopy, CopyRead, CopyEnds, SaveLine,
         Hand
<1> QED
  BY <1>1, <1>2, <1>3, <1>9, <1>10, <1>11, <1>12, <1>13, <1>14, <1>15, <1>16,
     <1>17, <1>18, <1>19

(* What is still on disk or in a copy is covered by its file's entry.       *)
LEMMA InfoCovers ==
  ASSUME AppendOnly, TypeInv, TypeInv', Copying, Covering, WrittenOnce,
         Counting, [Next]_vars, pc' # "stopped",
         NEW f \in File, NEW c \in ChunksOf(f)'
  PROVE  Covered(info, f, c)'
<1> DEFINE CoveredThen == Spare(c)' \/ ( /\ f \in DOMAIN info'
                                         /\ \E s \in Matched(info'[f]) : c \in Range(s))
<1> SUFFICES CoveredThen
  BY DEF Covered
<1>1. /\ c \in Chunk
      /\ \/ c \in ChunksOf(f) /\ (c \in Range(OnDisk(f)') => c \in Range(OnDisk(f)))
         \/ Given(c)' = 0
  BY ChunkSource
<1>2. CASE Given(c)' = 0
  BY <1>2, UngivenIsSpare
<1>3. CASE Loosens
  BY <1>1, <1>3, LooseIsSpare
<1>4. ASSUME NEW g \in File, GivesMore(g), c \in ChunksOf(f) PROVE CoveredThen
  <2>1. /\ g \in DOMAIN tmp /\ g \in DOMAIN info /\ info[g] \in FInfo
        /\ tmp[g] \in Content /\ CopyOf(g) = tmp[g] /\ tmp[g] \in Seq(Chunk)
        /\ info[g].offset \in Nat
        /\ part = {} /\ part' = Range(NewObsPart(info[g], tmp[g]))
        /\ times' = times
    <3>1. g \in DOMAIN tmp /\ g \in DOMAIN info /\ CopyOf(g) = tmp[g]
      BY <1>4 DEF GivesMore, Collect, Take, TypeInv, Loops, CopyOf
    <3>2. info[g] \in FInfo /\ info[g].offset \in Nat
      BY <3>1, MapValue, FInfoFields, BoundsAssumption DEF TypeInv, TypeOK, Offset
    <3> QED BY <1>4, <3>1, <3>2, FileTypes DEF GivesMore
  <2>2. part' \subseteq Range(tmp[g])
    BY <2>1, TailRange DEF NewObsPart
  <2>3. c \notin Range(tmp[g]) => Given(c)' = Given(c)
    BY <2>1, <2>2 DEF Given
  <2>4. CASE g = f /\ c \in Range(tmp[g])
    <3>1. info' = Put(info, g, HandedOn(CopyRemoved(info[g]), tmp[g]))
      BY <1>4 DEF GivesMore, Collect
    <3>2. /\ g \in DOMAIN info' /\ info'[g].offset = Len(tmp[g])
          /\ info'[g].crc = Crc(tmp[g])
      BY <2>1, <3>1, HandedOnFields, CopyRemovedFields DEF Put
    <3> QED BY <2>1, <2>4, <3>2, CopyMatched
  <2>5. CASE g = f /\ c \notin Range(tmp[g])
    <3>1. c \in Range(OnDisk(f))
      BY <1>4, <2>1, <2>5 DEF ChunksOf
    <3>2. Given(c)' = 0
      BY <2>1, <2>3, <2>5, <3>1 DEF WrittenOnce
    <3> QED BY <1>2, <3>2
  <2>6. CASE g # f
    <3>1. c \notin Range(tmp[g])
      BY <1>4, <2>1, <2>6 DEF WrittenOnce, ChunksOf
    <3>2. Given(c)' <= Given(c)
      BY <1>1, <2>3, <3>1, GivenIsNat
    <3>3. f \in DOMAIN info => f \in DOMAIN info' /\ info'[f] = info[f]
      BY <1>4, <2>6 DEF GivesMore, Collect, Put
    <3>4. pc # "stopped"
      BY <1>4 DEF GivesMore, Collect, Take
    <3> QED BY <1>1, <1>4, <3>2, <3>3, <3>4, CoverStays DEF Counting
  <2> QED BY <2>4, <2>5, <2>6
<1>5. ASSUME GivesNoMore, ~Loosens, c \in ChunksOf(f),
             c \in Range(OnDisk(f)') => c \in Range(OnDisk(f))
      PROVE  CoveredThen
  <2>1. Given(c)' <= Given(c) /\ Given(c) \in Nat /\ Given(c)' \in Nat
    BY <1>1, <1>5, NumbersStep DEF GivesNoMore
  <2>2. CASE Start
    <3>1. pc = "stopped" /\ c \in Range(OnDisk(f))
      BY <1>5, <2>2, EmptyRange DEF Start, Copying, ChunksOf, CopyOf
    <3>2. Covered(saved, f, c) /\ f \in DOMAIN disk
      BY <3>1, EmptyRange DEF Counting, OnDisk
    <3>3. f \in DOMAIN saved =>
             /\ f \in DOMAIN info'
             /\ info'[f].offset = saved[f].offset
             /\ info'[f].crc = saved[f].crc
      BY <2>2, <3>2 DEF Start, NewFInfo
    <3> QED BY <1>1, <2>1, <3>2, <3>3, CoverStays
  <2>3. CASE pc = "stopped" /\ ~Start
    <3>1. pc' = "stopped"
      BY <2>3 DEF Next, Environment, Failure, Daemon, Scan, vars, Tick, Write,
                  Truncate, Touch, Delete, Operation, SigTerm, SaveFails,
                  OpenFails, Collected, Crash, Exit, EraseGone, NewEntry,
                  NewMtime, SeenFirst, CopyFails, GoneAfterCopy, StatThrows,
                  Fault, CopyVerified, ChangedAfterCopy, ReadFails, StatFails,
                  Take, Collect, StartScan, NothingListed, EndScan, StartSave,
                  EndSave, ListFile, SeenCollected, Visit, StartCopy,
                  CopyRead, CopyEnds, SaveLine, Hand
    <3> QED BY <3>1
  <2>4. CASE pc # "stopped" /\ f \notin DOMAIN info
    BY <1>1, <1>5, <2>1, <2>4, CoverStays DEF Counting
  <2>5. CASE pc # "stopped" /\ f \in DOMAIN info
    <3>1. Covered(info, f, c)
      BY <1>5, <2>5 DEF Counting
    <3>2. CASE /\ f \in DOMAIN info'
               /\ info'[f].offset = info[f].offset
               /\ info'[f].crc = info[f].crc
      BY <1>1, <2>1, <3>1, <3>2, CoverStays
    <3>3. CASE Collect(f)
      <4>1. GivesMore(f)
        BY <3>3 DEF Collect, Take, env, history, Covering, GivesMore
      <4> QED BY <1>4, <1>5, <4>1
    <3>4. CASE faults' = faults + 1
      <4>1. faults \in Nat
        BY BoundsAssumption DEF TypeInv, TypeOK
      <4>2. faults' # faults
        BY <3>4, <4>1
      <4> QED BY <1>3, <4>2, BoundGrows
    <3>5. CASE UNCHANGED disk /\ f \notin DOMAIN disk /\ f \notin DOMAIN tmp'
      <4>1. OnDisk(f)' = <<>> /\ CopyOf(f)' = <<>>
        BY <3>5 DEF OnDisk, CopyOf
      <4>2. c \notin ChunksOf(f)'
        BY <4>1, EmptyRange DEF ChunksOf
      <4> QED BY <4>2
    <3>6. CASE EraseGone /\ f \notin DOMAIN list
      <4>1. pc = "list" /\ todo = {}
        BY <3>6 DEF EraseGone
      <4>2. c \in Range(OnDisk(f))
        BY <1>5, <4>1, EmptyRange DEF Copying, ChunksOf, CopyOf
      <4>3. Spare(c)
        BY <3>6, <4>1, <4>2 DEF Counting
      <4> QED BY <1>1, <2>1, <4>3, SpareStays
    <3> QED BY <2>2, <2>5, <3>2, <3>3, <3>4, <3>5, <3>6, EntryStays
  <2> QED BY <2>2, <2>3, <2>4, <2>5
<1> QED BY <1>1, <1>2, <1>3, <1>4, <1>5, GivenStep

(* The state file is only written between collecting and EndSave.           *)
LEMMA SavedStep ==
  ASSUME TypeInv, Covering, [Next]_vars, pc' \notin {"collect", "hand", "save"}
  PROVE  \/ Loosens
         \/ GivesNoMore /\ UNCHANGED saved /\ pc \notin {"collect", "hand", "save"}
         \/ EndSave /\ GivesNoMore
<1>1. ASSUME NEW g \in File, GivesMore(g) PROVE pc' \in {"collect", "hand", "save"}
  BY <1>1 DEF GivesMore, Collect
<1>2. GivesNoMore
  BY <1>1, GivenStep
<1>3. CASE pc \notin {"collect", "hand", "save"}
  BY <1>2, <1>3
  DEF Next, Environment, Failure, Daemon, Scan, vars, Tick, Write, Truncate,
      Touch, Delete, Operation, SigTerm, Crash, Start, Exit, SaveFails,
      OpenFails, Collected, StartScan, NothingListed, EraseGone, EndScan,
      StartSave, EndSave, ListFile, Visit, NewEntry, NewMtime, SeenFirst,
      SeenCollected, StartCopy, CopyRead, CopyEnds, EndCopy, CopyVerified,
      ChangedAfterCopy, GoneAfterCopy, StatThrows, Fault, CopyFails,
      ReadFails, StatFails, Take, Collect, SaveLine, Hand
<1>4. CASE pc \in {"collect", "hand", "save"}
  <2>1. EndSave \/ SaveFails \/ Crash
    BY <1>4
    DEF Next, Environment, Failure, Daemon, Scan, vars, Tick, Write, Truncate,
        Touch, Delete, Operation, SigTerm, Start, Exit, StartScan, OpenFails,
        NothingListed, EraseGone, EndScan, StartSave, ListFile, Visit,
        NewEntry, NewMtime, SeenFirst, SeenCollected, StartCopy, CopyRead,
        CopyEnds, CopyVerified, ChangedAfterCopy, GoneAfterCopy, StatThrows,
        Fault, CopyFails, ReadFails, StatFails, Take, Collect, SaveLine, Hand
  <2>2. faults \in Nat /\ crashes \in Nat
    BY BoundsAssumption DEF TypeInv, TypeOK
  <2>3. SaveFails => faults' # faults
    BY <2>2 DEF SaveFails, Fault
  <2>4. Crash => crashes' # crashes
    BY <2>2 DEF Crash
  <2> QED BY <1>2, <2>1, <2>3, <2>4, BoundGrows
<1> QED BY <1>3, <1>4

(* What is still on disk is covered by its line of the state file, except   *)
(* between collecting and saving: a restart does not repeat it.             *)
LEMMA LinesCover ==
  ASSUME AppendOnly, TypeInv, TypeInv', Copying, Covering, WrittenOnce,
         Counting, [Next]_vars, pc' \notin {"collect", "hand", "save"},
         NEW f \in File, NEW c \in Range(OnDisk(f)')
  PROVE  Covered(saved, f, c)'
<1> DEFINE CoveredThen == Spare(c)' \/ ( /\ f \in DOMAIN saved'
                                         /\ \E s \in Matched(saved'[f]) : c \in Range(s))
<1> SUFFICES CoveredThen
  BY DEF Covered
<1>1. /\ c \in Chunk
      /\ c \in Range(OnDisk(f)) \/ Given(c)' = 0
  <2>1. c \in ChunksOf(f)'
    BY DEF ChunksOf
  <2> QED BY <2>1, ChunkSource
<1>2. CASE Given(c)' = 0
  BY <1>2, UngivenIsSpare
<1>3. CASE Loosens
  BY <1>1, <1>3, LooseIsSpare
<1>4. ASSUME GivesNoMore, UNCHANGED saved,
             pc \notin {"collect", "hand", "save"}, c \in Range(OnDisk(f))
      PROVE  CoveredThen
  <2>1. Given(c)' <= Given(c)
    BY <1>1, <1>4 DEF GivesNoMore
  <2> QED BY <1>1, <1>4, <2>1, CoverStays DEF Counting
<1>5. ASSUME GivesNoMore, EndSave, c \in Range(OnDisk(f)) PROVE CoveredThen
  <2>1. Given(c)' <= Given(c)
    BY <1>1, <1>5 DEF GivesNoMore
  <2>2. pc = "save" /\ todo = {} /\ UNCHANGED saved
    BY <1>5 DEF EndSave
  <2>3. Covered(info, f, c)
    BY <1>5, <2>2 DEF Counting, ChunksOf
  <2>4. f \in DOMAIN info => /\ f \in DOMAIN saved'
                             /\ saved'[f].offset = info[f].offset
                             /\ saved'[f].crc = info[f].crc
    BY <2>2 DEF Counting
  <2> QED BY <1>1, <2>1, <2>3, <2>4, CoverStays
<1> QED BY <1>1, <1>2, <1>3, <1>4, <1>5, SavedStep

(* While saving, the lines written so far are those of the entries.         *)
LEMMA SavingStep ==
  ASSUME TypeInv, Counting, [Next]_vars, pc' = "save",
         NEW f \in DOMAIN info' \ todo'
  PROVE  /\ f \in DOMAIN saved'
         /\ saved'[f].offset = info'[f].offset
         /\ saved'[f].crc = info'[f].crc
<1>1. CASE StartSave
  BY <1>1 DEF StartSave, memory
<1>2. CASE pc = "save" /\ UNCHANGED <<info, todo, saved>>
  BY <1>2 DEF Counting
<1>3. ASSUME NEW g \in File, SaveLine(g)
      PROVE  /\ f \in DOMAIN saved'
             /\ saved'[f].offset = info'[f].offset
             /\ saved'[f].crc = info'[f].crc
  <2>1. /\ pc = "save" /\ UNCHANGED info /\ todo' = todo \ {g}
        /\ saved' = Put(saved, g, [offset |-> info[g].offset, crc |-> info[g].crc])
    BY <1>3 DEF SaveLine, memory
  <2>2. CASE f = g
    BY <2>1, <2>2 DEF Put
  <2>3. CASE f # g
    BY <2>1, <2>3 DEF Put, Counting
  <2> QED BY <2>2, <2>3
<1>4. \/ StartSave \/ (pc = "save" /\ UNCHANGED <<info, todo, saved>>)
      \/ \E g \in File : SaveLine(g)
  <2> DEFINE Rests == pc = "save" /\ UNCHANGED <<info, todo, saved>>
  <2>1. ASSUME Environment \/ SigTerm \/ UNCHANGED vars PROVE Rests
    BY <2>1 DEF Environment, vars, memory, local, Tick, Write, Truncate, Touch,
                Delete, Operation, SigTerm
  <2>2. ~Crash /\ ~SaveFails /\ ~OpenFails /\ ~Start /\ ~Exit
        /\ ~NothingListed /\ ~EraseGone /\ ~EndScan /\ ~EndSave /\ ~StartScan
    BY DEF Crash, LoseMemory, Start, Exit, SaveFails, OpenFails, StartScan,
           NothingListed, EraseGone, EndScan, EndSave
  <2>3. ASSUME NEW g \in File, Scan(g) PROVE FALSE
    BY <2>3 DEF Scan, ListFile, Visit, NewEntry, NewMtime, SeenFirst,
                SeenCollected, StartCopy, CopyRead, CopyEnds, EndCopy,
                CopyVerified, ChangedAfterCopy, GoneAfterCopy, StatThrows,
                Fault
  <2>4. ASSUME NEW g \in File
        PROVE  ~CopyFails(g) /\ ~ReadFails(g) /\ ~StatFails(g) /\ ~Collect(g)
    BY DEF CopyFails, EndCopy, ReadFails, StatFails, Take, Collect
  <2>5. \A d \in Chunk : ~Hand(d)
    BY DEF Hand
  <2> HIDE DEF Rests
  <2>6. StartSave \/ Rests \/ \E g \in File : SaveLine(g)
    BY <2>1, <2>2, <2>3, <2>4, <2>5 DEF Next, Failure, Daemon
  <2> QED BY <2>6 DEF Rests
<1> QED BY <1>1, <1>2, <1>3, <1>4

(* A file that a listing has passed over had not been there, so what it     *)
(* holds was never handed on, or its stat failed, which gave a spare.       *)
LEMMA ListingStep ==
  ASSUME AppendOnly, TypeInv, TypeInv', Copying, Covering, WrittenOnce,
         Counting, [Next]_vars, pc' = "list", NEW f \in File \ todo',
         f \notin DOMAIN list', NEW c \in Range(OnDisk(f)')
  PROVE  Spare(c)'
<1>1. /\ c \in Chunk
      /\ c \in Range(OnDisk(f)) \/ Given(c)' = 0
  <2>1. c \in ChunksOf(f)'
    BY DEF ChunksOf
  <2> QED BY <2>1, ChunkSource
<1>2. CASE Given(c)' = 0
  BY <1>2, UngivenIsSpare
<1>3. Given(c)' <= Given(c)
  <2>1. ASSUME NEW g \in File, GivesMore(g) PROVE FALSE
    BY <2>1 DEF GivesMore, Collect
  <2>2. GivesNoMore
    BY <2>1, GivenStep
  <2> QED BY <1>1, <2>2 DEF GivesNoMore
<1>4. CASE StartScan
  BY <1>4 DEF StartScan
<1>5. ASSUME pc = "list", f \notin todo, f \notin DOMAIN list,
             c \in Range(OnDisk(f))
      PROVE  Spare(c)'
  BY <1>1, <1>3, <1>5, SpareStays DEF Counting
<1>6. CASE pc = "list" /\ UNCHANGED <<list, todo>>
  BY <1>1, <1>2, <1>5, <1>6
<1>7. CASE Loosens
  BY <1>1, <1>7, LooseIsSpare
<1>8. ASSUME NEW g \in File, ListFile(g), ~Loosens PROVE Spare(c)'
  <2>1. faults' # faults => Loosens
    BY BoundGrows
  <2>2. /\ pc = "list" /\ todo' = todo \ {g} /\ UNCHANGED disk
        /\ list' = IF Listed(g) THEN Put(list, g, disk[g].mtime) ELSE list
    <3>1. faults \in Nat
      BY BoundsAssumption DEF TypeInv, TypeOK
    <3>2. ~Fault("list")
      BY <1>8, <2>1, <3>1 DEF Fault
    <3> QED BY <1>8, <3>2 DEF ListFile, env
  <2>3. CASE f = g
    <3>1. ~Listed(f) /\ ignoreBefore = 0
      BY <2>2, <2>3 DEF Put, Counting
    <3>2. f \notin DOMAIN disk
      BY <3>1, DiskFields DEF Listed, TypeInv, TypeOK
    <3> QED BY <2>2, <3>2, EmptyRange DEF OnDisk
  <2>4. CASE f # g
    <3>1. f \notin todo /\ f \notin DOMAIN list
      BY <2>2, <2>4 DEF Put
    <3> QED BY <1>1, <1>2, <1>5, <2>2, <3>1
  <2> QED BY <2>3, <2>4
<1>9. \/ StartScan \/ (pc = "list" /\ UNCHANGED <<list, todo>>)
      \/ \E g \in File : ListFile(g)
  <2> DEFINE Rests == pc = "list" /\ UNCHANGED <<list, todo>>
  <2>1. ASSUME Environment \/ SigTerm \/ UNCHANGED vars PROVE Rests
    BY <2>1 DEF Environment, vars, memory, local, Tick, Write, Truncate, Touch,
                Delete, Operation, SigTerm
  <2>2. ~Crash /\ ~SaveFails /\ ~OpenFails /\ ~Start /\ ~Exit
        /\ ~NothingListed /\ ~EraseGone /\ ~EndScan /\ ~EndSave /\ ~StartSave
    BY DEF Crash, LoseMemory, Start, Exit, SaveFails, OpenFails, StartSave,
           NothingListed, EraseGone, EndScan, EndSave
  <2>3. ASSUME NEW g \in File, Scan(g) PROVE ListFile(g)
    BY <2>3 DEF Scan, Visit, NewEntry, NewMtime, SeenFirst, SeenCollected,
                StartCopy, CopyRead, CopyEnds, EndCopy, CopyVerified,
                ChangedAfterCopy, GoneAfterCopy, StatThrows, Fault
  <2>4. ASSUME NEW g \in File
        PROVE  ~CopyFails(g) /\ ~ReadFails(g) /\ ~StatFails(g) /\ ~Collect(g) /\ ~SaveLine(g)
    BY DEF CopyFails, EndCopy, ReadFails, StatFails, Take, Collect, SaveLine
  <2>5. \A d \in Chunk : ~Hand(d)
    BY DEF Hand
  <2> HIDE DEF Rests
  <2>6. StartScan \/ Rests \/ \E g \in File : ListFile(g)
    BY <2>1, <2>2, <2>3, <2>4, <2>5 DEF Next, Failure, Daemon
  <2> QED BY <2>6 DEF Rests
<1> QED BY <1>4, <1>6, <1>7, <1>8, <1>9

(* Nothing is ever hidden from a listing.                                   *)
LEMMA NothingHidden ==
  ASSUME IgnoreOld \subseteq {FALSE}, ignoreBefore = 0, [Next]_vars
  PROVE  ignoreBefore' = 0
BY DEF Next, Environment, Failure, Daemon, Scan, vars, memory, Tick, Write,
       Truncate, Touch, Delete, Operation, SigTerm, Crash, LoseMemory, Start,
       Exit, SaveFails, OpenFails, StartScan, NothingListed, EraseGone,
       EndScan, StartSave, EndSave, ListFile, Visit, NewEntry, NewMtime,
       SeenFirst, SeenCollected, StartCopy, CopyRead, CopyEnds, EndCopy,
       CopyVerified, ChangedAfterCopy, GoneAfterCopy, StatThrows, Fault,
       CopyFails, ReadFails, StatFails, Take, Collect, SaveLine, Hand

(* Every step keeps the counts below the bound.                             *)
LEMMA CountingStep ==
  ASSUME OnlyGrow, TypeInv, TypeInv', Copying, Covering, WrittenOnce,
         OffsetsFit, Counting, [Next]_vars
  PROVE  Counting'
<1>1. ignoreBefore' = 0
  BY NothingHidden DEF OnlyGrow, Counting
<1>2. ASSUME NEW c \in Chunk PROVE Given(c)' <= 1 + faults' + crashes'
  <2> DEFINE g == Given(c)'
             m == faults'
             n == crashes'
  <2>1. g <= 1 + (m + n)
    BY GivenIsBounded
  <2>2. g \in Nat
    BY NumbersStep
  <2>3. m \in Nat /\ n \in Nat
    BY BoundsAssumption DEF TypeInv, TypeOK
  <2> HIDE DEF g, m, n
  <2>4. g <= 1 + m + n
    BY <2>1, <2>2, <2>3
  <2> QED BY <2>4, Zenon DEF g, m, n
<1>3. ASSUME pc' # "stopped", NEW f \in File, NEW c \in ChunksOf(f)'
      PROVE  Covered(info, f, c)'
  BY <1>3, InfoCovers DEF OnlyGrow
<1>4. ASSUME pc' \notin {"collect", "hand", "save"}, NEW f \in File,
             NEW c \in Range(OnDisk(f)')
      PROVE  Covered(saved, f, c)'
  BY <1>4, LinesCover DEF OnlyGrow
<1>5. ASSUME pc' = "save", NEW f \in DOMAIN info' \ todo'
      PROVE  /\ f \in DOMAIN saved'
             /\ saved'[f].offset = info'[f].offset
             /\ saved'[f].crc = info'[f].crc
  BY <1>5, SavingStep
<1>6. ASSUME pc' = "list", NEW f \in File \ todo'
      PROVE  f \in DOMAIN list' \/ \A c \in Range(OnDisk(f)') : Spare(c)'
  BY <1>6, ListingStep DEF OnlyGrow
<1> QED BY <1>1, <1>2, <1>3, <1>4, <1>5, <1>6 DEF Counting

(* In the beginning nothing is written, copied or handed on.                *)
LEMMA RInvInit == Init => RInv
<1> SUFFICES ASSUME Init PROVE RInv
  OBVIOUS
<1>1. IInv
  BY InductiveInit
<1>2. /\ \A f \in File : OnDisk(f) = <<>> /\ CopyOf(f) = <<>>
      /\ \A f \in File : ChunksOf(f) = {}
  BY EmptyRange DEF Init, NoEntry, OnDisk, CopyOf, ChunksOf
<1>3. \A c \in Chunk : Given(c) = 0
  BY DEF Init, Given
<1>4. WrittenOnce
  BY <1>2, <1>3, EmptyRange DEF Init, NoEntry, WrittenOnce, IsInjective, Precedes
<1>5. OffsetsFit
  BY DEF Init, NoEntry, OffsetsFit
<1>6. Counting
  BY <1>2, <1>3, EmptyRange DEF Init, NoEntry, Counting
<1> QED BY <1>1, <1>4, <1>5, <1>6 DEF RInv

(* The invariant RepeatsAreBounded rests on: of what is still on disk, an   *)
(* entry of fileInfoList and, outside collecting and saving, a line of the  *)
(* state file keep getNewObsPart() from handing it on again, unless a fault *)
(* or a kill has not been paid for.                                         *)
THEOREM RepeatsInductive ==
  ASSUME OnlyGrow PROVE Spec => []RInv
<1>1. Init => RInv
  BY RInvInit
<1>2. RInv /\ [Next]_vars => RInv'
  <2> SUFFICES ASSUME RInv, [Next]_vars PROVE RInv'
    OBVIOUS
  <2>1. IInv'
    BY InductiveStep DEF OnlyGrow, RInv
  <2>2. WrittenOnce'
    BY <2>1, WrittenStep DEF OnlyGrow, RInv, IInv
  <2>3. OffsetsFit'
    BY OffsetsStep DEF OnlyGrow, RInv, IInv
  <2>4. Counting'
    BY <2>1, CountingStep DEF OnlyGrow, RInv, IInv
  <2> QED BY <2>1, <2>2, <2>3, <2>4 DEF RInv
<1> QED BY <1>1, <1>2, PTL DEF Spec

(* Where files only grow, each failing call and each kill makes the daemon  *)
(* hand on a chunk once more at most, and SIGTERM and restarts alone repeat *)
(* nothing: saveFInfoList() and readFInfoList() bring back what the entries *)
(* knew.                                                                    *)
THEOREM RepeatsAreFew ==
  ASSUME OnlyGrow PROVE Spec => []RepeatsAreBounded
<1>1. RInv => RepeatsAreBounded
  <2> SUFFICES ASSUME RInv, NEW c \in Chunk PROVE times[c] <= 1 + faults + crashes
    BY DEF RepeatsAreBounded
  <2>1. Given(c) <= 1 + faults + crashes
    BY DEF RInv, Counting
  <2>2. times[c] \in Nat /\ faults \in Nat /\ crashes \in Nat
    BY BoundsAssumption DEF RInv, IInv, TypeInv, TypeOK
  <2> QED BY <2>1, <2>2 DEF Given
<1> QED BY <1>1, RepeatsInductive, PTL
==============================================================================
