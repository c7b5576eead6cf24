------------------------------ MODULE StateFile ------------------------------
(***************************************************************************)
(* The text of the state file, <progname>_finfo.dat: saveFInfoList()       *)
(* writes a line "name:offset:crc" for each file, readFInfoList() takes    *)
(* the lines apart with a regular expression at the next start.  Collector *)
(* takes lines as whole; here a full disk cuts the text anywhere, and      *)
(* names have colons in them, as the times of day in names of files do.    *)
(*                                                                         *)
(* A text is a sequence of characters; "NL" is the end of a line.          *)
(*                                                                         *)
(* Definitions whose name ends in _Slip are not part of the specification: *)
(* they are slips one could make in the code, kept to see that the         *)
(* properties notice them.                                                 *)
(***************************************************************************)
EXTENDS Integers, Sequences, FiniteSets, SequencesExt, Functions

CONSTANTS
    Names,       \* names of observation files, in the order of std::map
    Contents,    \* what can be in such a file
    Checksum(_), \* crc_ccitt of a content
    MaxHanded    \* bound: contents handed on, of all files together

Name == Range(Names)

VARIABLES
    pc,      \* where the daemon is
    info,    \* fileInfoList: name -> offset and crc
    handed,  \* name -> the contents handed on (history)
    exists,  \* the files found when the daemon starts
    text,    \* the state file
    rest,    \* what getline has still to read of it
    todo,    \* the names whose lines are still to be written
    whole,   \* names whose lines the state file has, whole (history)
    told     \* info when the save began (history)

vars == <<pc, info, handed, exists, text, rest, todo, whole, told>>

NoEntry == [f \in {} |-> 0]
Put(m, k, v) == [x \in DOMAIN m \union {k} |-> IF x = k THEN v ELSE m[x]]

(***************************************************************************)
(* Characters                                                              *)
(***************************************************************************)
Digits == <<"0", "1", "2", "3", "4", "5", "6", "7", "8", "9">>
Digit == Range(Digits)
Character == (UNION {Range(f) : f \in Name}) \union Digit \union {":", "NL"}
Text == Seq(Character)

Decimal[n \in Nat] ==
    IF n < 10 THEN <<Digits[n + 1]>>
    ELSE Append(Decimal[n \div 10], Digits[1 + (n % 10)])

(* lexical_cast of an integer type; it throws for any other text.  (It     *)
(* takes a sign, too, which none of the numbers written has.)              *)
IsNumber(s) == s # <<>> /\ Range(s) \subseteq Digit
Value(c) == CHOOSE d \in 0..9 : Digits[d + 1] = c
Number(s) ==
    LET upto[n \in 0..Len(s)] ==
            IF n = 0 THEN 0 ELSE 10 * upto[n - 1] + Value(s[n])
    IN upto[Len(s)]

Line(f, e) ==
    f \o <<":">> \o Decimal[e.offset] \o <<":">> \o Decimal[e.crc] \o <<"NL">>

Colons(s) == {i \in DOMAIN s : s[i] = ":"}
Matches(s) == \E i, j \in Colons(s) : i < j

(* The first group takes as little as it can. *)
Groups_Slip(s) ==
    LET first == Min(Colons(s))
        second == Min(Colons(s) \ {first})
    IN [name |-> SubSeq(s, 1, first - 1),
        offset |-> SubSeq(s, first + 1, second - 1),
        crc |-> SubSeq(s, second + 1, Len(s))]

(* The groups of the regular expression: the first takes as much as it     *)
(* can, colons included, and leaves two colons for the others.             *)
Groups(s) ==
    LET last == Max(Colons(s))
        second == Max(Colons(s) \ {last})
    IN [name |-> SubSeq(s, 1, second - 1),
        offset |-> SubSeq(s, second + 1, last - 1),
        crc |-> SubSeq(s, last + 1, Len(s))]

(* getline(): the line may lack its end.                                   *)
LineEnd(s) == Min({i \in DOMAIN s : s[i] = "NL"} \union {Len(s) + 1})
GetLine(s) == SubSeq(s, 1, LineEnd(s) - 1)
Behind(s) == SubSeq(s, LineEnd(s) + 1, Len(s))

(***************************************************************************)
(* The constants                                                           *)
(***************************************************************************)

(* No name goes on behind another one with a colon and a number, up to its *)
(* end or one more colon: the line of "synop:06" cut short can be a line   *)
(* of "synop".                                                             *)
GoesOn(g, f) ==
    LET s == g \o <<":">>
    IN \E i, j \in Colons(s) :
         i < j /\ SubSeq(s, 1, i - 1) = f /\ IsNumber(SubSeq(s, i + 1, j - 1))

(* What is noted of a content; a full disk may have taken digits of the    *)
(* checksum away.                                                          *)
Noted(e, obs) ==
    /\ e.offset = Len(obs)
    /\ IsPrefix(Decimal[e.crc], Decimal[Checksum(obs)])

ASSUME NamesAssumption ==
    /\ \A f \in Name : f \in Text /\ f # <<>> /\ "NL" \notin Range(f)
    /\ \A f, g \in Name : ~ GoesOn(g, f)

ASSUME ContentsAssumption ==
    /\ \A obs \in Contents : obs \in Seq(0..255) /\ Checksum(obs) \in Nat
    /\ MaxHanded \in Nat

(* What a content begins with has the checksum of another content, or      *)
(* the first digits of it, only if it is that content.                     *)
ASSUME ChecksumAssumption ==
    \A obs, h \in Contents : \A n \in 1..Len(obs) :
        Noted([offset |-> n, crc |-> Checksum(SubSeq(obs, 1, n))], h) =>
            SubSeq(obs, 1, n) = h

(***************************************************************************)
(* The daemon                                                              *)
(***************************************************************************)
Init ==
    /\ pc = "stopped"
    /\ info = NoEntry /\ told = NoEntry
    /\ handed = [f \in Name |-> {}]
    /\ exists = {} /\ whole = {}
    /\ text = <<>> /\ rest = <<>> /\ todo = {}

(* readFInfoList() opens the file; one that is not there reads as empty.   *)
Start ==
    /\ pc \in {"stopped", "aborted"}
    /\ pc' = "read"
    /\ rest' = text
    /\ exists' \in SUBSET Name
    /\ UNCHANGED <<info, handed, text, todo, whole, told>>

ReadLine ==
    /\ pc = "read"
    /\ rest # <<>>
    /\ rest' = Behind(rest)
    /\ UNCHANGED <<handed, exists, text, todo, whole, told>>

IsKnown(line) == Matches(line) /\ Groups(line).name \in exists

(* A file that no longer exists ends the loop. *)
PassOver_Slip ==
    /\ pc = "read"
    /\ rest # <<>>
    /\ ~IsKnown(GetLine(rest))
    /\ rest' = <<>>
    /\ UNCHANGED <<pc, info, handed, exists, text, todo, whole, told>>

(* The line does not match, or its file no longer exists.                  *)
PassOver ==
    /\ ReadLine
    /\ ~IsKnown(GetLine(rest))
    /\ UNCHANGED <<pc, info>>

Casts(g) == IsNumber(g.offset) /\ IsNumber(g.crc)

TakeOver ==
    /\ ReadLine
    /\ IsKnown(GetLine(rest))
    /\ LET g == Groups(GetLine(rest))
       IN /\ Casts(g)
          /\ info' = Put(info, g.name, [offset |-> Number(g.offset),
                                        crc |-> Number(g.crc)])
    /\ UNCHANGED pc

(* lexical_cast throws, and nothing catches it.                            *)
Abort ==
    /\ ReadLine
    /\ IsKnown(GetLine(rest))
    /\ ~Casts(Groups(GetLine(rest)))
    /\ pc' = "aborted"
    /\ info' = NoEntry

EndRead ==
    /\ pc = "read"
    /\ rest = <<>>
    /\ pc' = "run"
    /\ exists' = {}
    /\ UNCHANGED <<info, handed, text, rest, todo, whole, told>>

(* checkForNewObservations() finds a file it has no entry of.              *)
Notice(f) ==
    /\ pc = "run"
    /\ f \notin DOMAIN info
    /\ info' = Put(info, f, [offset |-> 0, crc |-> 0])
    /\ UNCHANGED <<pc, handed, exists, text, rest, todo, whole, told>>

(* collectObservations() notes what of a file is handed on.                *)
Collect(f, obs) ==
    /\ pc = "run"
    /\ f \in DOMAIN info
    /\ \/ obs \in handed[f]
       \/ Cardinality({h \in Name \X Contents : h[2] \in handed[h[1]]})
            < MaxHanded
    /\ info' = Put(info, f, [offset |-> Len(obs), crc |-> Checksum(obs)])
    /\ handed' = [handed EXCEPT ![f] = @ \union {obs}]
    /\ UNCHANGED <<pc, exists, text, rest, todo, whole, told>>

(* checkForNewObservations() erases the entry of a file that has gone.     *)
Forget(f) ==
    /\ pc = "run"
    /\ f \in DOMAIN info
    /\ info' = [g \in DOMAIN info \ {f} |-> info[g]]
    /\ UNCHANGED <<pc, handed, exists, text, rest, todo, whole, told>>

(* The state file is opened to append. *)
StartSave_Slip ==
    /\ pc = "run"
    /\ pc' = "save"
    /\ todo' = DOMAIN info
    /\ whole' = {}
    /\ told' = info
    /\ UNCHANGED <<info, handed, exists, text, rest>>

(* The state file is truncated; one that cannot be opened stays as it is.  *)
StartSave ==
    /\ pc = "run"
    /\ pc' = "save"
    /\ text' = <<>>
    /\ todo' = DOMAIN info
    /\ whole' = {}
    /\ told' = info
    /\ UNCHANGED <<info, handed, exists, rest>>

(* The entries are taken in the order of the names.                        *)
IsNext(f) ==
    \E i \in DOMAIN Names :
        Names[i] = f /\ \A j \in 1..(i - 1) : Names[j] \notin todo

(* endl flushes each line.                                                 *)
SaveLine ==
    /\ pc = "save"
    /\ \E f \in todo :
         /\ IsNext(f)
         /\ text' = text \o Line(f, info[f])
         /\ whole' = whole \union {f}
         /\ todo' = todo \ {f}
    /\ UNCHANGED <<pc, info, handed, exists, rest, told>>

(* The disk is full: part of the line is written, and after that nothing,  *)
(* for the stream stays bad.                                               *)
SaveCut ==
    /\ pc = "save"
    /\ \E f \in todo :
         /\ IsNext(f)
         /\ LET line == Line(f, info[f])
            IN \E n \in 0..(Len(line) - 1) : text' = text \o SubSeq(line, 1, n)
    /\ todo' = {}
    /\ UNCHANGED <<pc, info, handed, exists, rest, whole, told>>

EndSave ==
    /\ pc = "save"
    /\ todo = {}
    /\ pc' = "run"
    /\ UNCHANGED <<info, handed, exists, text, rest, todo, whole, told>>

(* An orderly end or a kill.                                               *)
End ==
    /\ pc \in {"read", "run", "save"}
    /\ pc' = "stopped"
    /\ info' = NoEntry
    /\ exists' = {} /\ rest' = <<>> /\ todo' = {}
    /\ UNCHANGED <<handed, text, whole, told>>

Next ==
    \/ Start \/ PassOver \/ TakeOver \/ Abort \/ EndRead
    \/ \E f \in Name, obs \in Contents : Collect(f, obs)
    \/ \E f \in Name : Notice(f) \/ Forget(f)
    \/ StartSave \/ SaveLine \/ SaveCut \/ EndSave
    \/ End

Spec == Init /\ [][Next]_vars

(***************************************************************************)
(* Places in a text                                                        *)
(***************************************************************************)
From(t, i) == SubSeq(t, i, Len(t))

(* Where lines begin. *)
Starts(t) == {i \in 1..(Len(t) + 1) : i = 1 \/ t[i - 1] = "NL"}

(* From i on, the text is line, or ends in the middle of it.               *)
StandsAt(t, i, line) ==
    /\ i + Len(line) <= Len(t) + 1
    /\ \A k \in 1..Len(line) : t[i + k - 1] = line[k]

CutAt(t, i, line) ==
    /\ Len(t) + 1 < i + Len(line)
    /\ \A k \in 1..(Len(t) + 1 - i) : t[i + k - 1] = line[k]

(***************************************************************************)
(* Properties                                                              *)
(***************************************************************************)

(* Compares lengths only. *)
Appended_Slip(e, obs) == e.offset > 0 /\ e.offset <= Len(obs)

(* getNewObsPart() takes the first e.offset bytes of obs for handed on.    *)
Appended(e, obs) ==
    /\ e.offset > 0
    /\ e.offset <= Len(obs)
    /\ Checksum(SubSeq(obs, 1, e.offset)) = e.crc

(* Wherever a full disk cuts the state file, in the middle of a name or a  *)
(* number, no entry that the next start makes of it lets getNewObsPart()   *)
(* skip bytes of any file that were not handed on: a crc that lost digits  *)
(* matches nothing.                                                        *)
SkipsOnlyHanded ==
    pc = "read" =>
        \A f \in DOMAIN info : \A obs \in Contents :
            Appended(info[f], obs) =>
                SubSeq(obs, 1, info[f].offset) \in handed[f]

(* A line that was written whole comes back as it was, whatever its name   *)
(* is, and whatever becomes of the files and of the lines around it.       *)
WholeLinesComeBack ==
    pc = "read" /\ rest = <<>> =>
        \A f \in whole \intersect exists :
            f \in DOMAIN info /\ info[f] = told[f]

(* The daemon fails to start only for a line cut short: right behind the   *)
(* second colon, or anywhere in the line of a name with colons.            *)
AbortsForACutOnly ==
    pc = "aborted" =>
        \E f \in DOMAIN told \ whole, i \in Starts(text) :
            /\ CutAt(text, i, Line(f, told[f]))
            /\ \/ From(text, i) =
                    f \o <<":">> \o Decimal[told[f].offset] \o <<":">>
               \/ ":" \in Range(f) /\ Matches(From(text, i))

(***************************************************************************)
(* The inductive invariant behind them                                     *)
(***************************************************************************)
TypeOK ==
    /\ pc \in {"stopped", "read", "run", "save", "aborted"}
    /\ text \in Text /\ rest \in Text
    /\ handed \in [Name -> SUBSET Contents]
    /\ exists \subseteq Name
    /\ DOMAIN info \subseteq Name /\ DOMAIN told \subseteq Name
    /\ whole \subseteq DOMAIN told

(* Offset 0 makes getNewObsPart() take the whole file for new.             *)
Vouched(contents, e) == e.offset = 0 \/ \E h \in contents : Noted(e, h)

(* Every entry, in memory or in the state file, vouches for nothing, or    *)
(* for a content that was handed on of its file.                           *)
EntriesOfHanded ==
    \A m \in {info, told} : \A f \in DOMAIN m :
        /\ m[f] \in [offset : Nat, crc : Nat]
        /\ Vouched(handed[f], m[f])

(* The state file is made of the lines of the whole names and at most one  *)
(* cut line, the last one, of another name.                                *)
LinesOfTold ==
    /\ \A f \in whole :
         \E i \in Starts(text) : StandsAt(text, i, Line(f, told[f]))
    /\ \A i \in Starts(text) \ {Len(text) + 1} :
         \/ \E f \in whole : StandsAt(text, i, Line(f, told[f]))
         \/ \E f \in DOMAIN told \ whole : CutAt(text, i, Line(f, told[f]))

(* While lines are still to be written, there is no cut one.               *)
SavesOn ==
    pc = "save" =>
        /\ told = info
        /\ todo \subseteq DOMAIN told \ whole
        /\ todo # {} => Len(text) + 1 \in Starts(text)

(* The reading is at a line, and the whole lines before it are back.       *)
ReadsOn ==
    pc = "read" =>
        \E i \in Starts(text) \union {Len(text) + 1} :
            /\ rest = From(text, i)
            /\ \A f \in whole \intersect exists :
                 \/ f \in DOMAIN info /\ info[f] = told[f]
                 \/ \E j \in Starts(text) :
                      j >= i /\ StandsAt(text, j, Line(f, told[f]))

(* What the theorems about the state file follow from.                     *)
FInv ==
    /\ TypeOK /\ EntriesOfHanded /\ LinesOfTold /\ SavesOn /\ ReadsOn
    /\ AbortsForACutOnly
==============================================================================
