------------------------------ MODULE WmoScanner ------------------------------
(***************************************************************************)
(* How WMORaport finds the bulletins in the new part of a file: decode(),  *)
(* getMessage() and findZCZC(), one character a step.                      *)
(*                                                                         *)
(* A bulletin is framed by "ZCZC nnn\r\r\n" and "\n\n\n\n\n\n\nNNNN\r\r\n" *)
(* and the new part of a file may end anywhere, for the program that       *)
(* writes the file may have paused there.  What counts is what the stream  *)
(* does at its end: get() sets eofbit and failbit and leaves the character *)
(* as it was, putback() clears eofbit only, and a get() on a stream with   *)
(* failbit does not set eofbit again.                                      *)
(*                                                                         *)
(* Definitions whose name ends in _Slip are not part of the specification: *)
(* they are slips one could make in the code, kept to see that the         *)
(* properties notice them.                                                 *)
(***************************************************************************)
EXTENDS Integers, Sequences, FiniteSets, SequencesExt

CONSTANT Files  \* parts of files, each with the bulletins that are in it, and
                \* the places of the frames around them (see IsFramed)

(* "Z", "C" and "N" of the marks, the line ends "\r" and "\n", "1" for all *)
(* digits and the blank, "X" for all other characters but NUL.             *)
Char == {"Z", "C", "N", "\r", "\n", "1", "X"}

ASSUME FilesAssumption ==
    \A f \in Files :
        /\ f.text \in Seq(Char) \ {<<>>}
        /\ f.bulletins \in Seq(Seq(Char))

VARIABLES
    file,     \* what is split
    pc,       \* which loop runs
    pos,      \* next character of the stream
    eofbit, failbit,
    ch,       \* the character last read
    izc,      \* characters of ZCZC found
    iNNN,     \* characters of NNNN found
    rnCount,  \* line ends
    count,    \* characters of the end mark, to be erased
    ost,      \* the bulletin so far
    out       \* bulletins passed to dispatch()

stream == <<pos, eofbit, failbit, ch>>
mark == <<iNNN, rnCount, count, ost>>
vars == <<file, pc, stream, izc, mark, out>>

ZCZC == <<"Z", "C", "Z", "C">>
LineEnd == {"\r", "\n"}
ValidCh == {"1"} \union LineEnd

Init ==
    /\ file \in Files
    /\ pc = "decode"
    /\ pos = 1 /\ eofbit = FALSE /\ failbit = FALSE
    /\ ch = "X"
    /\ izc = 0
    /\ iNNN = 0 /\ rnCount = 0 /\ count = 0 /\ ost = <<>>
    /\ out = <<>>

(***************************************************************************)
(* The stream                                                              *)
(***************************************************************************)
Ready == ~failbit /\ pos <= Len(file.text)

Get ==
    /\ Ready
    /\ ch' = file.text[pos]
    /\ pos' = pos + 1
    /\ UNCHANGED <<eofbit, failbit>>

GetFails ==
    /\ ~Ready
    /\ eofbit' = (eofbit \/ ~failbit)
    /\ failbit' = TRUE
    /\ UNCHANGED <<pos, ch>>

(* get() and then putback() of what it read, or of what was read before.   *)
Peek ==
    /\ ch' = IF Ready THEN file.text[pos] ELSE ch
    /\ failbit' = ~Ready
    /\ eofbit' = FALSE
    /\ UNCHANGED pos

(***************************************************************************)
(* decode(), and the start of getMessage()                                 *)
(***************************************************************************)
NextMessage ==
    /\ pc = "decode"
    /\ ~eofbit
    /\ pc' = "search"
    /\ izc' = 0
    /\ iNNN' = 0 /\ rnCount' = 0 /\ count' = 0 /\ ost' = <<>>
    /\ UNCHANGED <<file, stream, out>>

Done ==
    /\ pc = "decode"
    /\ eofbit
    /\ pc' = "done"
    /\ UNCHANGED <<file, stream, izc, mark, out>>

(***************************************************************************)
(* findZCZC()                                                              *)
(***************************************************************************)
Search ==
    /\ pc = "search"
    /\ ~eofbit
    /\ Get
    /\ izc' = IF ch' = ZCZC[izc + 1] THEN izc + 1 ELSE 0
    /\ pc' = IF izc' = Len(ZCZC) THEN "line" ELSE "search"
    /\ UNCHANGED <<file, mark, out>>

(* The character read before is never the one that is looked for, so that  *)
(* looking at it again finds nothing.                                      *)
SearchEnds ==
    /\ pc = "search"
    /\ ~eofbit
    /\ GetFails
    /\ izc' = IF eofbit' /\ ch = ZCZC[izc + 1] THEN izc + 1 ELSE 0
    /\ pc' = IF eofbit' THEN "search" ELSE "decode"
    /\ UNCHANGED <<file, mark, out>>

NotFound ==
    /\ pc = "search"
    /\ eofbit
    /\ pc' = "decode"
    /\ UNCHANGED <<file, stream, izc, mark, out>>

(* The rest of the line, and all blanks, digits and line ends that follow; *)
(* at the end of the stream the loop goes on with the character read       *)
(* before, and ends only if that one is not of the line.                   *)
ReadLine ==
    /\ pc = "line"
    /\ \/ Get /\ ch' \in ValidCh
       \/ GetFails /\ ch \in ValidCh
    /\ UNCHANGED <<file, pc, izc, mark, out>>

EndLine ==
    /\ pc = "line"
    /\ Peek
    /\ ch' \notin ValidCh
    /\ pc' = IF ch = "\n" THEN "mark" ELSE "decode"
    /\ UNCHANGED <<file, izc, mark, out>>

(***************************************************************************)
(* getMessage()                                                            *)
(***************************************************************************)

(* The end mark is not known to end. *)
OfMark_Slip == ch' = "N" \/ iNNN = 4

(* NNNN[iNNN] == ch: behind the last N comes the NUL of the string.        *)
OfMark == ch' = "N" /\ iNNN < 4

(* count is not reset. *)
Count_Slip ==
    IF ~OfMark /\ ch' \notin LineEnd
    THEN iNNN' = 0 /\ rnCount' = 0 /\ UNCHANGED count
    ELSE /\ count' = count + 1
         /\ iNNN' = IF OfMark THEN iNNN + 1 ELSE 0
         /\ rnCount' = IF OfMark THEN rnCount ELSE rnCount + 1

Count ==
    IF ~OfMark /\ ch' \notin LineEnd
    THEN iNNN' = 0 /\ rnCount' = 0 /\ count' = 0
    ELSE /\ count' = count + 1
         /\ iNNN' = IF OfMark THEN iNNN + 1 ELSE 0
         /\ rnCount' = IF OfMark THEN rnCount ELSE rnCount + 1

ReadBody ==
    /\ pc = "mark"
    /\ Get
    /\ ost' = Append(ost, ch')
    /\ Count
    /\ ~(iNNN' = 4 /\ rnCount' > 2)
    /\ UNCHANGED <<file, pc, izc, out>>

ReadMark ==
    /\ pc = "mark"
    /\ Get
    /\ ost' = Append(ost, ch')
    /\ OfMark
    /\ iNNN = 3
    /\ rnCount > 2
    /\ pc' = "tail"
    /\ iNNN' = 4 /\ rnCount' = 0 /\ count' = count + 1
    /\ UNCHANGED <<file, izc, out>>

(* The stream ends within the bulletin.  get() fails before the loop looks *)
(* at eof(), so that the loop is never left by its test.                   *)
BodyEnds ==
    /\ pc = "mark"
    /\ GetFails
    /\ pc' = "decode"
    /\ UNCHANGED <<file, izc, mark, out>>

TakeMessage ==
    /\ out' = Append(out, SubSeq(ost, 1, Len(ost) - count))
    /\ pc' = "decode"
    /\ UNCHANGED <<file, izc, mark>>

MarkIsWhole == ch = "\n" /\ rnCount > 0

(* The character behind the mark is put back.                              *)
EndMessage ==
    /\ pc = "tail"
    /\ MarkIsWhole
    /\ Ready
    /\ Peek
    /\ TakeMessage

(* The next bulletin is looked for first, the end of the stream then. *)
EndOfStream_Slip ==
    /\ pc = "tail"
    /\ ~Ready
    /\ rnCount > 0
    /\ Peek
    /\ TakeMessage

EndOfStream ==
    /\ pc = "tail"
    /\ GetFails
    /\ rnCount > 0
    /\ TakeMessage

ReadTail ==
    /\ pc = "tail"
    /\ ~MarkIsWhole
    /\ Get
    /\ ch' \in LineEnd
    /\ rnCount' = rnCount + 1
    /\ count' = count + 1
    /\ ost' = Append(ost, ch')
    /\ UNCHANGED <<file, pc, izc, iNNN, out>>

(* The mark is not followed by a line end: the bulletin is dropped.        *)
NoLineEnd ==
    /\ pc = "tail"
    /\ ~MarkIsWhole
    /\ \/ Get /\ ch' \notin LineEnd
       \/ GetFails /\ rnCount = 0
    /\ pc' = "decode"
    /\ UNCHANGED <<file, izc, mark, out>>

Stopped == pc = "done" /\ UNCHANGED vars

Step ==
    \/ NextMessage \/ Done
    \/ Search \/ SearchEnds \/ NotFound \/ ReadLine \/ EndLine
    \/ ReadBody \/ ReadMark \/ BodyEnds
    \/ EndMessage \/ EndOfStream \/ ReadTail \/ NoLineEnd

Next == Step \/ Stopped

(* split() is a function call of a process that is let run.                *)
Spec == Init /\ [][Next]_vars /\ WF_vars(Step)

(***************************************************************************)
(* Properties                                                              *)
(***************************************************************************)
TypeOK ==
    /\ pc \in {"decode", "search", "line", "mark", "tail", "done"}
    /\ pos \in 1..(Len(file.text) + 1)
    /\ eofbit \in BOOLEAN /\ failbit \in BOOLEAN
    /\ ch \in Char
    /\ izc \in 0..4
    /\ iNNN \in 0..4
    /\ rnCount \in 0..Len(ost)
    /\ count \in 0..Len(ost)
    /\ ost \in Seq(Char)
    /\ out \in Seq(Seq(Char))

(* getMessage(): "The routine collects all data between the start sequence *)
(* and end sequence, excluding the sequence itself": all the bulletins are *)
(* passed on, each as it was written, in their order, and nothing else is; *)
(* no report is sent from half a bulletin.                                 *)
AllExtracted == pc = "done" => out = file.bulletins

(* A piece of text, behind a line end and in front of an end mark: what     *)
(* follows it is line ends and Ns only, at least seven, NNNN among them.    *)
IsBulletin(b, text) ==
    \E i \in 2..Len(text) - Len(b) :
        LET j == i + Len(b) - 1
        IN /\ text[i - 1] = "\n"
           /\ b = SubSeq(text, i, j)
           /\ \E n \in j + 7..Len(text) :
                /\ \A k \in j + 1..n : text[k] \in LineEnd \union {"N"}
                /\ \A k \in n - 3..n : text[k] = "N"

(* Whatever the file is, and wherever it ends: what getMessage() passes on  *)
(* is a piece of it with an end mark behind, and of that piece nothing is   *)
(* erased but line ends and Ns.                                             *)
NothingInvented == \A k \in 1..Len(out) : IsBulletin(out[k], file.text)

(* Splitting comes to an end, whatever the part of a file is: "We have     *)
(* reached the end of the input stream without finding the end mark        *)
(* (NNNN). We pretend the end mark is found and return true anyway."       *)
SplitReturns == <>(pc = "done")

(***************************************************************************)
(* The invariant behind NothingInvented                                    *)
(***************************************************************************)
Fresh == iNNN = 0 /\ rnCount = 0 /\ count = 0 /\ ost = <<>>

(* ost is what has been read since a line end.                              *)
IsRead ==
    \E i \in 2..pos : file.text[i - 1] = "\n" /\ ost = SubSeq(file.text, i, pos - 1)

(* The last count characters can be erased, the last iNNN are Ns.           *)
Counted ==
    /\ iNNN + rnCount <= count
    /\ \A k \in Len(ost) - iNNN + 1..Len(ost) : ost[k] = "N"

Erasable ==
    \A k \in Len(ost) - count + 1..Len(ost) : ost[k] \in LineEnd \union {"N"}

(* Among the characters to be erased is NNNN, behind three others.          *)
Marked ==
    \E n \in Len(ost) - count + 7..Len(ost) : \A k \in n - 3..n : ost[k] = "N"

SInv ==
    /\ TypeOK
    /\ file \in Files
    /\ NothingInvented
    /\ pc = "search" /\ ~eofbit => izc <= 3
    /\ pc \in {"search", "line"} => Fresh
    /\ pc = "line" => pos > 1 /\ ch = file.text[pos - 1]
    /\ pc \in {"mark", "tail"} => IsRead /\ Erasable
    /\ pc = "mark" => Counted
    /\ pc = "tail" => Marked
(***************************************************************************)
(* Files of framed bulletins                                               *)
(***************************************************************************)
LineEndsIn(t, i, j) == {m \in i..j : t[m] \in LineEnd}

(* From i to p there are line ends and Ns only, more than two line ends,   *)
(* and NNNN at the end.                                                    *)
IsEndMark(t, i, p) ==
    /\ \A m \in i..p : t[m] \in LineEnd \union {"N"}
    /\ \A m \in p - 3..p : m >= i /\ t[m] = "N"
    /\ Cardinality(LineEndsIn(t, i, p)) > 2

(* Of the text t from s on, ZCZC begins at w.h, the bulletin at w.b, the   *)
(* line ends of the end mark at w.e and NNNN at w.n; w.z is the line end    *)
(* behind it, or as much of it as the file has.  What is in front is never *)
(* the beginning of a ZCZC, and the bulletin has no end mark in it.        *)
IsFrame(t, w, s) ==
    /\ s <= w.h /\ w.h + 4 < w.b /\ w.b < w.e
    /\ w.e + 3 <= w.n /\ w.n + 4 <= w.z /\ w.z <= Len(t)
    /\ \A i \in s..w.h - 1 :
         \E j \in 0..3 : i + j < w.h /\ t[i + j] # ZCZC[j + 1]
    /\ \A j \in 1..4 : t[w.h + j - 1] = ZCZC[j]
    /\ \A m \in w.h + 4..w.b - 1 : t[m] \in ValidCh
    /\ t[w.b - 1] = "\n" /\ t[w.b] \notin ValidCh
    /\ t[w.e - 1] \notin LineEnd \union {"N"}
    /\ \A i, p \in w.b..w.e - 1 : ~ IsEndMark(t, i, p)
    /\ \A m \in w.e..w.n - 1 : t[m] \in LineEnd
    /\ \A m \in w.n..w.n + 3 : t[m] = "N"
    /\ \A m \in w.n + 4..w.z - 1 : t[m] = "\r"
    /\ t[w.z] = "\n" \/ (w.z = Len(t) /\ t[w.z] = "\r")

(* Where the search for the frame k begins. *)
Begin(f, k) == IF k = 1 THEN 1 ELSE f.frames[k - 1].z + 1

(* The bulletins are those in the frames, one behind the other, and behind *)
(* the last one nothing ends as a bulletin does.                           *)
IsFramed(f) ==
    /\ f.frames \in Seq([h : Nat, b : Nat, e : Nat, n : Nat, z : Nat])
    /\ Len(f.bulletins) = Len(f.frames)
    /\ \A k \in 1..Len(f.frames) :
         LET w == f.frames[k]
         IN /\ IsFrame(f.text, w, Begin(f, k))
            /\ f.bulletins[k] = SubSeq(f.text, w.b, w.e - 1)
    /\ \A i, p \in Begin(f, Len(f.frames) + 1)..Len(f.text) - 1 :
         IsEndMark(f.text, i, p) => f.text[p + 1] \notin LineEnd

AllFramed == \A f \in Files : IsFramed(f)

(***************************************************************************)
(* The invariant behind AllExtracted                                       *)
(***************************************************************************)

(* What the counters stand for. *)
CountersFit(t) ==
    /\ \A m \in pos - count..pos - 1 : t[m] \in LineEnd \union {"N"}
    /\ \A m \in pos - iNNN..pos - 1 : t[m] = "N"
    /\ rnCount = Cardinality(LineEndsIn(t, pos - count, pos - 1))

(* findZCZC() is in front of the ZCZC of the frame, or within it. *)
SearchFits(t, w, s) ==
    /\ pos \in s..w.h + 3
    /\ pos <= w.h =>
         /\ izc <= pos - s
         /\ \A j \in 1..izc : t[pos - izc + j - 1] = ZCZC[j]
    /\ pos >= w.h => izc = pos - w.h

(* getMessage() is in the bulletin, or in its end mark, up to NNNN. *)
BodyFits(t, w) ==
    /\ pos \in w.b..w.n + 3
    /\ ost = SubSeq(t, w.b, pos - 1)
    /\ pos \in w.e..w.n =>
         iNNN = 0 /\ rnCount = pos - w.e /\ count = pos - w.e
    /\ pos > w.n =>
         iNNN = pos - w.n /\ rnCount = w.n - w.e /\ count = pos - w.e

(* It is behind NNNN. *)
TailFits(t, w) ==
    /\ pos \in w.n + 4..w.z + 1
    /\ ost = SubSeq(t, w.b, pos - 1)
    /\ rnCount = pos - w.n - 4 /\ count = pos - w.e
    /\ ch = t[pos - 1]

InFrame(t, w, s) ==
    /\ pc # "done" /\ ~ eofbit /\ ~ failbit
    /\ pc = "decode" => pos = s
    /\ pc = "search" => SearchFits(t, w, s)
    /\ pc = "line" => pos \in w.h + 4..w.b
    /\ pc = "mark" => BodyFits(t, w)
    /\ pc = "tail" => TailFits(t, w)

(* Behind the last frame an end mark may be found, but no line end.         *)
BehindFrames(t, s) ==
    /\ pos >= s
    /\ pc = "mark" => Len(ost) <= pos - s
    /\ pc = "tail" =>
         /\ \E i \in s..pos : IsEndMark(t, i, pos - 1 - rnCount)
         /\ \A m \in pos - rnCount..pos - 1 : t[m] \in LineEnd

Extracting(f) ==
    LET k == Len(out) + 1
    IN /\ Len(out) <= Len(f.frames)
       /\ \A j \in 1..Len(out) : out[j] = f.bulletins[j]
       /\ IF Len(out) < Len(f.frames)
          THEN InFrame(f.text, f.frames[k], Begin(f, k))
          ELSE BehindFrames(f.text, Begin(f, k))

EInv ==
    /\ SInv
    /\ pc = "mark" => CountersFit(file.text)
    /\ Extracting(file)
==============================================================================
