---------------------------- MODULE ReportSplitter ----------------------------
(***************************************************************************)
(* What WMORaport makes of a bulletin that the scanner has found:          *)
(* dispatch() reads the header and chooses a function, readReport() cuts   *)
(* the text into reports, doSYNOP() and doMETAR() sort them by the         *)
(* identifier (AAXX ..., METAR) that was the last before them.             *)
(*                                                                         *)
(* A text is a sequence of groups, "=", line ends and signs; blanks are    *)
(* between groups and left out.  "-" stands for every character that is    *)
(* not alphanumeric, blank, "/", "=" or white space.                       *)
(*                                                                         *)
(* Definitions whose name ends in _Slip are not part of the specification, *)
(* see WmoScanner.                                                         *)
(***************************************************************************)
EXTENDS Integers, Sequences, FiniteSets, SequencesExt

CONSTANTS
    Files,           \* bulletins of a new part, and the reports in them
    RaportsToCollect \* raportsToCollect

(* The header lines, each as one group; "UE" and "UG" for all the types     *)
(* whose function only says that it is not implemented, "FC" for unknown    *)
(* ones.                                                                    *)
Kind == [SM |-> "SYNOP", SA |-> "METAR", UE |-> "TEMP", UG |-> "PILO",
         IS |-> "BUFR_SURFACE"]
Implemented == {"SYNOP", "METAR", "BUFR_SURFACE"}
Header == DOMAIN Kind \union {"FC"}

Number == {"06061", "01001", "01002"}
Word == Header \union Number
               \union {"AAXX", "OOXX", "METAR", "SPECI", "NIL", "BUFR", "ENZV"}
Token == Word \union {"=", "-", "\n"}

(* The last character of the stream once more.                              *)
Again == "+"

Text == Seq(Token \union {Again})

ASSUME FilesAssumption ==
    \A f \in Files :
        /\ f.bulletins \in Seq(Seq(Token))
        /\ \A i \in 1..Len(f.reports) :
             f.reports[i] \in [kind : Implemented, ident : Seq(Word), text : Seq(Token)]

VARIABLES
    file,      \* what is split
    pc,        \* which function runs
    bulletin,  \* bulletins taken so far
    kind,      \* the type of this one
    rest,      \* what is left of its text
    report,    \* what readReport has of a report
    ident,     \* identifier of the reports that follow
    skip,      \* they are mobile SYNOPs
    raports,   \* kind -> identifier -> reports: synop_, metar_, bufrSurface_
    errors     \* bulletins that errorStr names

vars == <<file, pc, bulletin, kind, rest, report, ident, skip, raports, errors>>

Init ==
    /\ file \in Files
    /\ pc = "decode"
    /\ bulletin = 0
    /\ kind = ""
    /\ rest = <<>> /\ report = <<>> /\ ident = <<>>
    /\ skip = FALSE
    /\ raports = [k \in Implemented |-> <<>>]
    /\ errors = 0

(***************************************************************************)
(* Lines and reports                                                       *)
(***************************************************************************)
From(text, i) == SubSeq(text, i, Len(text))

(* skip(): the text without the line ends in front of it.                  *)
SkipLineEnds(text) ==
    LET i == SelectInSeq(text, LAMBDA t : t # "\n")
    IN IF i = 0 THEN <<>> ELSE From(text, i)

(* Behind it they are left.                                                *)
Trim_Slip(text) == SkipLineEnds(text)

Trim(text) ==
    SkipLineEnds(SubSeq(text, 1, SelectLastInSeq(text, LAMBDA t : t # "\n")))

(* The first line that is not empty.  It ends at a sign, which is dropped, *)
(* as at a line end.  At the end of the stream get() fails, and the loop   *)
(* takes the last character again before it looks at eof().                *)
SkipEmptyLines(text) ==
    LET t == SkipLineEnds(text)
        end == SelectInSeq(t, LAMBDA c : c \in {"\n", "-"})
    IN IF end > 0
       THEN [line |-> SubSeq(t, 1, end - 1), rest |-> SkipLineEnds(From(t, end + 1))]
       ELSE [line |-> IF t = <<>> THEN <<>> ELSE Append(t, Again), rest |-> <<>>]

(* std::getline() *)
GetLine(text) ==
    LET end == SelectInSeq(text, LAMBDA c : c = "\n")
    IN IF end = 0 THEN [line |-> text, rest |-> <<>>]
       ELSE [line |-> SubSeq(text, 1, end - 1), rest |-> From(text, end + 1)]

(* What follows "=" is kept. *)
UpToEquals_Slip(line) == line

UpToEquals(line) ==
    SubSeq(line, 1, SelectInSeq(line, LAMBDA c : c = "="))

(* One round of the loop in readReport().                                  *)
AddLine(line) ==
    IF Contains(line, "=")
    THEN /\ report' = report \o UpToEquals(line)
         /\ pc' = "take"
    ELSE /\ report' = Append(report \o line, "\n")
         /\ pc' = "lines"

(***************************************************************************)
(* dispatch() and doDispatch()                                             *)
(***************************************************************************)

(* The type of a header: a group of letters, a place and a time in one     *)
(* group here, and at most one more.                                       *)
HeaderKind(line) ==
    IF /\ line # <<>>
       /\ line[1] \in DOMAIN Kind
       /\ Len(SelectSeq(line, LAMBDA t : t # Again)) <= 2
       /\ \A i \in 1..Len(line) : line[i] \in Word \union {Again}
    THEN Kind[line[1]] ELSE ""

IsCollected(k) ==
    k # "" /\ (RaportsToCollect = {} \/ k \in RaportsToCollect)

(* ident and skip are those of the bulletin before. *)
Dispatch_Slip ==
    LET header == SkipEmptyLines(file.bulletins[bulletin + 1])
    IN /\ rest' = header.rest
       /\ kind' = HeaderKind(header.line)
       /\ pc' = IF IsCollected(HeaderKind(header.line)) THEN "do" ELSE "decode"
       /\ UNCHANGED <<ident, skip>>

Dispatch ==
    LET header == SkipEmptyLines(file.bulletins[bulletin + 1])
    IN /\ rest' = header.rest
       /\ kind' = HeaderKind(header.line)
       /\ pc' = IF IsCollected(HeaderKind(header.line)) THEN "do" ELSE "decode"
       /\ ident' = <<>> /\ skip' = FALSE

TakeBulletin ==
    /\ pc = "decode"
    /\ bulletin < Len(file.bulletins)
    /\ bulletin' = bulletin + 1
    /\ Dispatch
    /\ UNCHANGED <<file, report, raports, errors>>

Done ==
    /\ pc = "decode"
    /\ bulletin = Len(file.bulletins)
    /\ pc' = "done"
    /\ UNCHANGED <<file, bulletin, kind, rest, report, ident, skip, raports,
                   errors>>

Stopped == pc = "done" /\ UNCHANGED vars

Function(S) == pc = "do" /\ kind \in S

(* doTEMP() and its like *)
NotImplemented ==
    /\ Function({"TEMP", "PILO"})
    /\ pc' = "decode"
    /\ errors' = errors + 1
    /\ UNCHANGED <<file, bulletin, kind, rest, report, ident, skip, raports>>

(* std::map::operator[] and push_back() *)
Push(map, i, r) ==
    [x \in DOMAIN map \union {i} |->
        IF x # i THEN map[x]
        ELSE IF i \in DOMAIN map THEN Append(map[i], r) ELSE <<r>>]

(* The only identifier is "bufr_surface". *)
DoBufrSurface ==
    /\ Function({"BUFR_SURFACE"})
    /\ pc' = "decode"
    /\ rest' = <<>>
    /\ IF rest # <<>> /\ rest[1] = "BUFR"
       THEN /\ raports' = [raports EXCEPT ![kind] =
                             Push(@, <<"BUFR">>, rest)]
            /\ UNCHANGED errors
       ELSE errors' = errors + 1 /\ UNCHANGED raports
    /\ UNCHANGED <<file, bulletin, kind, report, ident, skip>>

(***************************************************************************)
(* readReport(), called by doSYNOP() and doMETAR() until it finds nothing. *)
(***************************************************************************)
ReadReport == Function({"SYNOP", "METAR"})

FirstLine ==
    /\ ReadReport
    /\ SkipEmptyLines(rest).line # <<>>
    /\ AddLine(SkipEmptyLines(rest).line)
    /\ rest' = SkipEmptyLines(rest).rest
    /\ UNCHANGED <<file, bulletin, kind, ident, skip, raports, errors>>

NextLine ==
    /\ pc = "lines"
    /\ rest # <<>>
    /\ AddLine(GetLine(rest).line)
    /\ rest' = GetLine(rest).rest
    /\ UNCHANGED <<file, bulletin, kind, ident, skip, raports, errors>>

(* The stream ends without "=".                                            *)
LastLine ==
    /\ pc = "lines"
    /\ rest = <<>>
    /\ pc' = "take"
    /\ UNCHANGED <<file, bulletin, kind, rest, report, ident, skip, raports,
                   errors>>

RemoveEmptyKeys(map) == [i \in DOMAIN map \ {<<>>} |-> map[i]]

(* Nothing behind the last report, or a line that begins with a sign.      *)
NoReport ==
    /\ ReadReport
    /\ SkipEmptyLines(rest).line = <<>>
    /\ pc' = "decode"
    /\ rest' = SkipEmptyLines(rest).rest
    /\ raports' = [raports EXCEPT ![kind] = RemoveEmptyKeys(@)]
    /\ UNCHANGED <<file, bulletin, kind, report, ident, skip, errors>>

(***************************************************************************)
(* doSYNOP() and doMETAR(): one report.                                    *)
(***************************************************************************)

(* How many groups synopType takes for the identifier: AAXX, a number, and *)
(* one word of the same line.                                              *)
SynopIdent(r) ==
    LET IsWord(i) == i <= Len(r) /\ r[i] \in Word \union {Again}
        time == IF Len(r) >= 2 /\ r[2] \in Number THEN 2 ELSE 1
        word == IF IsWord(time + 1) THEN time + 1 ELSE time
    IN IF r[1] \notin {"AAXX", "OOXX"} THEN 0
       ELSE IF IsWord(word + 1) /\ r[word + 1] = Again THEN word + 1 ELSE word

(* synopIsNil *)
IsNil(r) ==
    \E n \in {<<>>} \union {<<d>> : d \in Number}, e \in {<<>>, <<"=">>} :
        r = n \o <<"NIL">> \o e

MetarIdent(r) == IF r[1] \in {"METAR", "SPECI"} THEN 1 ELSE 0

(* The first n groups are an identifier, the others a report.              *)
TakeReport(n) ==
    /\ pc = "take"
    /\ pc' = "do"
    /\ report' = <<>>
    /\ ident' = IF n > 0 THEN SubSeq(report, 1, n) ELSE ident
    /\ UNCHANGED <<file, bulletin, kind, rest, errors>>

DoSynop ==
    LET n == SynopIdent(report)
        line == Trim(From(report, n + 1))
    IN /\ kind = "SYNOP"
       /\ TakeReport(n)
       /\ skip' = IF n > 0 THEN report[1] = "OOXX" ELSE skip
       /\ raports' =
            IF line = <<>> \/ skip' \/ ident' = <<>> \/ IsNil(line) THEN raports
            ELSE [raports EXCEPT ![kind] = Push(@, ident', line)]

DoMetar ==
    LET n == MetarIdent(report)
        line == Trim(From(report, n + 1))
    IN /\ kind = "METAR"
       /\ TakeReport(n)
       /\ raports' = IF line = <<>> THEN raports
                     ELSE [raports EXCEPT ![kind] = Push(@, ident', line)]
       /\ UNCHANGED skip

Next ==
    \/ TakeBulletin \/ Done
    \/ NotImplemented \/ DoBufrSurface
    \/ FirstLine \/ NextLine \/ LastLine \/ NoReport
    \/ DoSynop \/ DoMetar
    \/ Stopped

Spec == Init /\ [][Next]_vars

(***************************************************************************)
(* Properties                                                              *)
(***************************************************************************)
TypeOK ==
    /\ pc \in {"decode", "do", "lines", "take", "done"}
    /\ bulletin \in 0..Len(file.bulletins)
    /\ kind \in {""} \union {Kind[h] : h \in DOMAIN Kind}
    /\ rest \in Seq(Token)
    /\ report \in Text
    /\ \A i \in 1..Len(report) :
         report[i] = "=" => pc = "take" /\ i = Len(report)
    /\ ident \in Text
    /\ skip \in BOOLEAN
    /\ \A k \in DOMAIN raports : \A i \in DOMAIN raports[k] :
         raports[k][i] \in Seq(Text)
    /\ errors \in 0..bulletin

(* Which of the first n reports are of the kind k, under the identifier i.  *)
Under(reports, k, i, n) ==
    {j \in 1..n : reports[j].kind = k /\ reports[j].ident = i}

(* Of the kind k the first n reports are kept under their identifiers, in   *)
(* order, and nothing else is, but for what has no identifier.             *)
Keeps(map, reports, k, n) ==
    /\ DOMAIN map \ {<<>>} =
         {reports[j].ident : j \in {m \in 1..n : reports[m].kind = k}}
    /\ \A i \in DOMAIN map \ {<<>>} :
         Len(map[i]) = Cardinality(Under(reports, k, i, n))
    /\ \A j \in 1..n :
         LET r == reports[j]
         IN r.kind = k =>
              map[r.ident][Cardinality(Under(reports, k, r.ident, j))] = r.text

PassedOn(n) == \A k \in Implemented : Keeps(raports[k], file.reports, k, n)

(* readReport(): "Read from the inputstream until an "=" sign is read":    *)
(* each report of a bulletin is passed on once, as it was written, in      *)
(* order, under the identifier it was written under, and nothing else is.  *)
AllReports ==
    pc = "done" =>
        /\ PassedOn(Len(file.reports))
        /\ \A k \in Implemented : <<>> \notin DOMAIN raports[k]

(* A text with an "=" at its end only, and no line end at either end.       *)
IsOneReport(r) ==
    /\ r # <<>>
    /\ r[1] # "\n" /\ r[Len(r)] # "\n"
    /\ \A i \in 1..Len(r) : r[i] = "=" => i = Len(r)

(* Whatever a bulletin is, what doSYNOP() and doMETAR() pass on is the text *)
(* of one report, or of none: where there is an "=" they do not go on to    *)
(* the next report, and line ends are trimmed on both sides.                *)
NoneGlued ==
    \A k \in {"SYNOP", "METAR"} :
        \A i \in DOMAIN raports[k] : \A j \in 1..Len(raports[k][i]) :
            IsOneReport(raports[k][i][j])

(***************************************************************************)
(* The invariant behind NoneGlued                                          *)
(***************************************************************************)
RInv ==
    /\ TypeOK
    /\ file.bulletins \in Seq(Seq(Token))
    /\ DOMAIN raports = Implemented
    /\ NoneGlued
    /\ pc \in {"lines", "take"} => report # <<>>
    /\ pc \in {"do", "lines", "take"} => errors < bulletin

(***************************************************************************)
(* Well-formed bulletins                                                   *)
(*                                                                         *)
(* file.parts says how each bulletin is made up: of a header of h groups    *)
(* and, from s on, of pieces, one for each call of readReport(); r reports  *)
(* of the file are in it and the bulletins before it.                      *)
(***************************************************************************)
IsBlank(t, i, j) == \A m \in i..j : t[m] = "\n"

(* Behind line ends from i on the text goes on at s, or ends.              *)
GoesOn(t, i, s) ==
    /\ i <= s /\ s <= Len(t) + 1
    /\ IsBlank(t, i, s - 1)
    /\ s <= Len(t) => t[s] # "\n"

(* The line of i ends at l, with a line end or the text.                   *)
LineEndsAt(t, i, l) ==
    /\ i <= l /\ l <= Len(t) + 1
    /\ \A m \in i..l - 1 : t[m] # "\n"
    /\ l <= Len(t) => t[l] = "\n"

IsHeader(t, q) ==
    /\ q.h >= 1 /\ q.h < Len(t)
    /\ \A m \in 1..q.h : t[m] \notin {"\n", "-"}
    /\ t[q.h + 1] = "\n"
    /\ GoesOn(t, q.h + 1, q.s)

(* Behind line ends from a on stands a piece, from s to e, with no sign in  *)
(* its first line, which ends at l.  It ends with its only "=", and what is *)
(* behind it in its line, up to n, does not count; or it ends with the      *)
(* text, in a further line.                                                *)
IsPiece(t, w, a) ==
    /\ GoesOn(t, a, w.s)
    /\ w.s <= w.e /\ w.e <= Len(t)
    /\ \A m \in w.s..w.e - 1 : t[m] # "="
    /\ t[w.e] = "=" \/ (w.e = Len(t) /\ w.l < w.e /\ t[w.e] # "\n")
    /\ LineEndsAt(t, w.s, w.l)
    /\ \A m \in w.s..w.l - 1 : t[m] # "-"
    /\ w.l < w.e => t[w.l + 1] # "\n"
    /\ LineEndsAt(t, w.e, w.n)

(* The last line gets a line end where it has no "=". *)
Piece(t, w) ==
    IF t[w.e] = "=" THEN SubSeq(t, w.s, w.e)
    ELSE Append(SubSeq(t, w.s, w.e), "\n")

(* It begins with an identifier, or the one before it goes on; behind it,   *)
(* at b, the report begins.                                                *)
IsHeaded(t, k, w, before) ==
    LET n == IF k = "SYNOP" THEN SynopIdent(Piece(t, w)) ELSE MetarIdent(Piece(t, w))
    IN /\ w.ident = IF n = 0 THEN before ELSE SubSeq(t, w.s, w.s + n - 1)
       /\ w.b <= w.e /\ GoesOn(t, w.s + n, w.b)

(* A METAR is a report if it has an identifier, a SYNOP if it is not NIL    *)
(* nor mobile either.                                                      *)
IsMobile(k, ident_) == k = "SYNOP" /\ ident_ # <<>> /\ ident_[1] = "OOXX"

IsReport(k, ident_, text) ==
    /\ ident_ # <<>>
    /\ ~ IsMobile(k, ident_)
    /\ ~ (k = "SYNOP" /\ IsNil(text))

(* The report, if it is one, comes behind the first n of the file. *)
IsCounted(f, n, r, isReport, k, ident_, text) ==
    IF isReport
    THEN /\ r = n + 1 /\ r <= Len(f.reports)
         /\ f.reports[r] = [kind |-> k, ident |-> ident_, text |-> text]
    ELSE r = n

KindOf(t) == HeaderKind(SkipEmptyLines(t).line)

ReportsBefore(f, b) == IF b = 1 THEN 0 ELSE f.parts[b - 1].r

(* Where the first n pieces of the bulletin b end, under which identifier,  *)
(* and behind how many reports.                                            *)
After(f, b, n) ==
    IF n = 0 THEN [n |-> f.parts[b].s - 1, ident |-> <<>>, r |-> ReportsBefore(f, b)]
    ELSE f.parts[b].pieces[n]

ArePieces(f, b, k) ==
    LET t == f.bulletins[b]
        q == f.parts[b]
        last == After(f, b, Len(q.pieces))
    IN /\ \A n \in 1..Len(q.pieces) :
            LET w == q.pieces[n]
                v == After(f, b, n - 1)
                text == SubSeq(t, w.b, w.e)
            IN /\ IsPiece(t, w, v.n + 1)
               /\ IsHeaded(t, k, w, v.ident)
               /\ IsCounted(f, v.r, w.r, IsReport(k, w.ident, text), k, w.ident, text)
       /\ IsBlank(t, last.n + 1, Len(t))
       /\ q.r = last.r

(* Of a bulletin that is not collected, or of a kind not implemented, no    *)
(* report comes, whatever is in it.                                        *)
IsWellFormed(f, b) ==
    LET t == f.bulletins[b]
        q == f.parts[b]
        k == KindOf(t)
    IN IF ~ IsCollected(k) \/ k \notin Implemented
       THEN q.r = ReportsBefore(f, b)
       ELSE /\ IsHeader(t, q)
            /\ IF k # "BUFR_SURFACE" THEN ArePieces(f, b, k)
               ELSE IsCounted(f, ReportsBefore(f, b), q.r,
                              q.s <= Len(t) /\ t[q.s] = "BUFR",
                              k, <<"BUFR">>, From(t, q.s))

AreWellFormed(f) ==
    /\ f.parts \in Seq([h : Nat, s : Nat, r : Nat,
                        pieces : Seq([s : Nat, l : Nat, e : Nat, n : Nat,
                                      b : Nat, r : Nat, ident : Seq(Token)])])
    /\ Len(f.parts) = Len(f.bulletins)
    /\ \A b \in 1..Len(f.bulletins) : IsWellFormed(f, b)
    /\ Len(f.reports) = ReportsBefore(f, Len(f.bulletins) + 1)

AllWellFormed == \A f \in Files : AreWellFormed(f)

(***************************************************************************)
(* The invariant behind AllReports                                         *)
(***************************************************************************)
RestIs(t, a) ==
    \E p \in (a..Len(t) + 1) \union {a} :
        rest = From(t, p) /\ IsBlank(t, a, p - 1)

(* readReport() has the lines of the piece up to c, or all of them. *)
LinesFit(t, w) ==
    /\ w.l < w.e
    /\ \/ \E c \in w.l + 1..w.e :
            report = SubSeq(t, w.s, c - 1) /\ rest = From(t, c)
       \/ t[w.e] # "=" /\ report = Piece(t, w) /\ rest = <<>>

(* The first n pieces of the bulletin are done, and the next one begun.     *)
BehindPieces(f, n) ==
    LET t == f.bulletins[bulletin]
        q == f.parts[bulletin]
        v == After(f, bulletin, n)
    IN /\ PassedOn(v.r)
       /\ ident = v.ident
       /\ skip = IsMobile(kind, v.ident)
       /\ pc = "do" => RestIs(t, v.n + 1)
       /\ pc # "do" => n < Len(q.pieces)
       /\ pc = "lines" => LinesFit(t, q.pieces[n + 1])
       /\ pc = "take" => /\ report = Piece(t, q.pieces[n + 1])
                         /\ RestIs(t, q.pieces[n + 1].n + 1)

InBulletin(f) ==
    LET t == f.bulletins[bulletin]
        q == f.parts[bulletin]
    IN /\ kind = KindOf(t) /\ IsCollected(kind)
       /\ \A k \in Implemented \ {kind} : <<>> \notin DOMAIN raports[k]
       /\ IF kind \in {"SYNOP", "METAR"}
          THEN \E n \in 0..Len(q.pieces) : BehindPieces(f, n)
          ELSE /\ pc = "do"
               /\ PassedOn(ReportsBefore(f, bulletin))
               /\ \A k \in Implemented : <<>> \notin DOMAIN raports[k]
               /\ kind = "BUFR_SURFACE" => rest = From(t, q.s)

BetweenBulletins(f) ==
    /\ PassedOn(ReportsBefore(f, bulletin + 1))
    /\ \A k \in Implemented : <<>> \notin DOMAIN raports[k]
    /\ pc = "done" => bulletin = Len(f.bulletins)

PInv ==
    /\ RInv
    /\ pc \in {"decode", "do", "done"} => report = <<>>
    /\ IF pc \in {"decode", "done"} THEN BetweenBulletins(file)
       ELSE InBulletin(file)
==============================================================================
