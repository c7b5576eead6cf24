--------------------------- MODULE MCReportSplitter ---------------------------
(* Instances of ReportSplitter for TLC: bulletins with the reports that are *)
(* in them.                                                                 *)
EXTENDS ReportSplitter

(* A section is an identifier and the reports under it; a report may go on  *)
(* in a second line.                                                        *)
Report == {<<"01001">>, <<"01002", "NIL">>, <<"NIL">>,
           <<"01002", "06061", "\n", "-", "ENZV">>}

SynopSections(n, idents) ==
    [ident : idents, gap : {<<"\n">>}, reports : BoundedSeq(Report, n) \ {<<>>}]

MetarSections(n, idents) ==
    [ident : idents, gap : {<<>>, <<"\n">>},
     reports : BoundedSeq(Report, n) \ {<<>>}]

(* Behind "=": the line end, an empty line, or rubbish.                     *)
Ending == {<<"=", "\n">>, <<"=", "\n", "\n">>, <<"=", "01001", "\n">>}

SectionText(s, ending) ==
    s.ident \o (IF s.ident = <<>> THEN <<>> ELSE s.gap)
            \o FlattenSeq([i \in 1..Len(s.reports) |-> s.reports[i] \o ending])

(* The line ends behind a bulletin go with its end mark.                    *)
BulletinText(head, sections, ending) ==
    <<head, "\n">> \o Trim(FlattenSeq(
        [i \in 1..Len(sections) |-> SectionText(sections[i], ending)]))

(* Of a SYNOP section all reports but the NIL ones, unless it is mobile; of *)
(* a METAR section all; of one without identifier none.                     *)
SectionReports(k, s) ==
    LET wanted == SelectSeq(s.reports,
                            LAMBDA r : ~(k = "SYNOP" /\ Contains(r, "NIL")))
    IN IF s.ident = <<>> \/ s.ident[1] = "OOXX" THEN <<>>
       ELSE [i \in 1..Len(wanted) |->
               [kind |-> k, ident |-> s.ident, text |-> wanted[i] \o <<"=">>]]

BulletinReports(head, sections) ==
    FlattenSeq([i \in 1..Len(sections) |->
                  SectionReports(Kind[head], sections[i])])

Synop == SynopSections(2, {<<"AAXX", "06061">>, <<"OOXX">>, <<>>})
             \X SynopSections(1, {<<"AAXX">>, <<"OOXX", "ENZV">>})

Metar == MetarSections(2, {<<"METAR">>, <<>>})
             \X MetarSections(1, {<<"METAR">>, <<"SPECI">>})

SynopReport(text) == [kind |-> "SYNOP", ident |-> <<"AAXX">>, text |-> text]
MetarReport(text) == [kind |-> "METAR", ident |-> <<"METAR">>, text |-> text]

(* Behind it other bulletins: some that have no identifier of their own, or *)
(* some of all types, the last report of one without "=".                   *)
Behind ==
    {[bulletins |-> <<<<"SM", "\n", "01001", "=">>, <<"SA", "\n", "NIL", "=">>>>,
      reports |-> <<>>],
     [bulletins |-> <<<<"UE", "\n", "01001", "=">>, <<"FC">>, <<"UG">>,
                      <<"IS", "\n", "BUFR">>, <<"IS", "\n", "NIL">>, <<>>,
                      <<"SM", "NIL", "\n", "AAXX", "\n", "01001", "\n", "01002">>,
                      <<"SA", "\n", "METAR", "ENZV", "=">>>>,
      reports |-> <<[kind |-> "BUFR_SURFACE", ident |-> <<"BUFR">>,
                     text |-> <<"BUFR">>],
                    SynopReport(<<"01001", "\n", "01002">>),
                    MetarReport(<<"ENZV", "=">>)>>]}

Complete(head, Sections) ==
    {[bulletins |-> <<BulletinText(head, s, ending)>> \o b.bulletins,
      reports |-> BulletinReports(head, s) \o b.reports] :
        s \in Sections, ending \in Ending, b \in Behind}

(***************************************************************************)
(* How these are made up                                                   *)
(***************************************************************************)

(* The first place from i on whose group is in S, or the end of the text.   *)
FirstIn(t, i, S) ==
    LET n == SelectInSubSeq(t, i, Len(t), LAMBDA c : c \in S)
    IN IF n = 0 THEN Len(t) + 1 ELSE n

NotLineEnd == Token \ {"\n"}

(* The piece from s on, behind v.                                          *)
NextPiece(t, k, s, v) ==
    LET e == Min({FirstIn(t, s, {"="}), Len(t)})
        w == [s |-> s, e |-> e]
        n == IF k = "SYNOP" THEN SynopIdent(Piece(t, w)) ELSE MetarIdent(Piece(t, w))
        i == IF n = 0 THEN v.ident ELSE SubSeq(t, s, s + n - 1)
        b == FirstIn(t, s + n, NotLineEnd)
    IN [s |-> s, e |-> e, b |-> b, ident |-> i,
        l |-> FirstIn(t, s, {"\n"}), n |-> FirstIn(t, e, {"\n"}),
        r |-> v.r + IF IsReport(k, i, SubSeq(t, b, e)) THEN 1 ELSE 0]

(* A bound variable is evaluated once: only then this ends soon.            *)
RECURSIVE PiecesBehind(_, _, _)
PiecesBehind(t, k, v) ==
    LET s == FirstIn(t, v.n + 1, NotLineEnd)
    IN IF s > Len(t) THEN <<>>
       ELSE CHOOSE p \in {<<w>> \o PiecesBehind(t, k, w) :
                             w \in {NextPiece(t, k, s, v)}} : TRUE

Part(t, r) ==
    LET h == FirstIn(t, 1, {"\n"}) - 1
        s == FirstIn(t, h + 1, NotLineEnd)
        pieces == IF KindOf(t) \in {"SYNOP", "METAR"}
                  THEN PiecesBehind(t, KindOf(t), [n |-> s - 1, ident |-> <<>>, r |-> r])
                  ELSE <<>>
        last == IF pieces = <<>> THEN r ELSE pieces[Len(pieces)].r
    IN [h |-> h, s |-> s, pieces |-> pieces,
        r |-> IF KindOf(t) = "BUFR_SURFACE" /\ s <= Len(t) /\ t[s] = "BUFR"
              THEN r + 1 ELSE last]

RECURSIVE Parts(_, _)
Parts(bulletins, r) ==
    IF bulletins = <<>> THEN <<>>
    ELSE CHOOSE p \in {<<q>> \o Parts(Tail(bulletins), q.r) :
                          q \in {Part(Head(bulletins), r)}} : TRUE

MadeUp(f) == [bulletins |-> f.bulletins, reports |-> f.reports,
              parts |-> Parts(f.bulletins, 0)]

CompleteFiles ==
    {MadeUp(f) : f \in Complete("SM", Synop) \union Complete("SA", Metar)}

(* A METAR of one line with light rain, "-RA", in it.                       *)
WithSign ==
    {[bulletins |-> <<<<"SA", "\n", "METAR", "ENZV", "-", "01001", "=">>>>,
      reports |-> <<MetarReport(<<"ENZV", "-", "01001", "=">>)>>]}

(* The theorem about AllReports is about files like all of these.           *)
ASSUME AllAreWellFormed == \A f \in CompleteFiles : AreWellFormed(f)
==============================================================================
