----------------------------- MODULE MCWmoScanner -----------------------------
(* Instances of WmoScanner for TLC: the parts of files that are split.      *)
EXTENDS WmoScanner

UpTo(n, S) == UNION {[1..k -> S] : k \in 0..n}

Numbered == ZCZC \o <<"1", "1", "\r", "\r", "\n">>
Unnumbered == ZCZC \o <<"\r", "\r", "\n">>
EndMark == [i \in 1..7 |-> "\n"] \o <<"N", "N", "N", "N", "\r", "\r", "\n">>

Bulletin(header, body) == header \o body \o EndMark

(* Bodies start with a letter, as a GTS header does, and end with what is   *)
(* neither a line end nor an N, as a report ends with "=".                  *)
Framed(S) == {<<"X">> \o s \o <<"X">> : s \in S}

(* Among them the end mark without a line end, with too few, with too many. *)
AlmostMarked ==
    {<<"N", "N", "N", "N">>,
     <<"\n", "\n", "N", "N", "N", "N", "N">>,
     <<"\n", "\n", "\n", "N", "N", "N", "X", "N">>}

Bodies == Framed(UpTo(3, Char) \union AlmostMarked)

Between == UpTo(1, Char \ {"Z"}) \union {<<"Z", "X">>, <<"C", "Z", "C", "\n">>}

Frame(s, header, body) ==
    LET b == s + Len(header)
        e == b + Len(body)
    IN [h |-> s, b |-> b, e |-> e, n |-> e + 7, z |-> e + Len(EndMark) - 1]

TwoBulletins(header, body, noise) ==
    LET first == Frame(1, header, body)
    IN [text |-> Bulletin(header, body) \o noise \o Bulletin(Numbered, <<"X">>),
        bulletins |-> <<body, <<"X">>>>,
        frames |-> <<first, Frame(first.z + 1 + Len(noise), Numbered, <<"X">>)>>]

WholeFiles ==
    {TwoBulletins(Numbered, body, noise) : body \in Bodies, noise \in Between}
        \union {TwoBulletins(Unnumbered, body, <<>>) : body \in Bodies}

(* The first n characters of a file.  A bulletin is in them if its end mark *)
(* is, up to the first "\r" at least.                                       *)
Cut(f, n) ==
    LET first == Len(Bulletin(Numbered, f.bulletins[1])) - 2
        last == Len(f.text) - 2
        whole == IF n < first THEN 0 ELSE IF n < last THEN 1 ELSE 2
    IN [text |-> SubSeq(f.text, 1, n),
        bulletins |-> SubSeq(f.bulletins, 1, whole),
        frames |-> [k \in 1..whole |-> [f.frames[k] EXCEPT !.z = Min({@, n})]]]

(* Files that end anywhere but in or right behind a ZCZC line.              *)
CutFiles ==
    UNION {{Cut(f, n) : n \in {k \in 1..Len(f.text) :
                                  ~\E i \in 0..(Len(Numbered) - Len(ZCZC)) :
                                      IsSuffix(SubSeq(Numbered, 1, Len(ZCZC) + i),
                                               SubSeq(f.text, 1, k))}} :
           f \in {TwoBulletins(Numbered, body, noise) :
                      body \in Framed(UpTo(1, Char)), noise \in Between}}

AllFiles == WholeFiles \union CutFiles

(* A header, and nothing behind it yet.                                     *)
HeaderOnly == {[text |-> Numbered, bulletins |-> <<>>, frames |-> <<>>]}

(* The theorem about AllExtracted is about files like all of these.         *)
ASSUME AllAreFramed == \A f \in AllFiles \union HeaderOnly : IsFramed(f)
==============================================================================
