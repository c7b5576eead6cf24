------------------------- MODULE ReportSplitterProofs -------------------------
(* Theorems about ReportSplitter, for every set of files and of kinds.      *)
EXTENDS ReportSplitter, WellFoundedInduction, SequenceTheorems,
        FiniteSetTheorems, TLAPS

(***************************************************************************)
(* Where a group is found first and last                                   *)
(***************************************************************************)
LEMMA FirstOf ==
  ASSUME NEW I \in SUBSET Nat, I # {}
  PROVE  Min(I) \in I /\ \A i \in I : Min(I) <= i
<1>1. PICK m \in I : \A i \in I : <<i, m>> \notin OpToRel(<, Nat)
  BY WFMin, NatLessThanWellFounded, Zenon
<1>2. \A i \in I : <<i, m>> \in Nat \X Nat
  OBVIOUS
<1>3. \A i \in I : ~ (i < m)
  BY <1>1, <1>2, Zenon DEF OpToRel
<1>4. \A i \in I : m <= i
  BY <1>3
<1> QED BY <1>4 DEF Min

LEMMA LastOf ==
  ASSUME NEW n \in Nat, NEW I \in SUBSET (1..n), I # {}
  PROVE  Max(I) \in I /\ \A i \in I : i <= Max(I)
<1> DEFINE J == {n - i : i \in I}
<1>1. J \in SUBSET Nat /\ J # {}
  <2>1. \A i \in I : n - i \in Nat
    OBVIOUS
  <2>2. J \in SUBSET Nat
    BY <2>1
  <2>3. PICK i \in I : TRUE
    OBVIOUS
  <2>4. n - i \in J
    BY <2>3
  <2> QED BY <2>2, <2>4
<1>2. Min(J) \in J /\ \A j \in J : Min(J) <= j
  BY <1>1, FirstOf
<1>3. PICK m \in I : Min(J) = n - m
  BY <1>2
<1>4. ASSUME NEW i \in I PROVE m >= i
  <2>1. n - m <= n - i
    BY <1>2, <1>3
  <2> QED BY <2>1
<1> QED BY <1>4 DEF Max

(* The text behind a place.                                                 *)
LEMMA Behind ==
  ASSUME NEW A, NEW text \in Seq(A), NEW i \in 1..Len(text) + 1
  PROVE  /\ From(text, i) \in Seq(A)
         /\ Len(From(text, i)) = Len(text) - i + 1
         /\ \A j \in 1..Len(text) - i + 1 : From(text, i)[j] = text[j + i - 1]
BY DEF From

(* IsPart(s, t, k): s is what stands in t behind its first k groups.        *)
IsPart(s, t, k) ==
    /\ Len(s) + k <= Len(t)
    /\ \A j \in 1..Len(s) : s[j] = t[j + k]

LEMMA WithoutLineEnds ==
  ASSUME NEW A, NEW text \in Seq(A)
  PROVE  /\ SkipLineEnds(text) \in Seq(A)
         /\ SkipLineEnds(text) # <<>> => SkipLineEnds(text)[1] # "\n"
         /\ \E k \in 0..Len(text) :
              /\ IsPart(SkipLineEnds(text), text, k)
              /\ SkipLineEnds(text) # <<>> =>
                   k + Len(SkipLineEnds(text)) = Len(text)
<1> DEFINE I == {i \in 1..Len(text) : text[i] # "\n"}
           i == IF I # {} THEN Min(I) ELSE 0
<1>1. SkipLineEnds(text) = IF i = 0 THEN <<>> ELSE From(text, i)
  BY DEF SkipLineEnds, SelectInSeq
<1>2. CASE I = {}
  <2>1. SkipLineEnds(text) = <<>>
    BY <1>1, <1>2
  <2>2. IsPart(<<>>, text, 0)
    BY DEF IsPart
  <2> QED BY <2>1, <2>2
<1>3. CASE I # {}
  <2>1. i \in 1..Len(text) /\ text[i] # "\n"
    <3>1. I \in SUBSET Nat
      OBVIOUS
    <3> QED BY <1>3, <3>1, FirstOf
  <2> HIDE DEF i, I
  <2>2. SkipLineEnds(text) = From(text, i)
    BY <1>1, <2>1
  <2>3. /\ From(text, i) \in Seq(A)
        /\ Len(From(text, i)) = Len(text) - i + 1
        /\ \A j \in 1..Len(text) - i + 1 : From(text, i)[j] = text[j + i - 1]
    BY <2>1, Behind
  <2>4. From(text, i)[1] = text[i]
    BY <2>1, <2>3
  <2>5. i - 1 \in 0..Len(text) /\ IsPart(From(text, i), text, i - 1)
        /\ i - 1 + Len(From(text, i)) = Len(text)
    BY <2>1, <2>3 DEF IsPart
  <2> QED BY <2>1, <2>2, <2>3, <2>4, <2>5
<1> QED BY <1>2, <1>3

LEMMA Trimmed ==
  ASSUME NEW A, NEW text \in Seq(A)
  PROVE  /\ Trim(text) \in Seq(A)
         /\ Trim(text) # <<>> => /\ Trim(text)[1] # "\n"
                                 /\ Trim(text)[Len(Trim(text))] # "\n"
         /\ \E k \in Nat : IsPart(Trim(text), text, k)
<1> DEFINE I == {i \in 1..Len(text) : text[i] # "\n"}
           n == IF I # {} THEN Max(I) ELSE 0
           t == SubSeq(text, 1, n)
           s == SkipLineEnds(t)
<1>1. Trim(text) = s
  BY DEF Trim, SelectLastInSeq
<1>2. n \in 0..Len(text) /\ (n # 0 => text[n] # "\n")
  <2>1. CASE I = {}
    BY <2>1
  <2>2. CASE I # {}
    <3>1. I \in SUBSET (1..Len(text)) /\ Len(text) \in Nat
      OBVIOUS
    <3>2. Max(I) \in I
      BY <2>2, <3>1, LastOf
    <3> QED BY <2>2, <3>2
  <2> QED BY <2>1, <2>2
<1> HIDE DEF n
<1>3. t \in Seq(A) /\ Len(t) = n /\ \A j \in 1..n : t[j] = text[j]
  BY <1>2
<1> HIDE DEF t
<1>4. /\ s \in Seq(A)
      /\ s # <<>> => s[1] # "\n"
      /\ \E k \in 0..n : IsPart(s, t, k) /\ (s # <<>> => k + Len(s) = n)
  BY <1>3, WithoutLineEnds
<1> HIDE DEF s
<1>5. PICK k \in 0..n : IsPart(s, t, k) /\ (s # <<>> => k + Len(s) = n)
  BY <1>4
<1>6. IsPart(s, text, k)
  BY <1>2, <1>3, <1>4, <1>5 DEF IsPart
<1>7. ASSUME s # <<>> PROVE s[Len(s)] # "\n"
  <2>1. Len(s) \in 1..n /\ k + Len(s) = n
    BY <1>2, <1>4, <1>5, <1>7
  <2>2. s[Len(s)] = t[n]
    BY <1>2, <1>4, <1>5, <2>1 DEF IsPart
  <2> QED BY <1>2, <1>3, <2>1, <2>2
<1> QED BY <1>1, <1>2, <1>4, <1>6, <1>7

(* Of a text that has "=" at its end only, Trim leaves nothing or a report. *)
LEMMA TrimmedReport ==
  ASSUME NEW A, NEW text \in Seq(A), Trim(text) # <<>>,
         \A i \in 1..Len(text) : text[i] = "=" => i = Len(text)
  PROVE  IsOneReport(Trim(text))
<1> DEFINE s == Trim(text)
<1>1. s \in Seq(A) /\ s[1] # "\n" /\ s[Len(s)] # "\n"
  BY Trimmed
<1>2. PICK k \in Nat : IsPart(s, text, k)
  BY Trimmed
<1> HIDE DEF s
<1>3. ASSUME NEW i \in 1..Len(s), s[i] = "=" PROVE i = Len(s)
  <2>1. i + k \in 1..Len(text) /\ text[i + k] = "="
    BY <1>1, <1>2, <1>3 DEF IsPart
  <2>2. i + k = Len(text)
    BY <2>1
  <2> QED BY <1>1, <1>2, <2>2 DEF IsPart
<1> QED BY <1>1, <1>3 DEF IsOneReport, s


(* One text behind another.                                                 *)
LEMMA Glued ==
  ASSUME NEW s \in Text, NEW t \in Text
  PROVE  /\ Len(s) \in Nat /\ Len(t) \in Nat
         /\ s \o t \in Text /\ Len(s \o t) = Len(s) + Len(t)
         /\ \A i \in 1..Len(s) + Len(t) :
              (s \o t)[i] = IF i <= Len(s) THEN s[i] ELSE t[i - Len(s)]
BY DEF Text

LEMMA LineEnded ==
  ASSUME NEW s \in Text
  PROVE  /\ Append(s, "\n") \in Text /\ Len(Append(s, "\n")) = Len(s) + 1
         /\ \A i \in 1..Len(s) + 1 :
              Append(s, "\n")[i] = IF i <= Len(s) THEN s[i] ELSE "\n"
<1>1. "\n" \in Token \union {Again}
  BY DEF Token
<1> QED BY <1>1 DEF Text

(***************************************************************************)
(* Lines                                                                   *)
(***************************************************************************)
LEMMA FirstLineOf ==
  ASSUME NEW text \in Seq(Token)
  PROVE  /\ SkipEmptyLines(text).line \in Text
         /\ SkipEmptyLines(text).rest \in Seq(Token)
<1> DEFINE t == SkipLineEnds(text)
           I == {i \in 1..Len(t) : t[i] \in {"\n", "-"}}
           end == IF I # {} THEN Min(I) ELSE 0
<1>1. SkipEmptyLines(text) =
        IF end > 0
        THEN [line |-> SubSeq(t, 1, end - 1), rest |-> SkipLineEnds(From(t, end + 1))]
        ELSE [line |-> IF t = <<>> THEN <<>> ELSE Append(t, Again), rest |-> <<>>]
  BY DEF SkipEmptyLines, SelectInSeq
<1>2. t \in Seq(Token)
  BY WithoutLineEnds
<1>3. end \in 0..Len(t)
  <2>1. CASE I = {}
    BY <1>2, <2>1
  <2>2. CASE I # {}
    <3>1. I \in SUBSET Nat
      BY <1>2
    <3>2. Min(I) \in I
      BY <2>2, <3>1, FirstOf
    <3> QED BY <2>2, <3>2
  <2> QED BY <2>1, <2>2
<1> HIDE DEF t, end
<1>4. /\ <<>> \in Text /\ <<>> \in Seq(Token)
      /\ Append(t, Again) \in Text
  <2>1. t \in Text
    BY <1>2 DEF Text
  <2>2. Again \in Token \union {Again}
    OBVIOUS
  <2> QED BY <2>1, <2>2 DEF Text
<1>5. CASE end > 0
  <2>1. SubSeq(t, 1, end - 1) \in Seq(Token)
    BY <1>2, <1>3, <1>5
  <2>2. SubSeq(t, 1, end - 1) \in Text
    BY <2>1 DEF Text
  <2>3. From(t, end + 1) \in Seq(Token)
    BY <1>2, <1>3, <1>5, Behind
  <2>4. SkipLineEnds(From(t, end + 1)) \in Seq(Token)
    BY <2>3, WithoutLineEnds
  <2>5. SkipEmptyLines(text) =
          [line |-> SubSeq(t, 1, end - 1), rest |-> SkipLineEnds(From(t, end + 1))]
    BY <1>1, <1>5, Zenon
  <2> QED BY <2>2, <2>4, <2>5
<1>6. CASE ~ (end > 0)
  <2>1. SkipEmptyLines(text) =
          [line |-> IF t = <<>> THEN <<>> ELSE Append(t, Again), rest |-> <<>>]
    BY <1>1, <1>6, Zenon
  <2> QED BY <1>4, <2>1
<1> QED BY <1>5, <1>6

LEMMA NextLineOf ==
  ASSUME NEW text \in Seq(Token)
  PROVE  /\ GetLine(text).line \in Text
         /\ GetLine(text).rest \in Seq(Token)
<1> DEFINE I == {i \in 1..Len(text) : text[i] = "\n"}
           end == IF I # {} THEN Min(I) ELSE 0
<1>1. GetLine(text) =
        IF end = 0 THEN [line |-> text, rest |-> <<>>]
        ELSE [line |-> SubSeq(text, 1, end - 1), rest |-> From(text, end + 1)]
  BY DEF GetLine, SelectInSeq
<1>2. end \in 0..Len(text)
  <2>1. CASE I = {}
    BY <2>1
  <2>2. CASE I # {}
    <3>1. I \in SUBSET Nat
      OBVIOUS
    <3>2. Min(I) \in I
      BY <2>2, <3>1, FirstOf
    <3> QED BY <2>2, <3>2
  <2> QED BY <2>1, <2>2
<1> HIDE DEF end
<1>3. CASE end = 0
  BY <1>1, <1>3 DEF Text
<1>4. CASE end # 0
  <2>1. /\ SubSeq(text, 1, end - 1) \in Seq(Token)
        /\ From(text, end + 1) \in Seq(Token)
    BY <1>2, <1>4, Behind
  <2> QED BY <1>1, <1>4, <2>1 DEF Text
<1> QED BY <1>3, <1>4

(* A report that goes on has no "=" yet; one that is read to its end has   *)
(* the first "=" of its line at its end.                                    *)
LEMMA LineAdded ==
  ASSUME report \in Text, \A i \in 1..Len(report) : report[i] # "=",
         NEW line \in Text, line # <<>> \/ pc = "lines",
         pc = "lines" => report # <<>>, AddLine(line)
  PROVE  /\ pc' \in {"lines", "take"}
         /\ report' \in Text /\ report' # <<>>
         /\ \A i \in 1..Len(report') :
              report'[i] = "=" => pc' = "take" /\ i = Len(report')
<1> DEFINE I == {i \in 1..Len(line) : line[i] = "="}
           end == IF I # {} THEN Min(I) ELSE 0
<1>1. CASE Contains(line, "=")
  <2>1. I # {} /\ I \in SUBSET Nat
    BY <1>1 DEF Contains, Text
  <2>2. end \in I /\ \A i \in I : end <= i
    BY <2>1, FirstOf
  <2>3. UpToEquals(line) = SubSeq(line, 1, end)
    BY DEF UpToEquals, SelectInSeq
  <2>4. /\ end \in 1..Len(line)
        /\ \A i \in 1..Len(line) : line[i] = "=" => end <= i
    BY <2>2
  <2> HIDE DEF I, end
  <2> DEFINE u == SubSeq(line, 1, end)
  <2>5. u \in Text /\ Len(u) = end /\ \A i \in 1..end : u[i] = line[i]
    BY <2>4 DEF Text
  <2> HIDE DEF u
  <2>6. report' = report \o u /\ pc' = "take"
    BY <1>1, <2>3 DEF AddLine, u
  <2>7. /\ report' \in Text /\ Len(report') = Len(report) + end
        /\ \A i \in 1..Len(report') :
             report'[i] = IF i <= Len(report) THEN report[i] ELSE u[i - Len(report)]
    <3>1. /\ report \o u \in Text /\ Len(report \o u) = Len(report) + Len(u)
          /\ \A i \in 1..Len(report) + Len(u) :
               (report \o u)[i] = IF i <= Len(report) THEN report[i]
                                                      ELSE u[i - Len(report)]
      BY <2>5, Glued, Zenon
    <3> QED BY <2>5, <2>6, <3>1, Zenon
  <2>8. ASSUME NEW i \in 1..Len(report'), report'[i] = "="
        PROVE  i = Len(report')
    <3>1. Len(report) \in Nat /\ end \in Nat /\ Len(line) \in Nat
      BY <2>4 DEF Text
    <3>2. ~ (i <= Len(report))
      BY <2>7, <2>8, <3>1
    <3>3. i - Len(report) \in 1..end
      BY <2>7, <3>1, <3>2
    <3>4. line[i - Len(report)] = "="
      BY <2>5, <2>7, <2>8, <3>2, <3>3
    <3>5. end <= i - Len(report)
      BY <2>4, <3>1, <3>3, <3>4
    <3> QED BY <2>7, <3>1, <3>3, <3>5
  <2>9. report' # <<>>
    BY <2>4, <2>7 DEF Text
  <2> QED BY <2>6, <2>7, <2>8, <2>9
<1>2. CASE ~ Contains(line, "=")
  <2>1. \A i \in 1..Len(line) : line[i] # "="
    BY <1>2 DEF Contains
  <2>2. report' = Append(report \o line, "\n") /\ pc' = "lines"
    BY <1>2 DEF AddLine
  <2> DEFINE r == report \o line
  <2>4. /\ r \in Text /\ Len(r) = Len(report) + Len(line)
        /\ \A i \in 1..Len(r) :
             r[i] = IF i <= Len(report) THEN report[i] ELSE line[i - Len(report)]
    BY Glued
  <2>5. \A i \in 1..Len(r) : r[i] # "="
    <3>1. Len(report) \in Nat /\ Len(line) \in Nat
      BY DEF Text
    <3> QED BY <2>1, <2>4, <3>1
  <2> HIDE DEF r
  <2>6. /\ report' \in Text /\ Len(report') = Len(r) + 1
        /\ \A i \in 1..Len(r) + 1 :
             report'[i] = IF i <= Len(r) THEN r[i] ELSE "\n"
    <3>1. report' = Append(r, "\n")
      BY <2>2 DEF r
    <3>2. /\ Append(r, "\n") \in Text /\ Len(Append(r, "\n")) = Len(r) + 1
          /\ \A i \in 1..Len(r) + 1 :
               Append(r, "\n")[i] = IF i <= Len(r) THEN r[i] ELSE "\n"
      BY <2>4, LineEnded, Zenon
    <3> QED BY <3>1, <3>2, Zenon
  <2>7. \A i \in 1..Len(report') : report'[i] # "="
    <3>1. Len(r) \in Nat
      BY <2>4 DEF Text
    <3> QED BY <2>5, <2>6, <3>1
  <2>8. report' # <<>>
    BY <2>4, <2>6 DEF Text
  <2> QED BY <2>2, <2>6, <2>7, <2>8
<1> QED BY <1>1, <1>2

(***************************************************************************)
(* Identifiers and kinds                                                   *)
(***************************************************************************)
LEMMA SynopIdentFits ==
  ASSUME NEW r \in Text, r # <<>>
  PROVE  SynopIdent(r) \in 0..Len(r)
<1>1. Len(r) \in Nat /\ Len(r) >= 1
  BY DEF Text
<1> QED BY <1>1, Z3 DEF SynopIdent

LEMMA MetarIdentFits ==
  ASSUME NEW r \in Text, r # <<>>
  PROVE  MetarIdent(r) \in 0..Len(r)
BY DEF MetarIdent, Text

(* Kinds that a header can have.                                            *)
KindOrNone == {""} \union {Kind[h] : h \in DOMAIN Kind}

LEMMA HeaderKindType ==
  ASSUME NEW line
  PROVE  HeaderKind(line) \in KindOrNone
BY Zenon DEF HeaderKind, KindOrNone


(***************************************************************************)
(* Reports that are passed on                                              *)
(***************************************************************************)
LEMMA PushedReport ==
  ASSUME NEW map, \A x \in DOMAIN map : map[x] \in Seq(Text),
         NEW i, NEW r \in Text
  PROVE  \A x \in DOMAIN Push(map, i, r) :
           /\ Push(map, i, r)[x] \in Seq(Text)
           /\ \A j \in 1..Len(Push(map, i, r)[x]) :
                \/ /\ x \in DOMAIN map /\ j \in 1..Len(map[x])
                   /\ Push(map, i, r)[x][j] = map[x][j]
                \/ Push(map, i, r)[x][j] = r
<1> DEFINE p == Push(map, i, r)
<1>1. /\ DOMAIN p = DOMAIN map \union {i}
      /\ \A x \in DOMAIN map : x # i => p[x] = map[x]
      /\ i \in DOMAIN map => p[i] = Append(map[i], r)
      /\ i \notin DOMAIN map => p[i] = <<r>>
  BY DEF Push
<1> HIDE DEF p
<1>2. ASSUME NEW x \in DOMAIN p
      PROVE  /\ p[x] \in Seq(Text)
             /\ \A j \in 1..Len(p[x]) :
                  \/ x \in DOMAIN map /\ j \in 1..Len(map[x]) /\ p[x][j] = map[x][j]
                  \/ p[x][j] = r
  <2>1. CASE x # i
    BY <1>1, <1>2, <2>1
  <2>2. CASE x = i /\ i \in DOMAIN map
    <3>1. p[x] = Append(map[x], r) /\ map[x] \in Seq(Text)
      BY <1>1, <2>2
    <3> DEFINE m == map[x]
    <3>2. m \in Seq(Text) /\ p[x] = Append(m, r)
      BY <3>1
    <3> HIDE DEF m
    <3>3. /\ p[x] \in Seq(Text)
          /\ \A j \in 1..Len(p[x]) :
               (j \in 1..Len(m) /\ p[x][j] = m[j]) \/ p[x][j] = r
      BY <3>2
    <3> QED BY <2>2, <3>3 DEF m
  <2>3. CASE x = i /\ i \notin DOMAIN map
    <3>1. p[x] = <<r>>
      BY <1>1, <2>3
    <3>2. /\ <<r>> \in Seq(Text) /\ Len(<<r>>) = 1
          /\ \A j \in 1..1 : <<r>>[j] = r
      OBVIOUS
    <3> QED BY <3>1, <3>2
  <2> QED BY <2>1, <2>2, <2>3
<1> QED BY <1>2 DEF p

(* What RInv says of raports.                                               *)
Kept ==
    /\ DOMAIN raports = Implemented
    /\ \A k \in DOMAIN raports : \A i \in DOMAIN raports[k] :
         raports[k][i] \in Seq(Text)
    /\ NoneGlued

LEMMA KindChanged ==
  ASSUME Kept, NEW k \in Implemented, NEW m,
         \A i \in DOMAIN m : m[i] \in Seq(Text),
         k # "BUFR_SURFACE" => \A i \in DOMAIN m : \A j \in 1..Len(m[i]) :
                                 IsOneReport(m[i][j]),
         raports' = [raports EXCEPT ![k] = m]
  PROVE  Kept'
<1>1. /\ DOMAIN raports' = Implemented
      /\ \A l \in Implemented : raports'[l] = IF l = k THEN m ELSE raports[l]
  BY DEF Kept
<1>2. ASSUME NEW l \in DOMAIN raports', NEW i \in DOMAIN raports'[l]
      PROVE  raports'[l][i] \in Seq(Text)
  BY <1>1, <1>2 DEF Kept
<1>3. ASSUME NEW l \in {"SYNOP", "METAR"}, NEW i \in DOMAIN raports'[l],
             NEW j \in 1..Len(raports'[l][i])
      PROVE  IsOneReport(raports'[l][i][j])
  <2>1. l \in Implemented /\ l # "BUFR_SURFACE"
    BY DEF Implemented
  <2> QED BY <1>1, <1>3, <2>1 DEF Kept, NoneGlued
<1> QED BY <1>1, <1>2, <1>3 DEF Kept, NoneGlued

LEMMA ReportPushed ==
  ASSUME Kept, NEW k \in Implemented, NEW i, NEW r \in Text,
         k # "BUFR_SURFACE" => IsOneReport(r),
         raports' = [raports EXCEPT ![k] = Push(@, i, r)]
  PROVE  Kept'
<1> DEFINE map == raports[k]
           m == Push(map, i, r)
<1>1. /\ \A x \in DOMAIN map : map[x] \in Seq(Text)
      /\ k # "BUFR_SURFACE" => \A x \in DOMAIN map : \A j \in 1..Len(map[x]) :
                                 IsOneReport(map[x][j])
  BY DEF Kept, NoneGlued, Implemented
<1>2. raports' = [raports EXCEPT ![k] = m]
  OBVIOUS
<1> HIDE DEF map
<1>3. \A x \in DOMAIN m :
        /\ m[x] \in Seq(Text)
        /\ \A j \in 1..Len(m[x]) :
             \/ x \in DOMAIN map /\ j \in 1..Len(map[x]) /\ m[x][j] = map[x][j]
             \/ m[x][j] = r
  <2>1. \A x \in DOMAIN map : map[x] \in Seq(Text)
    BY <1>1
  <2> QED BY <2>1, PushedReport
<1> HIDE DEF m
<1>4. k # "BUFR_SURFACE" => \A x \in DOMAIN m : \A j \in 1..Len(m[x]) :
                              IsOneReport(m[x][j])
  BY <1>1, <1>3
<1>5. \A x \in DOMAIN m : m[x] \in Seq(Text)
  BY <1>3
<1> QED BY <1>2, <1>4, <1>5, KindChanged, Zenon

(***************************************************************************)
(* The invariant                                                           *)
(***************************************************************************)
LEMMA KeptOfInv ==
  ASSUME RInv
  PROVE  Kept
BY DEF RInv, TypeOK, Kept

LEMMA InvOfKept ==
  ASSUME Kept,
         pc \in {"decode", "do", "lines", "take", "done"},
         bulletin \in 0..Len(file.bulletins),
         kind \in KindOrNone, rest \in Seq(Token), report \in Text,
         \A i \in 1..Len(report) : report[i] = "=" => pc = "take" /\ i = Len(report),
         ident \in Text, skip \in BOOLEAN, errors \in 0..bulletin,
         file.bulletins \in Seq(Seq(Token)),
         pc \in {"lines", "take"} => report # <<>>,
         pc \in {"do", "lines", "take"} => errors < bulletin
  PROVE  RInv
BY DEF RInv, TypeOK, Kept, KindOrNone

(* What a step that only reads leaves.                                      *)
LEMMA KeptUnchanged ==
  ASSUME Kept, raports' = raports
  PROVE  Kept'
BY DEF Kept, NoneGlued

LEMMA InvInit ==
  ASSUME Init
  PROVE  RInv
<1>1. file.bulletins \in Seq(Seq(Token)) /\ Len(file.bulletins) \in Nat
  <2>1. file \in Files
    BY DEF Init
  <2>2. file.bulletins \in Seq(Seq(Token))
    BY <2>1, FilesAssumption, Zenon
  <2> QED BY <2>2
<1>2. \A k \in Implemented : raports[k] = <<>> /\ DOMAIN raports[k] = {}
  <2>1. raports = [k \in Implemented |-> <<>>]
    BY DEF Init
  <2>2. DOMAIN <<>> = {}
    OBVIOUS
  <2> QED BY <2>1, <2>2, Zenon
<1>3. Kept
  BY <1>2 DEF Init, Kept, NoneGlued, Implemented
<1>4. <<>> \in Text /\ <<>> \in Seq(Token)
  BY DEF Text
<1>5. /\ pc = "decode" /\ bulletin = 0 /\ kind = "" /\ rest = <<>> /\ report = <<>>
      /\ ident = <<>> /\ skip = FALSE /\ errors = 0
  BY DEF Init
<1>6. /\ bulletin \in 0..Len(file.bulletins) /\ errors \in 0..bulletin
      /\ \A i \in 1..Len(report) : FALSE
  <2>1. bulletin \in 0..Len(file.bulletins) /\ errors \in 0..bulletin
    <3>1. bulletin = 0 /\ errors = 0 /\ Len(file.bulletins) \in Nat
      BY <1>1, <1>5, Zenon
    <3> QED BY <3>1
  <2>2. Len(report) = 0
    BY <1>5
  <2> QED BY <2>1, <2>2
<1> QED BY <1>1, <1>3, <1>4, <1>5, <1>6, InvOfKept DEF KindOrNone


(***************************************************************************)
(* Steps                                                                   *)
(***************************************************************************)

(* The facts of RInv as the steps use them.                                 *)
LEMMA InvFacts ==
  ASSUME RInv
  PROVE  /\ Kept
         /\ pc \in {"decode", "do", "lines", "take", "done"}
         /\ Len(file.bulletins) \in Nat
         /\ bulletin \in 0..Len(file.bulletins)
         /\ kind \in KindOrNone
         /\ rest \in Seq(Token)
         /\ report \in Text
         /\ \A i \in 1..Len(report) :
              report[i] = "=" => pc = "take" /\ i = Len(report)
         /\ ident \in Text
         /\ skip \in BOOLEAN
         /\ errors \in 0..bulletin
         /\ file.bulletins \in Seq(Seq(Token))
         /\ pc \in {"lines", "take"} => report # <<>>
         /\ pc \in {"do", "lines", "take"} => errors < bulletin
<1>1. file.bulletins \in Seq(Seq(Token))
  BY DEF RInv
<1>2. Len(file.bulletins) \in Nat
  BY <1>1
<1> QED BY <1>1, <1>2, KeptOfInv DEF RInv, TypeOK, KindOrNone

LEMMA InvAgain ==
  ASSUME Kept',
         pc' \in {"decode", "do", "lines", "take", "done"},
         bulletin' \in 0..Len(file'.bulletins),
         kind' \in KindOrNone, rest' \in Seq(Token), report' \in Text,
         \A i \in 1..Len(report') :
           report'[i] = "=" => pc' = "take" /\ i = Len(report'),
         ident' \in Text, skip' \in BOOLEAN, errors' \in 0..bulletin',
         file'.bulletins \in Seq(Seq(Token)),
         pc' \in {"lines", "take"} => report' # <<>>,
         pc' \in {"do", "lines", "take"} => errors' < bulletin'
  PROVE  RInv'
BY DEF RInv, TypeOK, Kept, KindOrNone

LEMMA TakeBulletinStep ==
  ASSUME RInv, TakeBulletin
  PROVE  RInv'
<1>1. /\ pc = "decode" /\ bulletin < Len(file.bulletins) /\ bulletin' = bulletin + 1
      /\ file' = file /\ report' = report /\ raports' = raports /\ errors' = errors
  BY DEF TakeBulletin
<1> DEFINE b == file.bulletins[bulletin + 1]
<1>2. b \in Seq(Token)
  <2>1. bulletin + 1 \in 1..Len(file.bulletins)
    BY <1>1, InvFacts
  <2> QED BY <2>1, InvFacts
<1>3. /\ rest' = SkipEmptyLines(b).rest
      /\ kind' = HeaderKind(SkipEmptyLines(b).line)
      /\ pc' \in {"do", "decode"}
      /\ ident' = <<>> /\ skip' = FALSE
  BY DEF TakeBulletin, Dispatch
<1> HIDE DEF b
<1>4. rest' \in Seq(Token) /\ kind' \in KindOrNone
  BY <1>2, <1>3, FirstLineOf, HeaderKindType
<1>5. Kept'
  BY <1>1, InvFacts, KeptUnchanged
<1>6. ident' \in Text
  BY <1>3 DEF Text
<1>7. /\ bulletin' \in 0..Len(file'.bulletins) /\ errors' \in 0..bulletin'
      /\ errors' < bulletin'
  BY <1>1, InvFacts
<1>8. \A i \in 1..Len(report') :
        report'[i] = "=" => pc' = "take" /\ i = Len(report')
  BY <1>1, InvFacts
<1> QED BY <1>1, <1>3, <1>4, <1>5, <1>6, <1>7, <1>8, InvFacts, InvAgain

LEMMA DoneStep ==
  ASSUME RInv, Done
  PROVE  RInv'
<1>1. /\ pc = "decode" /\ pc' = "done"
      /\ UNCHANGED <<file, bulletin, kind, rest, report, ident, skip, raports,
                     errors>>
  BY DEF Done
<1>2. Kept'
  BY <1>1, InvFacts, KeptUnchanged
<1> QED BY <1>1, <1>2, InvFacts, InvAgain

LEMMA NotImplementedStep ==
  ASSUME RInv, NotImplemented
  PROVE  RInv'
<1>1. /\ pc = "do" /\ pc' = "decode" /\ errors' = errors + 1
      /\ UNCHANGED <<file, bulletin, kind, rest, report, ident, skip, raports>>
  BY DEF NotImplemented, Function
<1>2. Kept'
  BY <1>1, InvFacts, KeptUnchanged
<1>3. errors' \in 0..bulletin'
  BY <1>1, InvFacts
<1> QED BY <1>1, <1>2, <1>3, InvFacts, InvAgain

LEMMA DoBufrSurfaceStep ==
  ASSUME RInv, DoBufrSurface
  PROVE  RInv'
<1>1. /\ pc = "do" /\ pc' = "decode" /\ rest' = <<>> /\ kind = "BUFR_SURFACE"
      /\ UNCHANGED <<file, bulletin, kind, report, ident, skip>>
  BY DEF DoBufrSurface, Function
<1>2. \/ /\ raports' = [raports EXCEPT ![kind] = Push(@, <<"BUFR">>, rest)]
         /\ errors' = errors
      \/ errors' = errors + 1 /\ raports' = raports
  BY DEF DoBufrSurface
<1>3. rest \in Text
  <2>1. rest \in Seq(Token)
    BY InvFacts
  <2> QED BY <2>1 DEF Text
<1>4. Kept'
  <2>1. CASE raports' = raports
    BY <2>1, InvFacts, KeptUnchanged
  <2>2. CASE raports' = [raports EXCEPT ![kind] = Push(@, <<"BUFR">>, rest)]
    <3>1. kind \in Implemented
      BY <1>1 DEF Implemented
    <3>2. Kept
      BY InvFacts
    <3> QED BY <1>1, <1>3, <2>2, <3>1, <3>2, ReportPushed, Zenon
  <2> QED BY <1>2, <2>1, <2>2
<1>5. errors' \in 0..bulletin'
  BY <1>1, <1>2, InvFacts
<1>6. rest' \in Seq(Token)
  BY <1>1
<1> QED BY <1>1, <1>4, <1>5, <1>6, InvFacts, InvAgain

LEMMA FirstLineStep ==
  ASSUME RInv, FirstLine
  PROVE  RInv'
<1>1. /\ pc = "do" /\ SkipEmptyLines(rest).line # <<>>
      /\ AddLine(SkipEmptyLines(rest).line)
      /\ rest' = SkipEmptyLines(rest).rest
      /\ UNCHANGED <<file, bulletin, kind, ident, skip, raports, errors>>
  BY DEF FirstLine, ReadReport, Function
<1>2. SkipEmptyLines(rest).line \in Text /\ rest' \in Seq(Token)
  BY <1>1, InvFacts, FirstLineOf
<1>3. \A i \in 1..Len(report) : report[i] # "="
  BY <1>1, InvFacts
<1>4. /\ pc' \in {"lines", "take"} /\ report' \in Text /\ report' # <<>>
      /\ \A i \in 1..Len(report') :
           report'[i] = "=" => pc' = "take" /\ i = Len(report')
  BY <1>1, <1>2, <1>3, InvFacts, LineAdded
<1>5. Kept'
  BY <1>1, InvFacts, KeptUnchanged
<1> QED BY <1>1, <1>2, <1>4, <1>5, InvFacts, InvAgain

LEMMA NextLineStep ==
  ASSUME RInv, NextLine
  PROVE  RInv'
<1>1. /\ pc = "lines" /\ AddLine(GetLine(rest).line)
      /\ rest' = GetLine(rest).rest
      /\ UNCHANGED <<file, bulletin, kind, ident, skip, raports, errors>>
  BY DEF NextLine
<1>2. GetLine(rest).line \in Text /\ rest' \in Seq(Token)
  BY <1>1, InvFacts, NextLineOf
<1>3. \A i \in 1..Len(report) : report[i] # "="
  BY <1>1, InvFacts
<1>4. /\ pc' \in {"lines", "take"} /\ report' \in Text /\ report' # <<>>
      /\ \A i \in 1..Len(report') :
           report'[i] = "=" => pc' = "take" /\ i = Len(report')
  BY <1>1, <1>2, <1>3, InvFacts, LineAdded
<1>5. Kept'
  BY <1>1, InvFacts, KeptUnchanged
<1> QED BY <1>1, <1>2, <1>4, <1>5, InvFacts, InvAgain

LEMMA LastLineStep ==
  ASSUME RInv, LastLine
  PROVE  RInv'
<1>1. /\ pc = "lines" /\ pc' = "take"
      /\ UNCHANGED <<file, bulletin, kind, rest, report, ident, skip, raports,
                     errors>>
  BY DEF LastLine
<1>2. Kept'
  BY <1>1, InvFacts, KeptUnchanged
<1>3. \A i \in 1..Len(report') : report'[i] # "="
  BY <1>1, InvFacts
<1> QED BY <1>1, <1>2, <1>3, InvFacts, InvAgain


LEMMA NoReportStep ==
  ASSUME RInv, NoReport
  PROVE  RInv'
<1>1. /\ pc = "do" /\ kind \in {"SYNOP", "METAR"} /\ pc' = "decode"
      /\ rest' = SkipEmptyLines(rest).rest
      /\ UNCHANGED <<file, bulletin, kind, report, ident, skip, errors>>
  BY DEF NoReport, ReadReport, Function
<1> DEFINE map == raports[kind]
           m == RemoveEmptyKeys(map)
<1>2. raports' = [raports EXCEPT ![kind] = m]
  BY DEF NoReport
<1>3. \A i \in DOMAIN m : i \in DOMAIN map /\ m[i] = map[i]
  BY DEF RemoveEmptyKeys
<1>4. kind \in Implemented /\ kind # "BUFR_SURFACE" /\ Kept
  BY <1>1, InvFacts DEF Implemented
<1>5. \A i \in DOMAIN map :
        map[i] \in Seq(Text) /\ \A j \in 1..Len(map[i]) : IsOneReport(map[i][j])
  BY <1>1, <1>4 DEF Kept, NoneGlued
<1> HIDE DEF map, m
<1>6. Kept'
  <2>1. \A i \in DOMAIN m : m[i] \in Seq(Text)
    BY <1>3, <1>5
  <2>2. \A i \in DOMAIN m : \A j \in 1..Len(m[i]) : IsOneReport(m[i][j])
    BY <1>3, <1>5
  <2> QED BY <1>2, <1>4, <2>1, <2>2, KindChanged, Zenon
<1>7. rest' \in Seq(Token)
  BY <1>1, InvFacts, FirstLineOf
<1> QED BY <1>1, <1>6, <1>7, InvFacts, InvAgain

(* What is behind the identifier is a report or nothing.                    *)
LEMMA BehindIdent ==
  ASSUME RInv, pc = "take", NEW n \in 0..Len(report),
         NEW line, line = Trim(From(report, n + 1))
  PROVE  line \in Text /\ (line # <<>> => IsOneReport(line))
<1> DEFINE A == Token \union {Again}
           text == From(report, n + 1)
<1>1. report \in Seq(A)
  BY InvFacts DEF Text
<1>2. /\ Len(report) \in Nat /\ n + 1 \in 1..Len(report) + 1
      /\ \A i \in 1..Len(report) : report[i] = "=" => i = Len(report)
  BY <1>1, InvFacts
<1> HIDE DEF A
<1>3. /\ text \in Seq(A) /\ Len(text) = Len(report) - n
      /\ \A j \in 1..Len(report) - n : text[j] = report[j + n]
  <2>1. /\ text \in Seq(A) /\ Len(text) = Len(report) - (n + 1) + 1
        /\ \A j \in 1..Len(report) - (n + 1) + 1 : text[j] = report[j + (n + 1) - 1]
    BY <1>1, <1>2, Behind
  <2> QED BY <1>2, <2>1
<1>4. ASSUME NEW i \in 1..Len(text), text[i] = "=" PROVE i = Len(text)
  <2>1. i + n \in 1..Len(report) /\ report[i + n] = "="
    BY <1>2, <1>3, <1>4
  <2> QED BY <1>2, <1>3, <2>1
<1> HIDE DEF text
<1>5. line = Trim(text)
  BY DEF text
<1>6. line \in Seq(A)
  BY <1>3, <1>5, Trimmed
<1>7. line # <<>> => IsOneReport(line)
  BY <1>3, <1>4, <1>5, TrimmedReport
<1> QED BY <1>6, <1>7 DEF A, Text

LEMMA TakeReportStep ==
  ASSUME RInv, NEW n \in 0..Len(report), TakeReport(n), Kept', skip' \in BOOLEAN
  PROVE  RInv'
<1>1. /\ pc = "take" /\ pc' = "do" /\ report' = <<>>
      /\ ident' = IF n > 0 THEN SubSeq(report, 1, n) ELSE ident
      /\ UNCHANGED <<file, bulletin, kind, rest, errors>>
  BY DEF TakeReport
<1>2. report' \in Text /\ Len(report') = 0
  BY <1>1 DEF Text
<1>3. SubSeq(report, 1, n) \in Text
  BY InvFacts DEF Text
<1>4. ident' \in Text
  BY <1>1, <1>3, InvFacts
<1>5. \A i \in 1..Len(report') : FALSE
  BY <1>2
<1> QED BY <1>1, <1>2, <1>4, <1>5, InvFacts, InvAgain

LEMMA DoSynopStep ==
  ASSUME RInv, DoSynop
  PROVE  RInv'
<1> DEFINE n == SynopIdent(report)
           line == Trim(From(report, n + 1))
<1>1. /\ kind = "SYNOP" /\ TakeReport(n) /\ pc = "take"
      /\ skip' = IF n > 0 THEN report[1] = "OOXX" ELSE skip
      /\ \/ raports' = raports
         \/ /\ line # <<>>
            /\ raports' = [raports EXCEPT ![kind] = Push(@, ident', line)]
  BY DEF DoSynop, TakeReport
<1>2. n \in 0..Len(report)
  BY <1>1, InvFacts, SynopIdentFits
<1> HIDE DEF n
<1>3. line \in Text /\ (line # <<>> => IsOneReport(line))
  BY <1>1, <1>2, BehindIdent
<1> HIDE DEF line
<1>4. Kept'
  <2>1. CASE raports' = raports
    BY <2>1, InvFacts, KeptUnchanged
  <2>2. CASE line # <<>> /\ raports' = [raports EXCEPT ![kind] = Push(@, ident', line)]
    <3>1. kind \in Implemented /\ Kept
      BY <1>1, InvFacts DEF Implemented
    <3>2. IsOneReport(line) /\ line \in Text
      BY <1>3, <2>2
    <3> QED BY <2>2, <3>1, <3>2, ReportPushed, Zenon
  <2> QED BY <1>1, <2>1, <2>2
<1>5. skip' \in BOOLEAN
  BY <1>1, InvFacts
<1> QED BY <1>1, <1>2, <1>4, <1>5, TakeReportStep

LEMMA DoMetarStep ==
  ASSUME RInv, DoMetar
  PROVE  RInv'
<1> DEFINE n == MetarIdent(report)
           line == Trim(From(report, n + 1))
<1>1. /\ kind = "METAR" /\ TakeReport(n) /\ pc = "take" /\ skip' = skip
      /\ \/ raports' = raports
         \/ /\ line # <<>>
            /\ raports' = [raports EXCEPT ![kind] = Push(@, ident', line)]
  BY DEF DoMetar, TakeReport
<1>2. n \in 0..Len(report)
  BY <1>1, InvFacts, MetarIdentFits
<1> HIDE DEF n
<1>3. line \in Text /\ (line # <<>> => IsOneReport(line))
  BY <1>1, <1>2, BehindIdent
<1> HIDE DEF line
<1>4. Kept'
  <2>1. CASE raports' = raports
    BY <2>1, InvFacts, KeptUnchanged
  <2>2. CASE line # <<>> /\ raports' = [raports EXCEPT ![kind] = Push(@, ident', line)]
    <3>1. kind \in Implemented /\ Kept
      BY <1>1, InvFacts DEF Implemented
    <3>2. IsOneReport(line) /\ line \in Text
      BY <1>3, <2>2
    <3> QED BY <2>2, <3>1, <3>2, ReportPushed, Zenon
  <2> QED BY <1>1, <2>1, <2>2
<1>5. skip' \in BOOLEAN
  BY <1>1, InvFacts
<1> QED BY <1>1, <1>2, <1>4, <1>5, TakeReportStep

LEMMA StutterStep ==
  ASSUME RInv, UNCHANGED vars
  PROVE  RInv'
<1>1. /\ Kept' /\ UNCHANGED <<pc, skip>>
      /\ UNCHANGED <<file, bulletin, kind, rest, report, ident, raports, errors>>
  BY InvFacts, KeptUnchanged DEF vars
<1> QED BY <1>1, InvFacts, InvAgain

LEMMA InvStep ==
  ASSUME RInv, [Next]_vars
  PROVE  RInv'
<1>1. CASE TakeBulletin
  BY <1>1, TakeBulletinStep
<1>2. CASE Done
  BY <1>2, DoneStep
<1>3. CASE NotImplemented
  BY <1>3, NotImplementedStep
<1>4. CASE DoBufrSurface
  BY <1>4, DoBufrSurfaceStep
<1>5. CASE FirstLine
  BY <1>5, FirstLineStep
<1>6. CASE NextLine
  BY <1>6, NextLineStep
<1>7. CASE LastLine
  BY <1>7, LastLineStep
<1>8. CASE NoReport
  BY <1>8, NoReportStep
<1>9. CASE DoSynop
  BY <1>9, DoSynopStep
<1>10. CASE DoMetar
  BY <1>10, DoMetarStep
<1>11. CASE Stopped
  BY <1>11, StutterStep DEF Stopped
<1>12. CASE UNCHANGED vars
  BY <1>12, StutterStep
<1> QED BY <1>1, <1>2, <1>3, <1>4, <1>5, <1>6, <1>7, <1>8, <1>9, <1>10, <1>11,
           <1>12 DEF Next

(***************************************************************************)
(* The places of a text, and what is found there                           *)
(***************************************************************************)
LEMMA FirstIs ==
  ASSUME NEW I \in SUBSET Nat, NEW m \in I, \A i \in I : m <= i
  PROVE  I # {} /\ Min(I) = m
<1>1. Min(I) \in I /\ \A i \in I : Min(I) <= i
  BY FirstOf
<1>2. Min(I) <= m /\ m <= Min(I) /\ m \in Nat /\ Min(I) \in Nat
  BY <1>1
<1> QED BY <1>2

LEMMA LastIs ==
  ASSUME NEW n \in Nat, NEW I \in SUBSET (1..n), NEW m \in I, \A i \in I : i <= m
  PROVE  I # {} /\ Max(I) = m
<1>1. Max(I) \in I /\ \A i \in I : i <= Max(I)
  BY LastOf
<1>2. Max(I) <= m /\ m <= Max(I)
  BY <1>1
<1>3. Max(I) \in 1..n /\ m \in 1..n
  BY <1>1
<1> QED BY <1>2, <1>3

LEMMA PartOf ==
  ASSUME NEW A, NEW t \in Seq(A), NEW i \in Nat \ {0}, NEW j \in 0..Len(t), i <= j + 1
  PROVE  /\ SubSeq(t, i, j) \in Seq(A)
         /\ Len(SubSeq(t, i, j)) = j - i + 1
         /\ \A m \in 1..j - i + 1 : SubSeq(t, i, j)[m] = t[m + i - 1]
OBVIOUS

LEMMA FromFrom ==
  ASSUME NEW A, NEW t \in Seq(A), NEW p \in 1..Len(t) + 1,
         NEW m \in 1..Len(t) - p + 2
  PROVE  From(From(t, p), m) = From(t, m + p - 1)
<1> DEFINE u == From(t, p)
           v == From(u, m)
           w == From(t, m + p - 1)
<1>1. /\ u \in Seq(A) /\ Len(u) = Len(t) - p + 1
      /\ \A j \in 1..Len(t) - p + 1 : u[j] = t[j + p - 1]
  BY Behind
<1>2. /\ Len(t) \in Nat /\ m + p - 1 \in 1..Len(t) + 1 /\ m \in 1..Len(u) + 1
  BY <1>1
<1>3. /\ w \in Seq(A) /\ Len(w) = Len(t) - (m + p - 1) + 1
      /\ \A j \in 1..Len(t) - (m + p - 1) + 1 : w[j] = t[j + (m + p - 1) - 1]
  BY <1>2, Behind
<1>4. /\ v \in Seq(A) /\ Len(v) = Len(u) - m + 1
      /\ \A j \in 1..Len(u) - m + 1 : v[j] = u[j + m - 1]
  BY <1>1, <1>2, Behind
<1> HIDE DEF u, v, w
<1>5. Len(v) = Len(w)
  BY <1>1, <1>2, <1>3, <1>4
<1>6. ASSUME NEW j \in 1..Len(v) PROVE v[j] = w[j]
  <2>1. /\ j \in 1..Len(u) - m + 1 /\ j + m - 1 \in 1..Len(t) - p + 1
        /\ j \in 1..Len(t) - (m + p - 1) + 1
        /\ (j + m - 1) + p - 1 = j + (m + p - 1) - 1
    BY <1>1, <1>2, <1>4
  <2> QED BY <1>1, <1>3, <1>4, <2>1
<1>7. v = w
  BY <1>3, <1>4, <1>5, <1>6, SeqEqual
<1> QED BY <1>7 DEF u, v, w

(* skip() goes on to the next group, *)
LEMMA SkipThere ==
  ASSUME NEW A, NEW t \in Seq(A), NEW p \in 1..Len(t), NEW s \in p..Len(t),
         IsBlank(t, p, s - 1), t[s] # "\n"
  PROVE  SkipLineEnds(From(t, p)) = From(t, s)
<1> DEFINE u == From(t, p)
           I == {i \in 1..Len(u) : u[i] # "\n"}
           n == s - p + 1
<1>1. /\ u \in Seq(A) /\ Len(u) = Len(t) - p + 1
      /\ \A j \in 1..Len(t) - p + 1 : u[j] = t[j + p - 1]
  BY Behind
<1>2. Len(t) \in Nat /\ n \in 1..Len(u) /\ n + p - 1 = s /\ n # 0
  BY <1>1
<1>3. SkipLineEnds(u) = IF (IF I # {} THEN Min(I) ELSE 0) = 0 THEN <<>>
                        ELSE From(u, IF I # {} THEN Min(I) ELSE 0)
  BY DEF SkipLineEnds, SelectInSeq
<1> HIDE DEF u, n
<1>4. n \in I
  BY <1>1, <1>2
<1>5. ASSUME NEW i \in I, i < n PROVE FALSE
  <2>1. /\ i \in 1..Len(u) /\ u[i] = t[i + p - 1] /\ u[i] # "\n"
        /\ i + p - 1 \in p..s - 1
    BY <1>1, <1>2, <1>5
  <2> QED BY <2>1 DEF IsBlank
<1>6. \A i \in I : n <= i
  BY <1>2, <1>5
<1>7. I \in SUBSET Nat
  OBVIOUS
<1>8. I # {} /\ Min(I) = n
  BY <1>4, <1>6, <1>7, FirstIs
<1> HIDE DEF I
<1>9. SkipLineEnds(u) = From(u, n)
  BY <1>2, <1>3, <1>8
<1>10. From(u, n) = From(t, s)
  <2>1. n \in 1..Len(t) - p + 2
    BY <1>1, <1>2
  <2>2. From(From(t, p), n) = From(t, n + p - 1)
    BY <2>1, FromFrom
  <2> QED BY <1>2, <2>2 DEF u
<1> QED BY <1>9, <1>10 DEF u

(* and takes all where none follows.                                        *)
LEMMA SkipAll ==
  ASSUME NEW A, NEW t \in Seq(A), NEW p \in 1..Len(t) + 1, IsBlank(t, p, Len(t))
  PROVE  SkipLineEnds(From(t, p)) = <<>>
<1> DEFINE u == From(t, p)
           I == {i \in 1..Len(u) : u[i] # "\n"}
<1>1. /\ u \in Seq(A) /\ Len(u) = Len(t) - p + 1
      /\ \A j \in 1..Len(t) - p + 1 : u[j] = t[j + p - 1]
  BY Behind
<1>2. SkipLineEnds(u) = IF (IF I # {} THEN Min(I) ELSE 0) = 0 THEN <<>>
                        ELSE From(u, IF I # {} THEN Min(I) ELSE 0)
  BY DEF SkipLineEnds, SelectInSeq
<1> HIDE DEF u
<1>3. ASSUME NEW i \in I PROVE FALSE
  <2>1. i + p - 1 \in p..Len(t) /\ u[i] = t[i + p - 1]
    BY <1>1
  <2> QED BY <2>1 DEF IsBlank
<1>4. I = {}
  BY <1>3
<1> QED BY <1>2, <1>4 DEF u

LEMMA NothingBehind ==
  ASSUME NEW A, NEW t \in Seq(A), NEW p \in Nat, p > Len(t)
  PROVE  From(t, p) = <<>>
BY SubSeqEmpty DEF From

(* Without what is before and behind it, a text stands alone.               *)
LEMMA TrimThere ==
  ASSUME NEW A, NEW t \in Seq(A), NEW a \in 1..Len(t), NEW z \in a..Len(t),
         IsBlank(t, 1, a - 1), t[a] # "\n", t[z] # "\n", IsBlank(t, z + 1, Len(t))
  PROVE  Trim(t) = SubSeq(t, a, z)
<1> DEFINE I == {i \in 1..Len(t) : t[i] # "\n"}
           n == IF I # {} THEN Max(I) ELSE 0
           u == SubSeq(t, 1, z)
<1>1. Trim(t) = SkipLineEnds(SubSeq(t, 1, n))
  BY DEF Trim, SelectLastInSeq
<1>2. Len(t) \in Nat /\ I \in SUBSET (1..Len(t)) /\ z \in I
  OBVIOUS
<1>3. \A i \in I : i <= z
  BY DEF IsBlank
<1>4. n = z
  BY <1>2, <1>3, LastIs
<1> HIDE DEF I, n
<1>5. /\ u \in Seq(A) /\ Len(u) = z
      /\ \A j \in 1..z : u[j] = t[j]
  <2>1. /\ u \in Seq(A) /\ Len(u) = z - 1 + 1
        /\ \A j \in 1..z - 1 + 1 : u[j] = t[j + 1 - 1]
    BY <1>2, PartOf
  <2> QED BY <2>1
<1> HIDE DEF u
<1>6. IsBlank(u, 1, a - 1) /\ u[a] # "\n" /\ a \in 1..Len(u) /\ 1 \in 1..Len(u)
  BY <1>2, <1>5 DEF IsBlank
<1>7. SkipLineEnds(From(u, 1)) = From(u, a)
  BY <1>5, <1>6, SkipThere
<1>8. From(u, 1) = u
  BY <1>5, SubSeqFull DEF From
<1>9. From(u, a) = SubSeq(t, a, z)
  <2>1. SubSeq(SubSeq(t, 1, z), a, z) = SubSeq(t, 1 + a - 1, 1 + z - 1)
    <3>1. /\ 1 \in 1..Len(t) /\ z \in 1..Len(t) /\ a \in 1..z - 1 + 1 /\ z \in 1..z - 1 + 1
      BY <1>2
    <3> QED BY <3>1, SubSeqOfSubSeq
  <2>2. 1 + a - 1 = a /\ 1 + z - 1 = z
    BY <1>2
  <2> QED BY <1>5, <2>1, <2>2 DEF From, u
<1> QED BY <1>1, <1>4, <1>7, <1>8, <1>9 DEF u

LEMMA PartOfRest ==
  ASSUME NEW A, NEW t \in Seq(A), NEW c \in 1..Len(t) + 1, NEW k \in 0..Len(t) - c + 1
  PROVE  SubSeq(From(t, c), 1, k) = SubSeq(t, c, c + k - 1)
<1> DEFINE u == From(t, c)
           v == SubSeq(u, 1, k)
           w == SubSeq(t, c, c + k - 1)
<1>1. /\ u \in Seq(A) /\ Len(u) = Len(t) - c + 1
      /\ \A j \in 1..Len(t) - c + 1 : u[j] = t[j + c - 1]
  BY Behind
<1>2. /\ Len(t) \in Nat /\ c \in Nat \ {0} /\ c + k - 1 \in 0..Len(t)
      /\ c <= c + k - 1 + 1 /\ k \in 0..Len(u) /\ k \in Nat
  BY <1>1
<1>3. /\ w \in Seq(A) /\ Len(w) = c + k - 1 - c + 1
      /\ \A m \in 1..c + k - 1 - c + 1 : w[m] = t[m + c - 1]
  BY <1>2, PartOf
<1>4. /\ v \in Seq(A) /\ Len(v) = k - 1 + 1
      /\ \A m \in 1..k - 1 + 1 : v[m] = u[m + 1 - 1]
  BY <1>1, <1>2, PartOf
<1> HIDE DEF u, v, w
<1>5. Len(v) = k /\ Len(w) = k
  BY <1>2, <1>3, <1>4
<1>6. ASSUME NEW j \in 1..k PROVE v[j] = w[j]
  <2>1. /\ j \in 1..k - 1 + 1 /\ j + 1 - 1 = j /\ j \in 1..c + k - 1 - c + 1
        /\ j \in 1..Len(t) - c + 1
    BY <1>2
  <2> QED BY <1>1, <1>3, <1>4, <2>1
<1>7. v = w
  BY <1>3, <1>4, <1>5, <1>6, SeqEqual
<1> QED BY <1>7 DEF u, v, w

LEMMA LineExists ==
  ASSUME NEW A, NEW t \in Seq(A), NEW i \in 1..Len(t) + 1
  PROVE  \E l \in i..Len(t) + 1 : LineEndsAt(t, i, l)
<1> DEFINE I == {m \in i..Len(t) : t[m] = "\n"}
<1>1. Len(t) \in Nat
  OBVIOUS
<1>2. CASE I = {}
  <2>1. \A m \in i..Len(t) + 1 - 1 : t[m] # "\n"
    BY <1>1, <1>2
  <2> QED BY <1>1, <2>1 DEF LineEndsAt
<1>3. CASE I # {}
  <2>1. I \in SUBSET Nat
    BY <1>1
  <2>2. Min(I) \in I /\ \A m \in I : Min(I) <= m
    BY <1>3, <2>1, FirstOf
  <2>3. PICK l \in I : \A m \in I : l <= m
    BY <2>2
  <2>4. l \in i..Len(t) /\ t[l] = "\n"
    BY <2>3
  <2>5. ASSUME NEW m \in i..l - 1, t[m] = "\n" PROVE FALSE
    <3>1. m \in I
      BY <1>1, <2>4, <2>5
    <3>2. l <= m
      BY <2>3, <3>1
    <3> QED BY <2>4, <3>2
  <2> HIDE DEF I
  <2> QED BY <1>1, <2>4, <2>5 DEF LineEndsAt
<1> QED BY <1>2, <1>3

LEMMA LineIs ==
  ASSUME NEW t, Len(t) \in Nat, NEW i \in Nat, NEW j \in Nat, i <= j,
         NEW l \in Nat, NEW x \in Nat, LineEndsAt(t, i, l), LineEndsAt(t, j, x), j <= l
  PROVE  l = x
<1>1. ASSUME l < x PROVE FALSE
  BY <1>1 DEF LineEndsAt
<1>2. ASSUME x < l PROVE FALSE
  BY <1>2 DEF LineEndsAt
<1> QED BY <1>1, <1>2

(* The first line of a piece, as skipEmptyLines() takes it.                 *)
LEMMA FirstLineThere ==
  ASSUME NEW t \in Seq(Token), NEW p \in 1..Len(t), NEW s \in p..Len(t),
         IsBlank(t, p, s - 1), t[s] # "\n", NEW l \in Nat, LineEndsAt(t, s, l),
         \A m \in s..l - 1 : t[m] # "-"
  PROVE  SkipEmptyLines(From(t, p)) =
           IF l <= Len(t)
           THEN [line |-> SubSeq(t, s, l - 1), rest |-> SkipLineEnds(From(t, l + 1))]
           ELSE [line |-> Append(From(t, s), Again), rest |-> <<>>]
<1> DEFINE u == From(t, s)
           I == {i \in 1..Len(u) : u[i] \in {"\n", "-"}}
           end == IF I # {} THEN Min(I) ELSE 0
<1>1. SkipLineEnds(From(t, p)) = u
  BY SkipThere
<1>2. SkipEmptyLines(From(t, p)) =
        IF end > 0
        THEN [line |-> SubSeq(u, 1, end - 1), rest |-> SkipLineEnds(From(u, end + 1))]
        ELSE [line |-> IF u = <<>> THEN <<>> ELSE Append(u, Again), rest |-> <<>>]
  BY <1>1 DEF SkipEmptyLines, SelectInSeq
<1>3. /\ u \in Seq(Token) /\ Len(u) = Len(t) - s + 1
      /\ \A j \in 1..Len(t) - s + 1 : u[j] = t[j + s - 1]
  <2>1. s \in 1..Len(t) + 1
    OBVIOUS
  <2> QED BY <2>1, Behind
<1>4. /\ Len(t) \in Nat /\ s \in 1..Len(t) /\ p \in Nat /\ s < l /\ l <= Len(t) + 1
      /\ \A m \in s..l - 1 : t[m] # "\n"
      /\ l <= Len(t) => t[l] = "\n"
  BY DEF LineEndsAt
<1>5. u # <<>>
  <2>1. Len(u) > 0
    BY <1>3, <1>4
  <2> QED BY <2>1
<1> HIDE DEF u
<1>6. ASSUME NEW i \in I PROVE i \in Nat /\ l - s + 1 <= i
  <2>1. i \in 1..Len(t) - s + 1 /\ t[i + s - 1] \in {"\n", "-"}
    BY <1>3
  <2>2. ~ (i + s - 1 \in s..l - 1)
    BY <1>4, <2>1
  <2> QED BY <1>4, <2>1, <2>2
<1>7. CASE l <= Len(t)
  <2> DEFINE n == l - s + 1
  <2>1. n \in 1..Len(u) /\ n + s - 1 = l
    BY <1>3, <1>4, <1>7
  <2>2. u[n] = "\n"
    BY <1>3, <1>4, <1>7, <2>1
  <2>3. n \in I /\ I \in SUBSET Nat /\ \A i \in I : n <= i
    BY <1>6, <2>1, <2>2
  <2>4. end = n
    BY <2>3, FirstIs
  <2> HIDE DEF I, end
  <2>5. SkipEmptyLines(From(t, p)) =
          [line |-> SubSeq(u, 1, n - 1), rest |-> SkipLineEnds(From(u, n + 1))]
    <3>1. end > 0
      BY <2>1, <2>4
    <3> QED BY <1>2, <1>5, <2>4, <3>1, Zenon
  <2>6. SubSeq(u, 1, n - 1) = SubSeq(t, s, l - 1)
    <3>1. s \in 1..Len(t) + 1 /\ n - 1 \in 0..Len(t) - s + 1 /\ s + (n - 1) - 1 = l - 1
      BY <1>4, <1>7
    <3>2. SubSeq(u, 1, n - 1) = SubSeq(t, s, s + (n - 1) - 1)
      BY <3>1, PartOfRest DEF u
    <3> QED BY <3>1, <3>2
  <2>7. From(u, n + 1) = From(t, l + 1)
    <3>1. s \in 1..Len(t) + 1 /\ n + 1 \in 1..Len(t) - s + 2 /\ n + 1 + s - 1 = l + 1
      BY <1>4, <1>7
    <3>2. From(u, n + 1) = From(t, n + 1 + s - 1)
      BY <3>1, FromFrom DEF u
    <3> QED BY <3>1, <3>2
  <2> QED BY <1>7, <2>5, <2>6, <2>7
<1>8. CASE ~ (l <= Len(t))
  <2>1. I = {}
    <3>1. ASSUME NEW i \in I PROVE FALSE
      <4>1. i \in 1..Len(t) - s + 1
        BY <1>3
      <4> QED BY <1>4, <1>6, <1>8, <3>1, <4>1
    <3> QED BY <3>1
  <2>2. end = 0
    BY <2>1
  <2> HIDE DEF I, end
  <2>3. ~ (end > 0)
    BY <2>2
  <2> QED BY <1>2, <1>5, <1>8, <2>3, Zenon DEF u
<1> QED BY <1>7, <1>8

LEMMA NoLineThere ==
  ASSUME NEW t \in Seq(Token), NEW p \in 1..Len(t) + 1, IsBlank(t, p, Len(t))
  PROVE  SkipEmptyLines(From(t, p)).line = <<>>
<1> DEFINE u == SkipLineEnds(From(t, p))
           I == {i \in 1..Len(u) : u[i] \in {"\n", "-"}}
           end == IF I # {} THEN Min(I) ELSE 0
<1>1. SkipEmptyLines(From(t, p)) =
        IF end > 0
        THEN [line |-> SubSeq(u, 1, end - 1), rest |-> SkipLineEnds(From(u, end + 1))]
        ELSE [line |-> IF u = <<>> THEN <<>> ELSE Append(u, Again), rest |-> <<>>]
  BY DEF SkipEmptyLines, SelectInSeq
<1>2. u = <<>> /\ end = 0
  BY SkipAll
<1> HIDE DEF u, end
<1> QED BY <1>1, <1>2

(* A further line, as std::getline() takes it.                              *)
LEMMA NextLineThere ==
  ASSUME NEW t \in Seq(Token), NEW c \in 1..Len(t), NEW x \in Nat, LineEndsAt(t, c, x)
  PROVE  GetLine(From(t, c)) =
           IF x <= Len(t) THEN [line |-> SubSeq(t, c, x - 1), rest |-> From(t, x + 1)]
           ELSE [line |-> From(t, c), rest |-> <<>>]
<1> DEFINE u == From(t, c)
           I == {i \in 1..Len(u) : u[i] = "\n"}
           end == IF I # {} THEN Min(I) ELSE 0
<1>1. GetLine(u) = IF end = 0 THEN [line |-> u, rest |-> <<>>]
                   ELSE [line |-> SubSeq(u, 1, end - 1), rest |-> From(u, end + 1)]
  BY DEF GetLine, SelectInSeq
<1>2. /\ u \in Seq(Token) /\ Len(u) = Len(t) - c + 1
      /\ \A j \in 1..Len(t) - c + 1 : u[j] = t[j + c - 1]
  <2>1. c \in 1..Len(t) + 1
    OBVIOUS
  <2> QED BY <2>1, Behind
<1>3. /\ Len(t) \in Nat /\ c <= x /\ x <= Len(t) + 1
      /\ \A m \in c..x - 1 : t[m] # "\n"
      /\ x <= Len(t) => t[x] = "\n"
  BY DEF LineEndsAt
<1> HIDE DEF u
<1>4. ASSUME NEW i \in I PROVE i \in Nat /\ x - c + 1 <= i
  <2>1. i \in 1..Len(t) - c + 1 /\ t[i + c - 1] = "\n"
    BY <1>2
  <2>2. ~ (i + c - 1 \in c..x - 1)
    BY <1>3, <2>1
  <2> QED BY <1>3, <2>1, <2>2
<1>5. CASE x <= Len(t)
  <2> DEFINE n == x - c + 1
  <2>1. n \in 1..Len(u) /\ n + c - 1 = x
    BY <1>2, <1>3, <1>5
  <2>2. u[n] = "\n"
    BY <1>2, <1>3, <1>5, <2>1
  <2>3. n \in I /\ I \in SUBSET Nat /\ \A i \in I : n <= i
    BY <1>4, <2>1, <2>2
  <2>4. end = n
    BY <2>3, FirstIs
  <2> HIDE DEF I, end
  <2>5. GetLine(u) = [line |-> SubSeq(u, 1, n - 1), rest |-> From(u, n + 1)]
    <3>1. end # 0
      BY <2>1, <2>4
    <3> QED BY <1>1, <2>4, <3>1, Zenon
  <2>6. SubSeq(u, 1, n - 1) = SubSeq(t, c, x - 1)
    <3>1. c \in 1..Len(t) + 1 /\ n - 1 \in 0..Len(t) - c + 1 /\ c + (n - 1) - 1 = x - 1
      BY <1>3, <1>5
    <3>2. SubSeq(u, 1, n - 1) = SubSeq(t, c, c + (n - 1) - 1)
      BY <3>1, PartOfRest DEF u
    <3> QED BY <3>1, <3>2
  <2>7. From(u, n + 1) = From(t, x + 1)
    <3>1. c \in 1..Len(t) + 1 /\ n + 1 \in 1..Len(t) - c + 2 /\ n + 1 + c - 1 = x + 1
      BY <1>3, <1>5
    <3>2. From(u, n + 1) = From(t, n + 1 + c - 1)
      BY <3>1, FromFrom DEF u
    <3> QED BY <3>1, <3>2
  <2> QED BY <1>5, <2>5, <2>6, <2>7 DEF u
<1>6. CASE ~ (x <= Len(t))
  <2>1. I = {}
    <3>1. ASSUME NEW i \in I PROVE FALSE
      <4>1. i \in 1..Len(t) - c + 1
        BY <1>2
      <4> QED BY <1>3, <1>4, <1>6, <3>1, <4>1
    <3> QED BY <3>1
  <2>2. end = 0
    BY <2>1
  <2> HIDE DEF I, end
  <2> QED BY <1>1, <1>6, <2>2, Zenon DEF u
<1> QED BY <1>5, <1>6

(* The first "=" of a line.                                                *)
LEMMA EqualsThere ==
  ASSUME NEW A, NEW line \in Seq(A), NEW n \in 1..Len(line), line[n] = "=",
         \A i \in 1..n - 1 : line[i] # "="
  PROVE  Contains(line, "=") /\ UpToEquals(line) = SubSeq(line, 1, n)
<1> DEFINE I == {i \in 1..Len(line) : line[i] = "="}
<1>1. Len(line) \in Nat /\ n \in I /\ I \in SUBSET Nat /\ n # 0
  OBVIOUS
<1>2. ASSUME NEW i \in I, i < n PROVE FALSE
  BY <1>2
<1>3. \A i \in I : n <= i
  BY <1>1, <1>2
<1>4. I # {} /\ Min(I) = n
  BY <1>1, <1>3, FirstIs
<1>5. UpToEquals(line) = SubSeq(line, 1, IF I # {} THEN Min(I) ELSE 0)
  BY DEF UpToEquals, SelectInSeq
<1> HIDE DEF I
<1>6. Contains(line, "=")
  BY DEF Contains
<1> QED BY <1>4, <1>5, <1>6

LEMMA NoEquals ==
  ASSUME NEW A, NEW line \in Seq(A), \A i \in 1..Len(line) : line[i] # "="
  PROVE  ~ Contains(line, "=")
BY DEF Contains

(* Behind a place the text goes on somewhere, or ends.                      *)
LEMMA RestSkipped ==
  ASSUME NEW A, NEW t \in Seq(A), NEW i \in 1..Len(t) + 1
  PROVE  \E p \in i..Len(t) + 1 :
           SkipLineEnds(From(t, i)) = From(t, p) /\ IsBlank(t, i, p - 1)
<1> DEFINE I == {m \in i..Len(t) : t[m] # "\n"}
<1>1. Len(t) \in Nat
  OBVIOUS
<1>2. CASE I = {}
  <2>1. IsBlank(t, i, Len(t))
    BY <1>1, <1>2 DEF IsBlank
  <2>2. SkipLineEnds(From(t, i)) = <<>>
    BY <2>1, SkipAll
  <2>3. From(t, Len(t) + 1) = <<>> /\ Len(t) + 1 - 1 = Len(t)
    BY <1>1, NothingBehind
  <2> QED BY <1>1, <2>1, <2>2, <2>3
<1>3. CASE I # {}
  <2>1. I \in SUBSET Nat
    BY <1>1
  <2>2. Min(I) \in I /\ \A m \in I : Min(I) <= m
    BY <1>3, <2>1, FirstOf
  <2>3. PICK s \in I : \A m \in I : s <= m
    BY <2>2
  <2>4. s \in i..Len(t) /\ t[s] # "\n" /\ i \in 1..Len(t)
    BY <1>1, <2>3
  <2>5. ASSUME NEW m \in i..s - 1, t[m] # "\n" PROVE FALSE
    <3>1. m \in I
      BY <1>1, <2>4, <2>5
    <3>2. s <= m
      BY <2>3, <3>1
    <3> QED BY <2>4, <3>2
  <2> HIDE DEF I
  <2>6. IsBlank(t, i, s - 1)
    BY <2>5 DEF IsBlank
  <2>7. SkipLineEnds(From(t, i)) = From(t, s)
    BY <2>4, <2>6, SkipThere
  <2>8. s \in i..Len(t) + 1
    BY <1>1, <2>4
  <2> QED BY <2>6, <2>7, <2>8
<1> QED BY <1>2, <1>3

LEMMA PartOfAppended ==
  ASSUME NEW A, NEW u \in Seq(A), NEW B, A \subseteq B, NEW x \in B, NEW k \in 0..Len(u)
  PROVE  SubSeq(Append(u, x), 1, k) = SubSeq(u, 1, k)
<1> DEFINE a == Append(u, x)
           v == SubSeq(a, 1, k)
           w == SubSeq(u, 1, k)
<1>1. u \in Seq(B) /\ Len(u) \in Nat /\ k \in Nat
  BY SeqMonotonic
<1>2. /\ a \in Seq(B) /\ Len(a) = Len(u) + 1
      /\ \A j \in 1..Len(u) : a[j] = u[j]
  BY <1>1
<1> HIDE DEF a
<1>3. k \in 0..Len(a) /\ 1 <= k + 1
  BY <1>1, <1>2
<1>4. /\ v \in Seq(B) /\ Len(v) = k - 1 + 1
      /\ \A m \in 1..k - 1 + 1 : v[m] = a[m + 1 - 1]
  BY <1>2, <1>3, PartOf
<1>5. /\ w \in Seq(B) /\ Len(w) = k - 1 + 1
      /\ \A m \in 1..k - 1 + 1 : w[m] = u[m + 1 - 1]
  BY <1>1, <1>3, PartOf
<1> HIDE DEF v, w
<1>6. Len(v) = k /\ Len(w) = k
  BY <1>1, <1>4, <1>5
<1>7. ASSUME NEW j \in 1..k PROVE v[j] = w[j]
  <2>1. j \in 1..k - 1 + 1 /\ j + 1 - 1 = j /\ j \in 1..Len(u)
    BY <1>1
  <2> QED BY <1>2, <1>4, <1>5, <2>1
<1>8. v = w
  BY <1>4, <1>5, <1>6, <1>7, SeqEqual
<1> QED BY <1>8 DEF a, v, w

(* A line end behind a part of a text makes it longer.                      *)
LEMMA LineEndedPart ==
  ASSUME NEW A, NEW t \in Seq(A), NEW s \in Nat \ {0}, NEW x \in 1..Len(t), s <= x
  PROVE  Append(SubSeq(t, s, x - 1), t[x]) = SubSeq(t, s, x)
<1>1. s \in 1..Len(t) /\ x \in s..Len(t)
  <2>1. Len(t) \in Nat
    OBVIOUS
  <2> QED BY <2>1
<1>2. SubSeq(t, s, x) = SubSeq(t, s, x - 1) \o <<t[x]>>
  BY <1>1, SubSeqRecursiveSecond
<1>3. SubSeq(t, s, x - 1) \in Seq(A) /\ t[x] \in A
  OBVIOUS
<1> DEFINE u == SubSeq(t, s, x - 1)
<1> HIDE DEF u
<1>4. ASSUME u \in Seq(A) PROVE Append(u, t[x]) = u \o <<t[x]>>
  BY <1>3, <1>4
<1> QED BY <1>2, <1>3, <1>4 DEF u

(***************************************************************************)
(* How readReport() reads a piece                                          *)
(***************************************************************************)
IsLayout(w) == w.s \in Nat /\ w.l \in Nat /\ w.e \in Nat /\ w.n \in Nat /\ w.b \in Nat

LEMMA PieceFacts ==
  ASSUME NEW t \in Seq(Token), NEW w, IsLayout(w), NEW a \in Nat \ {0}, IsPiece(t, w, a)
  PROVE  /\ Len(t) \in Nat /\ w.s \in Nat /\ w.l \in Nat /\ w.e \in Nat /\ w.n \in Nat
         /\ a <= w.s /\ w.s <= w.e /\ w.e <= Len(t) /\ w.s < w.l /\ w.e < w.n
         /\ w.l <= Len(t) + 1 /\ w.n <= Len(t) + 1
         /\ t[w.s] # "\n" /\ t[w.e] # "\n" /\ w.l # w.e
         /\ \A m \in w.s..w.e - 1 : t[m] # "="
         /\ t[w.e] # "=" => w.e = Len(t) /\ w.l < w.e
         /\ w.l > w.e => t[w.e] = "=" /\ w.n = w.l
         /\ LineEndsAt(t, w.e, w.n) /\ LineEndsAt(t, w.s, w.l)
<1>1. /\ Len(t) \in Nat /\ w.s \in Nat /\ w.l \in Nat /\ w.e \in Nat /\ w.n \in Nat
      /\ a <= w.s /\ w.s <= w.e /\ w.e <= Len(t)
      /\ t[w.s] # "\n" /\ t[w.e] # "\n"
      /\ \A m \in w.s..w.e - 1 : t[m] # "="
      /\ t[w.e] # "=" => w.e = Len(t) /\ w.l < w.e
      /\ LineEndsAt(t, w.e, w.n) /\ LineEndsAt(t, w.s, w.l)
  BY DEF IsPiece, IsLayout, GoesOn
<1>2. w.s < w.l /\ w.l <= Len(t) + 1 /\ w.l # w.e
  BY <1>1 DEF LineEndsAt
<1>3. w.e < w.n /\ w.n <= Len(t) + 1
  BY <1>1 DEF LineEndsAt
<1>4. ASSUME w.l > w.e PROVE t[w.e] = "=" /\ w.n = w.l
  <2>1. w.e <= w.l
    BY <1>1, <1>4
  <2>2. w.l = w.n
    BY <1>1, <2>1, LineIs
  <2> QED BY <1>1, <1>4, <2>2
<1> QED BY <1>1, <1>2, <1>3, <1>4

(* It goes on in the next line, or has been read.                          *)
ReadOn(t, w) ==
    \/ pc = "lines" /\ LinesFit(t, w)
    \/ pc = "take" /\ report = Piece(t, w) /\ RestIs(t, w.n + 1)

LEMMA FirstLineOfPiece ==
  ASSUME NEW t \in Seq(Token), NEW w, IsLayout(w), NEW a \in Nat \ {0}, IsPiece(t, w, a),
         RestIs(t, a), report = <<>>, AddLine(SkipEmptyLines(rest).line),
         rest' = SkipEmptyLines(rest).rest
  PROVE  ReadOn(t, w)'
<1> DEFINE s == w.s
           l == w.l
           e == w.e
<1>1. /\ Len(t) \in Nat /\ s \in Nat /\ l \in Nat /\ e \in Nat /\ w.n \in Nat
      /\ a <= s /\ s <= e /\ e <= Len(t) /\ s < l /\ l <= Len(t) + 1
      /\ t[s] # "\n" /\ l # e
      /\ \A m \in s..e - 1 : t[m] # "="
      /\ l > e => t[e] = "=" /\ w.n = l
      /\ LineEndsAt(t, s, l)
  BY PieceFacts
<1>2. /\ IsBlank(t, a, s - 1)
      /\ \A m \in s..l - 1 : t[m] # "-"
      /\ l < e => t[l + 1] # "\n"
  BY DEF IsPiece, GoesOn
<1> HIDE DEF s, l, e
<1>3. PICK p \in (a..Len(t) + 1) \union {a} : rest = From(t, p) /\ IsBlank(t, a, p - 1)
  BY DEF RestIs
<1>4. p \in 1..Len(t) /\ s \in p..Len(t) /\ IsBlank(t, p, s - 1)
  <2>1. p \in Nat /\ a <= p
    BY <1>1, <1>3
  <2>2. p <= s
    <3>1. ASSUME s < p PROVE FALSE
      <4>1. s \in a..p - 1
        BY <1>1, <2>1, <3>1
      <4> QED BY <1>1, <1>3, <4>1 DEF IsBlank
    <3> QED BY <1>1, <2>1, <3>1
  <2>3. \A m \in p..s - 1 : m \in a..s - 1
    BY <1>1, <2>1
  <2> QED BY <1>1, <1>2, <2>1, <2>2, <2>3 DEF IsBlank
<1>5. SkipEmptyLines(rest) =
        IF l <= Len(t)
        THEN [line |-> SubSeq(t, s, l - 1), rest |-> SkipLineEnds(From(t, l + 1))]
        ELSE [line |-> Append(From(t, s), Again), rest |-> <<>>]
  BY <1>1, <1>2, <1>3, <1>4, FirstLineThere
<1>6. CASE l < e
  <2> DEFINE line == SubSeq(t, s, l - 1)
  <2>1. /\ SkipEmptyLines(rest).line = line
        /\ rest' = SkipLineEnds(From(t, l + 1))
    BY <1>1, <1>5, <1>6
  <2>2. s \in Nat \ {0} /\ l - 1 \in 0..Len(t) /\ s <= l - 1 + 1
    BY <1>1, <1>6
  <2>3. /\ line \in Seq(Token) /\ Len(line) = l - 1 - s + 1
        /\ \A m \in 1..l - 1 - s + 1 : line[m] = t[m + s - 1]
    BY <2>2, PartOf
  <2>4. \A i \in 1..Len(line) : line[i] # "="
    <3>1. \A i \in 1..l - 1 - s + 1 : i + s - 1 \in s..e - 1
      BY <1>1, <1>6
    <3> QED BY <1>1, <2>3, <3>1
  <2>5. report' = Append(report \o line, "\n") /\ pc' = "lines"
    <3>1. ~ Contains(line, "=")
      BY <2>3, <2>4, NoEquals
    <3> QED BY <2>1, <3>1 DEF AddLine
  <2>6. report \o line = line
    BY <2>3, ConcatEmptySeq
  <2>7. t[l] = "\n" /\ l \in 1..Len(t) /\ s <= l
    BY <1>1, <1>6 DEF LineEndsAt
  <2>8. report' = SubSeq(t, s, l)
    <3>1. Append(line, t[l]) = SubSeq(t, s, l)
      BY <2>2, <2>7, LineEndedPart
    <3> QED BY <2>5, <2>6, <2>7, <3>1
  <2>9. rest' = From(t, l + 1)
    <3> DEFINE c == l + 1
    <3>1. c \in 1..Len(t) /\ c \in c..Len(t) /\ t[c] # "\n" /\ \A m \in c..c - 1 : FALSE
      BY <1>1, <1>2, <1>6
    <3> HIDE DEF c
    <3>2. IsBlank(t, c, c - 1)
      BY <3>1 DEF IsBlank
    <3>3. SkipLineEnds(From(t, c)) = From(t, c)
      BY <3>1, <3>2, SkipThere
    <3> QED BY <2>1, <3>3 DEF c
  <2>10. \E c \in l + 1..e : report' = SubSeq(t, s, c - 1) /\ rest' = From(t, c)
    <3> DEFINE c == l + 1
    <3>1. c \in c..e /\ c - 1 = l
      BY <1>1, <1>6
    <3>2. rest' = From(t, c)
      BY <2>9
    <3> HIDE DEF c
    <3>3. report' = SubSeq(t, s, c - 1)
      BY <2>8, <3>1
    <3>4. \E d \in c..e : report' = SubSeq(t, s, d - 1) /\ rest' = From(t, d)
      BY <3>1, <3>2, <3>3
    <3> QED BY <3>4 DEF c
  <2> QED BY <1>6, <2>5, <2>10 DEF ReadOn, LinesFit, s, l, e
<1>7. CASE ~ (l < e)
  <2> DEFINE m == e - s + 1
             line == SkipEmptyLines(rest).line
  <2>1. t[e] = "=" /\ w.n = l /\ e < l
    BY <1>1, <1>7
  <2>2. SubSeq(t, s, e) \in Seq(Token \union {Again}) /\ s \in Nat \ {0}
    <3>1. s \in Nat \ {0} /\ e \in 0..Len(t) /\ s <= e + 1
      BY <1>1
    <3>2. SubSeq(t, s, e) \in Seq(Token)
      BY <3>1, PartOf
    <3> QED BY <3>1, <3>2, SeqMonotonic
  <2>3. /\ line \in Seq(Token \union {Again}) /\ m \in 1..Len(line)
        /\ \A i \in 1..m : line[i] = t[i + s - 1]
        /\ SubSeq(line, 1, m) = SubSeq(t, s, e)
    <3>1. CASE l <= Len(t)
      <4> DEFINE u == SubSeq(t, s, l - 1)
      <4>1. line = u
        <5>1. SkipEmptyLines(rest) = [line |-> u, rest |-> SkipLineEnds(From(t, l + 1))]
          BY <1>5, <3>1, Zenon
        <5> HIDE DEF u
        <5> QED BY <5>1
      <4>2. l - 1 \in 0..Len(t) /\ s <= l - 1 + 1
        BY <1>1, <3>1
      <4>3. /\ u \in Seq(Token) /\ Len(u) = l - 1 - s + 1
            /\ \A i \in 1..l - 1 - s + 1 : u[i] = t[i + s - 1]
        BY <2>2, <4>2, PartOf
      <4>4. SubSeq(u, 1, m) = SubSeq(t, s, e)
        <5>1. /\ s \in 1..Len(t) /\ l - 1 \in 1..Len(t)
              /\ 1 \in 1..l - 1 - s + 1 /\ m \in 1..l - 1 - s + 1
              /\ s + 1 - 1 = s /\ s + m - 1 = e
          BY <1>1, <2>1, <3>1
        <5>2. SubSeq(u, 1, m) = SubSeq(t, s + 1 - 1, s + m - 1)
          BY <5>1, SubSeqOfSubSeq
        <5> QED BY <5>1, <5>2
      <4> HIDE DEF u
      <4>5. u \in Seq(Token \union {Again})
        BY <4>3, SeqMonotonic
      <4>6. m \in 1..Len(u) /\ \A i \in 1..m : i \in 1..l - 1 - s + 1
        BY <1>1, <2>1, <4>3
      <4> QED BY <4>1, <4>3, <4>4, <4>5, <4>6
    <3>2. CASE ~ (l <= Len(t))
      <4> DEFINE v == From(t, s)
                 u == Append(v, Again)
      <4>1. line = u
        BY <1>5, <3>2
      <4>2. s \in 1..Len(t) + 1
        BY <1>1
      <4>3. /\ v \in Seq(Token) /\ Len(v) = Len(t) - s + 1
            /\ \A j \in 1..Len(t) - s + 1 : v[j] = t[j + s - 1]
        BY <4>2, Behind
      <4>4. m \in 0..Len(v) /\ m \in 0..Len(t) - s + 1 /\ s + m - 1 = e
            /\ \A i \in 1..m : i \in 1..Len(v)
        BY <1>1, <4>3
      <4>5. SubSeq(v, 1, m) = SubSeq(t, s, e)
        <5>1. SubSeq(v, 1, m) = SubSeq(t, s, s + m - 1)
          BY <4>2, <4>4, PartOfRest
        <5> QED BY <4>4, <5>1
      <4> HIDE DEF v
      <4>6. SubSeq(u, 1, m) = SubSeq(v, 1, m)
        <5>1. Token \subseteq Token \union {Again} /\ Again \in Token \union {Again}
          OBVIOUS
        <5> QED BY <4>3, <4>4, <5>1, PartOfAppended
      <4>7. /\ u \in Seq(Token \union {Again}) /\ Len(u) = Len(v) + 1
            /\ \A i \in 1..Len(v) : u[i] = v[i]
        <5>1. v \in Seq(Token \union {Again}) /\ Again \in Token \union {Again}
          BY <4>3, SeqMonotonic
        <5> QED BY <5>1
      <4>8. m \in 1..Len(u)
        BY <1>1, <4>3, <4>4, <4>7
      <4> HIDE DEF u
      <4> QED BY <4>1, <4>3, <4>4, <4>5, <4>6, <4>7, <4>8
    <3> QED BY <3>1, <3>2
  <2>4. line[m] = "=" /\ \A i \in 1..m - 1 : line[i] # "="
    <3>1. m \in 1..m /\ m + s - 1 = e /\ \A i \in 1..m - 1 : i \in 1..m /\ i + s - 1 \in s..e - 1
      BY <1>1
    <3> HIDE DEF m, line
    <3> QED BY <1>1, <2>1, <2>3, <3>1
  <2> HIDE DEF m
  <2>5. Contains(line, "=") /\ UpToEquals(line) = SubSeq(t, s, e)
    BY <2>3, <2>4, EqualsThere
  <2>6. report' = Piece(t, w) /\ pc' = "take"
    <3>1. report' = report \o SubSeq(t, s, e) /\ pc' = "take"
      BY <2>5 DEF AddLine
    <3>2. report \o SubSeq(t, s, e) = SubSeq(t, s, e)
      BY <2>2, ConcatEmptySeq
    <3> QED BY <2>1, <3>1, <3>2 DEF Piece, s, e
  <2>7. RestIs(t, w.n + 1)'
    <3>1. CASE l <= Len(t)
      <4>1. rest' = SkipLineEnds(From(t, l + 1)) /\ l + 1 \in 1..Len(t) + 1
        BY <1>1, <1>5, <3>1
      <4>2. PICK q \in l + 1..Len(t) + 1 :
              rest' = From(t, q) /\ IsBlank(t, l + 1, q - 1)
        BY <4>1, RestSkipped
      <4> QED BY <2>1, <4>2 DEF RestIs
    <3>2. CASE ~ (l <= Len(t))
      <4>1. rest' = <<>> /\ l + 1 \in Nat /\ l + 1 > Len(t)
        BY <1>1, <1>5, <3>2
      <4>2. From(t, l + 1) = <<>>
        BY <4>1, NothingBehind
      <4>3. \A i \in l + 1..l + 1 - 1 : FALSE
        BY <1>1
      <4> QED BY <2>1, <4>1, <4>2, <4>3 DEF RestIs, IsBlank
    <3> QED BY <3>1, <3>2
  <2> QED BY <2>6, <2>7 DEF ReadOn
<1> QED BY <1>6, <1>7

LEMMA NextLineOfPiece ==
  ASSUME NEW t \in Seq(Token), NEW w, IsLayout(w), NEW a \in Nat \ {0}, IsPiece(t, w, a),
         LinesFit(t, w), rest # <<>>, AddLine(GetLine(rest).line),
         rest' = GetLine(rest).rest
  PROVE  ReadOn(t, w)'
<1> DEFINE s == w.s
           l == w.l
           e == w.e
<1>1. /\ Len(t) \in Nat /\ s \in Nat /\ l \in Nat /\ e \in Nat /\ w.n \in Nat
      /\ 1 <= s /\ s <= e /\ e <= Len(t) /\ s < l
      /\ t[e] # "\n"
      /\ \A m \in s..e - 1 : t[m] # "="
      /\ t[e] # "=" => e = Len(t)
      /\ LineEndsAt(t, e, w.n)
  BY PieceFacts
<1>2. l < e
  BY DEF LinesFit, l, e
<1>3. PICK c \in l + 1..e : report = SubSeq(t, s, c - 1) /\ rest = From(t, c)
  BY DEF LinesFit, s, l, e
<1> HIDE DEF s, l, e
<1>4. /\ c \in 1..Len(t) /\ c \in 1..Len(t) + 1 /\ s <= c - 1 /\ c <= e
      /\ c - 1 \in 1..Len(t) /\ c - 1 + 1 = c
  BY <1>1, <1>2, <1>3
<1>5. PICK x \in c..Len(t) + 1 : LineEndsAt(t, c, x)
  BY <1>4, LineExists
<1>6. /\ x \in Nat /\ c <= x /\ x <= Len(t) + 1 /\ x # e
      /\ \A m \in c..x - 1 : t[m] # "\n"
      /\ x <= Len(t) => t[x] = "\n"
  BY <1>1, <1>4, <1>5 DEF LineEndsAt
<1>7. GetLine(rest) =
        IF x <= Len(t) THEN [line |-> SubSeq(t, c, x - 1), rest |-> From(t, x + 1)]
        ELSE [line |-> From(t, c), rest |-> <<>>]
  BY <1>3, <1>4, <1>5, <1>6, NextLineThere
<1> DEFINE line == SubSeq(t, c, x - 1)
<1>8. From(t, c) = line \/ x <= Len(t)
  BY <1>6 DEF From
<1>9. GetLine(rest).line = line
  <2>1. CASE x <= Len(t)
    <3>1. GetLine(rest) = [line |-> line, rest |-> From(t, x + 1)]
      BY <1>7, <2>1, Zenon
    <3> HIDE DEF line
    <3> QED BY <3>1
  <2>2. CASE ~ (x <= Len(t))
    <3>1. GetLine(rest) = [line |-> From(t, c), rest |-> <<>>]
      BY <1>7, <2>2, Zenon
    <3>2. GetLine(rest).line = From(t, c)
      BY <3>1
    <3> QED BY <1>8, <2>2, <3>2, Zenon
  <2> QED BY <2>1, <2>2
<1>10. rest' = From(t, x + 1)
  <2>1. CASE x <= Len(t)
    <3>1. GetLine(rest) = [line |-> line, rest |-> From(t, x + 1)]
      BY <1>7, <2>1, Zenon
    <3> HIDE DEF line
    <3> QED BY <3>1
  <2>2. CASE ~ (x <= Len(t))
    <3>1. GetLine(rest) = [line |-> From(t, c), rest |-> <<>>]
      BY <1>7, <2>2, Zenon
    <3>2. rest' = <<>>
      BY <3>1
    <3>3. x + 1 \in Nat /\ x + 1 > Len(t)
      BY <1>1, <1>6, <2>2
    <3>4. From(t, x + 1) = <<>>
      BY <3>3, NothingBehind
    <3> QED BY <3>2, <3>4
  <2> QED BY <2>1, <2>2
<1>11. /\ line \in Seq(Token) /\ Len(line) = x - 1 - c + 1
       /\ \A m \in 1..x - 1 - c + 1 : line[m] = t[m + c - 1]
  <2>1. c \in Nat \ {0} /\ x - 1 \in 0..Len(t) /\ c <= x - 1 + 1
    BY <1>1, <1>4, <1>6
  <2> QED BY <2>1, PartOf
<1>12. CASE x < e \/ t[e] # "="
  <2>1. \A i \in 1..Len(line) : line[i] # "="
    <3>1. ASSUME NEW i \in 1..Len(line), t[i + c - 1] = "=" PROVE FALSE
      <4>1. i + c - 1 \in s..x - 1
        BY <1>1, <1>4, <1>6, <1>11
      <4>2. i + c - 1 \notin s..e - 1
        BY <1>1, <3>1
      <4>3. i + c - 1 = e /\ ~ (x < e)
        BY <1>1, <1>6, <1>12, <4>1, <4>2
      <4> QED BY <1>12, <3>1, <4>3
    <3> QED BY <1>11, <3>1
  <2>2. report' = Append(report \o line, "\n") /\ pc' = "lines"
    <3>1. ~ Contains(line, "=")
      BY <1>11, <2>1, NoEquals
    <3> QED BY <1>9, <3>1 DEF AddLine
  <2>3. report \o line = SubSeq(t, s, x - 1)
    <3>1. /\ s \in 1..Len(t) + 1 /\ c - 1 \in s - 1..Len(t) /\ x - 1 \in c - 1..Len(t)
      BY <1>1, <1>4, <1>6
    <3>2. SubSeq(t, s, c - 1) \o SubSeq(t, c - 1 + 1, x - 1) = SubSeq(t, s, x - 1)
      BY <3>1, ConcatAdjacentSubSeq
    <3> QED BY <1>3, <1>4, <3>2
  <2>4. CASE x <= Len(t)
    <3>1. x < e /\ t[x] = "\n" /\ x \in 1..Len(t) /\ s <= x /\ s \in Nat \ {0}
      BY <1>1, <1>4, <1>6, <1>12, <2>4
    <3>2. Append(SubSeq(t, s, x - 1), t[x]) = SubSeq(t, s, x)
      BY <3>1, LineEndedPart
    <3>3. report' = SubSeq(t, s, x)
      BY <2>2, <2>3, <3>1, <3>2
    <3> DEFINE d == x + 1
    <3>4. d \in l + 1..e /\ d - 1 = x
      BY <1>1, <1>3, <1>4, <1>6, <3>1
    <3>5. rest' = From(t, d)
      BY <1>10
    <3> HIDE DEF d
    <3>6. report' = SubSeq(t, s, d - 1)
      BY <3>3, <3>4
    <3>7. \E k \in l + 1..e : report' = SubSeq(t, s, k - 1) /\ rest' = From(t, k)
      BY <3>4, <3>5, <3>6
    <3> QED BY <1>2, <2>2, <3>7 DEF ReadOn, LinesFit, s, l, e
  <2>5. CASE ~ (x <= Len(t))
    <3>1. t[e] # "=" /\ x - 1 = e /\ x + 1 > Len(t) /\ x + 1 \in Nat
      BY <1>1, <1>6, <1>12, <2>5
    <3>2. report' = Piece(t, w)
      BY <2>2, <2>3, <3>1 DEF Piece, s, e
    <3>3. rest' = <<>>
      BY <1>10, <3>1, NothingBehind
    <3> QED BY <1>2, <2>2, <3>1, <3>2, <3>3 DEF ReadOn, LinesFit, l, e
  <2> QED BY <2>4, <2>5
<1>13. CASE ~ (x < e) /\ t[e] = "="
  <2> DEFINE m == e - c + 1
  <2>1. /\ m \in 1..Len(line) /\ e < x /\ m + c - 1 = e
        /\ \A i \in 1..m : i \in 1..x - 1 - c + 1
        /\ \A i \in 1..m - 1 : i \in 1..m /\ i + c - 1 \in s..e - 1
    BY <1>1, <1>4, <1>6, <1>11, <1>13
  <2>2. SubSeq(line, 1, m) = SubSeq(t, c, e)
    <3>1. /\ c \in 1..Len(t) /\ x - 1 \in 1..Len(t)
          /\ 1 \in 1..x - 1 - c + 1 /\ m \in 1..x - 1 - c + 1
          /\ c + 1 - 1 = c /\ c + m - 1 = e
      BY <1>1, <1>4, <1>6, <2>1
    <3>2. SubSeq(line, 1, m) = SubSeq(t, c + 1 - 1, c + m - 1)
      BY <3>1, SubSeqOfSubSeq
    <3> QED BY <3>1, <3>2
  <2> HIDE DEF m, line
  <2>3. line[m] = "=" /\ \A i \in 1..m - 1 : line[i] # "="
    <3>1. \A i \in 1..m : line[i] = t[i + c - 1]
      BY <1>11, <2>1
    <3>2. m \in 1..m
      BY <1>11, <2>1
    <3>3. line[m] = "="
      BY <1>13, <2>1, <3>1, <3>2
    <3>4. ASSUME NEW i \in 1..m - 1 PROVE line[i] # "="
      <4>1. i \in 1..m /\ i + c - 1 \in s..e - 1
        BY <2>1
      <4> QED BY <1>1, <3>1, <4>1
    <3> QED BY <3>3, <3>4
  <2>4. Contains(line, "=") /\ UpToEquals(line) = SubSeq(t, c, e)
    BY <1>11, <2>1, <2>2, <2>3, EqualsThere
  <2>5. report' = report \o SubSeq(t, c, e) /\ pc' = "take"
    BY <1>9, <2>4 DEF AddLine
  <2>6. report' = Piece(t, w)
    <3>1. s \in 1..Len(t) + 1 /\ c - 1 \in s - 1..Len(t) /\ e \in c - 1..Len(t)
      BY <1>1, <1>4
    <3>2. SubSeq(t, s, c - 1) \o SubSeq(t, c - 1 + 1, e) = SubSeq(t, s, e)
      BY <3>1, ConcatAdjacentSubSeq
    <3>3. report' = SubSeq(t, s, e)
      BY <1>3, <1>4, <2>5, <3>2
    <3> QED BY <1>13, <3>3 DEF Piece, s, e
  <2>7. w.n = x
    <3>1. c \in Nat /\ c <= e /\ e <= x /\ Len(t) \in Nat
      BY <1>1, <1>4, <2>1
    <3>2. x = w.n
      BY <1>1, <1>5, <1>6, <3>1, LineIs
    <3> QED BY <3>2
  <2>8. RestIs(t, w.n + 1)'
    <3>1. \A i \in x + 1..x + 1 - 1 : FALSE
      BY <1>6
    <3> QED BY <1>10, <2>7, <3>1 DEF RestIs, IsBlank
  <2> QED BY <2>5, <2>6, <2>8 DEF ReadOn
<1> QED BY <1>12, <1>13

LEMMA LastLineOfPiece ==
  ASSUME NEW t \in Seq(Token), NEW w, IsLayout(w), NEW a \in Nat \ {0}, IsPiece(t, w, a),
         LinesFit(t, w), rest = <<>>, pc' = "take", rest' = rest, report' = report
  PROVE  ReadOn(t, w)'
<1> DEFINE l == w.l
           e == w.e
<1>1. /\ Len(t) \in Nat /\ l \in Nat /\ e \in Nat /\ w.n \in Nat
      /\ e <= Len(t) /\ e < w.n /\ w.n <= Len(t) + 1
      /\ t[e] # "=" => e = Len(t)
  BY PieceFacts
<1> HIDE DEF l, e
<1>2. ASSUME NEW c \in l + 1..e, rest = From(t, c) PROVE FALSE
  <2>1. c \in 1..Len(t) + 1 /\ c <= Len(t)
    BY <1>1, <1>2
  <2>2. Len(From(t, c)) = Len(t) - c + 1
    BY <2>1, Behind
  <2>3. Len(<<>>) = 0
    OBVIOUS
  <2> QED BY <1>1, <1>2, <2>1, <2>2, <2>3
<1>3. t[e] # "=" /\ report = Piece(t, w)
  BY <1>2 DEF LinesFit, l, e
<1>4. w.n + 1 \in Nat /\ w.n + 1 > Len(t) /\ \A i \in w.n + 1..w.n + 1 - 1 : FALSE
  BY <1>1, <1>3
<1>5. From(t, w.n + 1) = <<>>
  BY <1>4, NothingBehind
<1>6. RestIs(t, w.n + 1)'
  BY <1>4, <1>5 DEF RestIs, IsBlank
<1> QED BY <1>3, <1>6 DEF ReadOn

(* What doSYNOP() and doMETAR() take a piece for: an identifier of n groups *)
(* and behind it the report.                                               *)
LEMMA ReportOfPiece ==
  ASSUME NEW t \in Seq(Token), NEW w, IsLayout(w), NEW a \in Nat \ {0}, IsPiece(t, w, a),
         NEW n \in Nat, GoesOn(t, w.s + n, w.b), w.b <= w.e
  PROVE  /\ Piece(t, w)[1] = t[w.s]
         /\ SubSeq(Piece(t, w), 1, n) = SubSeq(t, w.s, w.s + n - 1)
         /\ n > 0 => SubSeq(t, w.s, w.s + n - 1)[1] = t[w.s]
                      /\ SubSeq(t, w.s, w.s + n - 1) # <<>>
         /\ Trim(From(Piece(t, w), n + 1)) = SubSeq(t, w.b, w.e)
         /\ SubSeq(t, w.b, w.e) # <<>>
<1> DEFINE s == w.s
           e == w.e
           b == w.b
           p == SubSeq(t, s, e)
           r == Piece(t, w)
<1>1. /\ Len(t) \in Nat /\ s \in Nat \ {0} /\ e \in Nat /\ s <= e /\ e <= Len(t)
      /\ t[e] # "\n"
  BY PieceFacts
<1>2. /\ b \in Nat /\ s + n <= b /\ b <= e
      /\ IsBlank(t, s + n, b - 1)
      /\ t[b] # "\n"
  BY <1>1 DEF GoesOn, IsLayout
<1>3. /\ p \in Seq(Token) /\ Len(p) = e - s + 1
      /\ \A m \in 1..e - s + 1 : p[m] = t[m + s - 1]
  <2>1. e \in 0..Len(t) /\ s <= e + 1
    BY <1>1
  <2> QED BY <1>1, <2>1, PartOf, SMTT(20)
<1>4. r = p \/ r = Append(p, "\n")
  BY DEF Piece
<1> HIDE DEF s, e, b, p, r
<1>5. /\ r \in Seq(Token) /\ Len(r) \in {e - s + 1, e - s + 2}
      /\ \A m \in 1..e - s + 1 : r[m] = t[m + s - 1]
      /\ Len(r) = e - s + 2 => r[e - s + 2] = "\n"
  <2>1. CASE r = p
    BY <1>1, <1>3, <2>1
  <2>2. CASE r = Append(p, "\n")
    <3>1. "\n" \in Token
      BY DEF Token
    <3>2. /\ Append(p, "\n") \in Seq(Token) /\ Len(Append(p, "\n")) = Len(p) + 1
          /\ \A m \in 1..Len(p) : Append(p, "\n")[m] = p[m]
          /\ Append(p, "\n")[Len(p) + 1] = "\n"
      BY <1>3, <3>1
    <3>3. Len(p) + 1 = e - s + 2
      BY <1>1, <1>3
    <3> QED BY <1>3, <2>2, <3>2, <3>3
  <2> QED BY <1>4, <2>1, <2>2
<1>6. Len(r) \in Nat /\ e - s + 1 <= Len(r) /\ n <= e - s /\ Len(r) <= e - s + 2
  BY <1>1, <1>2, <1>5
<1>7. r[1] = t[s]
  <2>1. 1 \in 1..e - s + 1 /\ 1 + s - 1 = s
    BY <1>1
  <2> QED BY <1>5, <2>1
<1>8. SubSeq(r, 1, n) = SubSeq(t, s, s + n - 1)
  <2> DEFINE v == SubSeq(r, 1, n)
             x == SubSeq(t, s, s + n - 1)
  <2>1. /\ v \in Seq(Token) /\ Len(v) = n - 1 + 1
        /\ \A m \in 1..n - 1 + 1 : v[m] = r[m + 1 - 1]
    <3>1. 1 \in Nat \ {0} /\ n \in 0..Len(r) /\ 1 <= n + 1
      BY <1>1, <1>6
    <3> QED BY <1>5, <3>1, PartOf
  <2>2. /\ x \in Seq(Token) /\ Len(x) = s + n - 1 - s + 1
        /\ \A m \in 1..s + n - 1 - s + 1 : x[m] = t[m + s - 1]
    <3>1. s + n - 1 \in 0..Len(t) /\ s <= s + n - 1 + 1
      BY <1>1, <1>2
    <3> QED BY <1>1, <3>1, PartOf
  <2> HIDE DEF v, x
  <2>3. Len(v) = n /\ Len(x) = n
    BY <1>1, <2>1, <2>2
  <2>4. ASSUME NEW m \in 1..n PROVE v[m] = x[m]
    <3>1. /\ m \in 1..n - 1 + 1 /\ m + 1 - 1 = m /\ m \in 1..s + n - 1 - s + 1
          /\ m \in 1..e - s + 1
      BY <1>1, <1>6
    <3> QED BY <1>5, <2>1, <2>2, <3>1
  <2>5. v = x
    BY <2>1, <2>2, <2>3, <2>4, SeqEqual
  <2> QED BY <2>5 DEF v, x
<1>9. ASSUME n > 0
      PROVE  SubSeq(t, s, s + n - 1)[1] = t[s] /\ SubSeq(t, s, s + n - 1) # <<>>
  <2> DEFINE x == SubSeq(t, s, s + n - 1)
  <2>1. s + n - 1 \in 0..Len(t) /\ s <= s + n - 1 + 1
    BY <1>1, <1>2
  <2>2. /\ x \in Seq(Token) /\ Len(x) = s + n - 1 - s + 1
        /\ \A m \in 1..s + n - 1 - s + 1 : x[m] = t[m + s - 1]
    BY <1>1, <2>1, PartOf
  <2>3. 1 \in 1..s + n - 1 - s + 1 /\ 1 + s - 1 = s
    BY <1>1, <1>9
  <2>4. Len(<<>>) = 0
    OBVIOUS
  <2> HIDE DEF x
  <2>5. x[1] = t[s]
    BY <2>2, <2>3
  <2>6. Len(x) # 0
    BY <2>2, <2>3
  <2>7. x # <<>>
    BY <2>4, <2>6
  <2> QED BY <2>5, <2>7 DEF x
<1> DEFINE u == From(r, n + 1)
           c == b - s - n + 1
           z == e - s - n + 1
           q == SubSeq(t, b, e)
<1>10. /\ u \in Seq(Token) /\ Len(u) = Len(r) - (n + 1) + 1
       /\ \A j \in 1..Len(r) - (n + 1) + 1 : u[j] = r[j + (n + 1) - 1]
  <2>1. n + 1 \in 1..Len(r) + 1
    BY <1>1, <1>6
  <2> QED BY <1>5, <2>1, Behind
<1>11. /\ c \in 1..Len(u) /\ z \in c..Len(u) /\ Len(u) <= z + 1 /\ Len(u) \in Nat
       /\ Len(u) = Len(r) - n
  <2>1. Len(u) \in Nat /\ Len(u) = Len(r) - n
    BY <1>1, <1>6, <1>10
  <2> HIDE DEF u
  <2>2. c \in Nat \ {0} /\ c <= z /\ z \in Nat
    BY <1>1, <1>2, <1>6
  <2>3. z <= Len(u) /\ Len(u) <= z + 1
    BY <1>1, <1>2, <1>6, <2>1
  <2> QED BY <2>1, <2>2, <2>3
<1> HIDE DEF u
<1>12. ASSUME NEW j \in 1..z PROVE u[j] = t[j + n + s - 1]
  <2>1. /\ j \in 1..Len(r) - (n + 1) + 1 /\ j + (n + 1) - 1 = j + n
        /\ j + n \in 1..e - s + 1 /\ j + n + s - 1 = (j + n) + s - 1
    BY <1>1, <1>2, <1>6
  <2> QED BY <1>5, <1>10, <2>1
<1>13. u[c] # "\n" /\ u[z] # "\n"
  <2>1. c \in 1..z /\ z \in 1..z /\ c + n + s - 1 = b /\ z + n + s - 1 = e
    BY <1>1, <1>2
  <2> QED BY <1>1, <1>2, <1>12, <2>1
<1>14. IsBlank(u, 1, c - 1)
  <2>1. ASSUME NEW j \in 1..c - 1 PROVE u[j] = "\n"
    <3>1. j \in 1..z /\ j + n + s - 1 \in s + n..b - 1
      BY <1>1, <1>2
    <3> QED BY <1>2, <1>12, <3>1 DEF IsBlank
  <2> QED BY <2>1 DEF IsBlank
<1>15. IsBlank(u, z + 1, Len(u))
  <2>1. ASSUME NEW j \in z + 1..Len(u) PROVE u[j] = "\n"
    <3>1. /\ j \in 1..Len(r) - (n + 1) + 1 /\ j + (n + 1) - 1 = e - s + 2
          /\ Len(r) = e - s + 2
      BY <1>1, <1>2, <1>6, <1>11
    <3> QED BY <1>5, <1>10, <3>1
  <2> QED BY <2>1 DEF IsBlank
<1>16. Trim(u) = SubSeq(u, c, z)
  BY <1>10, <1>11, <1>13, <1>14, <1>15, TrimThere
<1>17. /\ q \in Seq(Token) /\ Len(q) = e - b + 1
       /\ \A m \in 1..e - b + 1 : q[m] = t[m + b - 1]
  <2>1. b \in Nat \ {0} /\ e \in 0..Len(t) /\ b <= e + 1
    BY <1>1, <1>2
  <2> QED BY <2>1, PartOf
<1>18. q # <<>>
  <2>1. Len(<<>>) = 0
    OBVIOUS
  <2>2. Len(q) # 0
    BY <1>1, <1>2, <1>17
  <2> HIDE DEF q
  <2> QED BY <2>1, <2>2
<1>19. SubSeq(u, c, z) = q
  <2> DEFINE v == SubSeq(u, c, z)
  <2>1. /\ v \in Seq(Token) /\ Len(v) = z - c + 1
        /\ \A m \in 1..z - c + 1 : v[m] = u[m + c - 1]
    <3>1. c \in Nat \ {0} /\ z \in 0..Len(u) /\ c <= z + 1
      BY <1>1, <1>2, <1>11
    <3> QED BY <1>10, <3>1, PartOf, SMTT(20)
  <2> HIDE DEF v, q
  <2>2. Len(v) = Len(q)
    BY <1>1, <1>2, <1>17, <2>1, SMTT(20)
  <2>3. ASSUME NEW m \in 1..Len(v) PROVE v[m] = q[m]
    <3>1. m \in Nat /\ 1 <= m /\ m <= z - c + 1
      BY <1>1, <1>2, <2>1
    <3>2. m \in 1..z - c + 1 /\ m \in 1..e - b + 1
      BY <1>1, <1>2, <3>1
    <3>3. m + c - 1 \in 1..z /\ (m + c - 1) + n + s - 1 = m + b - 1
      BY <1>1, <1>2, <3>1
    <3> QED BY <1>12, <1>17, <2>1, <3>2, <3>3
  <2>4. v = q
    BY <1>17, <2>1, <2>2, <2>3, SeqEqual
  <2> QED BY <2>4 DEF v
<1> QED BY <1>7, <1>8, <1>9, <1>16, <1>18, <1>19 DEF u, q, r, s, e, b

(***************************************************************************)
(* The reports that have been passed on                                    *)
(***************************************************************************)
LEMMA UnderFinite ==
  ASSUME NEW reports, NEW k, NEW i, NEW n \in Nat
  PROVE  /\ IsFiniteSet(Under(reports, k, i, n))
         /\ Cardinality(Under(reports, k, i, n)) \in Nat
<1>1. IsFiniteSet(1..n)
  BY FS_Interval
<1>2. Under(reports, k, i, n) \in SUBSET (1..n)
  BY DEF Under
<1> QED BY <1>1, <1>2, FS_Subset, FS_CardinalityType

LEMMA UnderNext ==
  ASSUME NEW reports, NEW k, NEW i, NEW n \in Nat
  PROVE  Cardinality(Under(reports, k, i, n + 1)) =
           IF reports[n + 1].kind = k /\ reports[n + 1].ident = i
           THEN Cardinality(Under(reports, k, i, n)) + 1
           ELSE Cardinality(Under(reports, k, i, n))
<1> DEFINE U(m) == Under(reports, k, i, m)
<1>1. CASE reports[n + 1].kind = k /\ reports[n + 1].ident = i
  <2>1. U(n + 1) = U(n) \union {n + 1} /\ n + 1 \notin U(n)
    BY <1>1 DEF Under
  <2> QED BY <1>1, <2>1, UnderFinite, FS_AddElement
<1>2. CASE ~ (reports[n + 1].kind = k /\ reports[n + 1].ident = i)
  <2>1. U(n + 1) = U(n)
    BY <1>2 DEF Under
  <2> QED BY <1>2, <2>1
<1> QED BY <1>1, <1>2

LEMMA UnderWithin ==
  ASSUME NEW reports, NEW k, NEW i, NEW n \in Nat, NEW j \in 1..n,
         reports[j].kind = k, reports[j].ident = i
  PROVE  Cardinality(Under(reports, k, i, j)) \in 1..Cardinality(Under(reports, k, i, n))
<1> DEFINE U(m) == Under(reports, k, i, m)
<1>1. U(j) \in SUBSET U(n) /\ j \in U(j) /\ j \in Nat
  BY DEF Under
<1>2. Cardinality(U(j)) <= Cardinality(U(n))
  BY <1>1, UnderFinite, FS_Subset
<1>3. IsFiniteSet(U(j)) /\ Cardinality(U(j)) \in Nat /\ Cardinality(U(n)) \in Nat
  BY <1>1, UnderFinite
<1>4. Cardinality(U(j)) # 0
  BY <1>1, <1>3, FS_EmptySet
<1> QED BY <1>2, <1>3, <1>4

LEMMA AppendedReport ==
  ASSUME NEW s \in Seq(Text), NEW r \in Text
  PROVE  /\ Len(s) \in Nat /\ Len(Append(s, r)) = Len(s) + 1
         /\ Append(s, r)[Len(s) + 1] = r
         /\ \A j \in 1..Len(s) : Append(s, r)[j] = s[j]
OBVIOUS

LEMMA KeepsNext ==
  ASSUME NEW map, \A x \in DOMAIN map : map[x] \in Seq(Text), NEW reports, NEW k,
         NEW n \in Nat, Keeps(map, reports, k, n), reports[n + 1].kind = k,
         NEW i, reports[n + 1].ident = i, i # <<>>,
         NEW r \in Text, reports[n + 1].text = r
  PROVE  Keeps(Push(map, i, r), reports, k, n + 1)
<1> DEFINE p == Push(map, i, r)
           Card(x, m) == Cardinality(Under(reports, k, x, m))
<1>1. /\ DOMAIN p = DOMAIN map \union {i}
      /\ \A x \in DOMAIN map : x # i => p[x] = map[x]
      /\ i \in DOMAIN map => p[i] = Append(map[i], r)
      /\ i \notin DOMAIN map => p[i] = <<r>>
  BY DEF Push
<1>2. /\ DOMAIN map \ {<<>>} =
           {reports[j].ident : j \in {m \in 1..n : reports[m].kind = k}}
      /\ \A x \in DOMAIN map \ {<<>>} : Len(map[x]) = Card(x, n)
      /\ \A j \in 1..n : reports[j].kind = k =>
           map[reports[j].ident][Card(reports[j].ident, j)] = reports[j].text
  BY DEF Keeps
<1>3. ASSUME NEW x
      PROVE  /\ Card(x, n) \in Nat
             /\ Card(x, n + 1) = IF x = i THEN Card(x, n) + 1 ELSE Card(x, n)
  <2>1. Card(x, n) \in Nat
    BY UnderFinite
  <2>2. Card(x, n + 1) = IF reports[n + 1].kind = k /\ reports[n + 1].ident = x
                         THEN Card(x, n) + 1 ELSE Card(x, n)
    BY UnderNext
  <2> QED BY <2>1, <2>2
<1>4. ASSUME NEW j \in 1..n, reports[j].kind = k
      PROVE  /\ reports[j].ident \in DOMAIN map \ {<<>>}
             /\ Card(reports[j].ident, j) \in 1..Card(reports[j].ident, n)
  <2>1. reports[j].ident \in {reports[m].ident : m \in {l \in 1..n : reports[l].kind = k}}
    BY <1>4
  <2>2. Card(reports[j].ident, j) \in 1..Card(reports[j].ident, n)
    BY <1>4, UnderWithin
  <2> QED BY <1>2, <2>1, <2>2, Zenon
<1>5. i \notin DOMAIN map => Card(i, n) = 0
  <2>1. ASSUME i \notin DOMAIN map PROVE Under(reports, k, i, n) = {}
    <3>1. ASSUME NEW j \in Under(reports, k, i, n) PROVE FALSE
      <4>1. j \in 1..n /\ reports[j].kind = k /\ reports[j].ident = i
        BY <3>1 DEF Under
      <4> QED BY <1>4, <2>1, <4>1
    <3> QED BY <3>1
  <2> QED BY <2>1, FS_EmptySet
<1> HIDE DEF p, Card
<1>6. DOMAIN p \ {<<>>} =
        {reports[j].ident : j \in {m \in 1..n + 1 : reports[m].kind = k}}
  <2>1. {m \in 1..n + 1 : reports[m].kind = k} =
          {m \in 1..n : reports[m].kind = k} \union {n + 1}
    OBVIOUS
  <2>2. {reports[j].ident : j \in {m \in 1..n + 1 : reports[m].kind = k}} =
          {reports[j].ident : j \in {m \in 1..n : reports[m].kind = k}} \union {i}
    BY <2>1, Zenon
  <2> QED BY <1>1, <1>2, <2>2, Zenon
<1>7. i \in DOMAIN map => map[i] \in Seq(Text) /\ Len(map[i]) = Card(i, n)
  BY <1>2
<1>8. Len(p[i]) = Card(i, n) + 1 /\ p[i][Card(i, n) + 1] = r
  <2>1. CASE i \in DOMAIN map
    <3>1. p[i] = Append(map[i], r) /\ map[i] \in Seq(Text) /\ Len(map[i]) = Card(i, n)
      BY <1>1, <1>7, <2>1
    <3>2. /\ Len(Append(map[i], r)) = Len(map[i]) + 1
          /\ Append(map[i], r)[Len(map[i]) + 1] = r
      BY <3>1, AppendedReport
    <3> QED BY <3>1, <3>2
  <2>2. CASE i \notin DOMAIN map
    <3>1. p[i] = <<r>> /\ Card(i, n) = 0
      BY <1>1, <1>5, <2>2
    <3> QED BY <3>1
  <2> QED BY <2>1, <2>2
<1>9. ASSUME NEW x \in DOMAIN p \ {<<>>} PROVE Len(p[x]) = Card(x, n + 1)
  <2>1. CASE x = i
    BY <1>3, <1>8, <2>1
  <2>2. CASE x # i
    BY <1>1, <1>2, <1>3, <1>9, <2>2
  <2> QED BY <2>1, <2>2
<1>10. ASSUME NEW j \in 1..n + 1, reports[j].kind = k
       PROVE  p[reports[j].ident][Card(reports[j].ident, j)] = reports[j].text
  <2>1. CASE j = n + 1
    BY <1>3, <1>8, <2>1
  <2>2. CASE j # n + 1
    <3> DEFINE x == reports[j].ident
               c == Card(x, j)
    <3>1. /\ j \in 1..n /\ x \in DOMAIN map \ {<<>>} /\ c \in 1..Card(x, n)
          /\ map[x][c] = reports[j].text
      <4>1. j \in 1..n
        BY <2>2
      <4> QED BY <1>2, <1>4, <1>10, <4>1
    <3> HIDE DEF x, c
    <3>2. CASE x = i
      <4>1. map[i] \in Seq(Text) /\ c \in 1..Len(map[i]) /\ p[i] = Append(map[i], r)
        BY <1>1, <1>7, <3>1, <3>2
      <4>2. Append(map[i], r)[c] = map[i][c]
        BY <4>1, AppendedReport
      <4> QED BY <3>1, <3>2, <4>1, <4>2 DEF x, c
    <3>3. CASE x # i
      <4>1. p[x] = map[x]
        BY <1>1, <3>1, <3>3
      <4> QED BY <3>1, <4>1 DEF x, c
    <3> QED BY <3>2, <3>3
  <2> QED BY <2>1, <2>2
<1> QED BY <1>6, <1>9, <1>10 DEF Keeps, p, Card

LEMMA KeepsOther ==
  ASSUME NEW map, NEW reports, NEW k, NEW n \in Nat, Keeps(map, reports, k, n),
         reports[n + 1].kind # k
  PROVE  Keeps(map, reports, k, n + 1)
<1>1. {m \in 1..n + 1 : reports[m].kind = k} = {m \in 1..n : reports[m].kind = k}
  OBVIOUS
<1>2. \A x : Cardinality(Under(reports, k, x, n + 1)) = Cardinality(Under(reports, k, x, n))
  BY UnderNext
<1>3. \A j \in 1..n + 1 : reports[j].kind = k => j \in 1..n
  OBVIOUS
<1> QED BY <1>1, <1>2, <1>3 DEF Keeps

LEMMA KeepsSame ==
  ASSUME NEW map, NEW new, NEW reports, NEW k, NEW n \in Nat, Keeps(map, reports, k, n),
         DOMAIN new \ {<<>>} = DOMAIN map \ {<<>>},
         \A x \in DOMAIN map \ {<<>>} : new[x] = map[x]
  PROVE  Keeps(new, reports, k, n)
<1>1. \A j \in 1..n : reports[j].kind = k =>
        reports[j].ident \in {reports[m].ident : m \in {l \in 1..n : reports[l].kind = k}}
  OBVIOUS
<1>2. \A j \in 1..n : reports[j].kind = k => reports[j].ident \in DOMAIN map \ {<<>>}
  BY <1>1, Zenon DEF Keeps
<1> QED BY <1>2 DEF Keeps

LEMMA KeepsNone ==
  ASSUME NEW reports, NEW k
  PROVE  Keeps(<<>>, reports, k, 0)
<1>1. DOMAIN <<>> = {} /\ {m \in 1..0 : reports[m].kind = k} = {}
  OBVIOUS
<1> QED BY <1>1 DEF Keeps

(* What is passed on, or not, behind the first n reports of the file.       *)
LEMMA PassedOnNext ==
  ASSUME DOMAIN raports = Implemented,
         \A k \in Implemented : \A i \in DOMAIN raports[k] : raports[k][i] \in Seq(Text),
         NEW n \in Nat, PassedOn(n), file' = file,
         NEW k \in Implemented, NEW i, NEW r \in Text, i # <<>>,
         file.reports[n + 1] = [kind |-> k, ident |-> i, text |-> r],
         raports' = [raports EXCEPT ![k] = Push(@, i, r)]
  PROVE  /\ PassedOn(n + 1)'
         /\ \A l \in Implemented : <<>> \in DOMAIN raports'[l] => <<>> \in DOMAIN raports[l]
<1>1. \A l \in Implemented :
        raports'[l] = IF l = k THEN Push(raports[k], i, r) ELSE raports[l]
  OBVIOUS
<1>2. /\ file.reports[n + 1].kind = k /\ file.reports[n + 1].ident = i
      /\ file.reports[n + 1].text = r
  OBVIOUS
<1>3. ASSUME NEW l \in Implemented PROVE Keeps(raports'[l], file.reports, l, n + 1)
  <2>1. Keeps(raports[l], file.reports, l, n)
    BY DEF PassedOn
  <2>2. CASE l = k
    <3> DEFINE map == raports[k]
               reports == file.reports
    <3>1. /\ \A x \in DOMAIN map : map[x] \in Seq(Text)
          /\ Keeps(map, reports, k, n)
          /\ reports[n + 1].kind = k /\ reports[n + 1].ident = i /\ reports[n + 1].text = r
      BY <1>2, <2>1, <2>2
    <3>2. PICK m, q : m = map /\ q = reports
      OBVIOUS
    <3> HIDE DEF map, reports
    <3>3. Keeps(Push(m, i, r), q, k, n + 1)
      <4>1. /\ \A x \in DOMAIN m : m[x] \in Seq(Text)
            /\ Keeps(m, q, k, n)
            /\ q[n + 1].kind = k /\ q[n + 1].ident = i /\ q[n + 1].text = r
        BY <3>1, <3>2
      <4> QED BY <4>1, KeepsNext
    <3>4. raports'[l] = Push(m, i, r)
      BY <1>1, <2>2, <3>2 DEF map
    <3> QED BY <2>2, <3>2, <3>3, <3>4 DEF reports
  <2>3. CASE l # k
    <3>1. file.reports[n + 1].kind # l
      BY <1>2, <2>3
    <3>2. Keeps(raports[l], file.reports, l, n + 1)
      BY <2>1, <3>1, KeepsOther
    <3> QED BY <1>1, <2>3, <3>2
  <2> QED BY <2>2, <2>3
<1>4. ASSUME NEW l \in Implemented, <<>> \in DOMAIN raports'[l]
      PROVE  <<>> \in DOMAIN raports[l]
  <2>1. DOMAIN Push(raports[k], i, r) = DOMAIN raports[k] \union {i}
    BY DEF Push
  <2> QED BY <1>1, <1>4, <2>1
<1> QED BY <1>3, <1>4 DEF PassedOn

LEMMA PassedOnSame ==
  ASSUME NEW n \in Nat, PassedOn(n), file' = file,
         \A l \in Implemented :
           /\ DOMAIN raports'[l] \ {<<>>} = DOMAIN raports[l] \ {<<>>}
           /\ \A x \in DOMAIN raports[l] \ {<<>>} : raports'[l][x] = raports[l][x]
  PROVE  PassedOn(n)'
<1>1. ASSUME NEW l \in Implemented PROVE Keeps(raports'[l], file.reports, l, n)
  <2>1. Keeps(raports[l], file.reports, l, n)
    BY DEF PassedOn
  <2> QED BY <2>1, KeepsSame
<1> QED BY <1>1 DEF PassedOn

(* A METAR without identifier. *)
LEMMA PassedOnNoKey ==
  ASSUME DOMAIN raports = Implemented, NEW n \in Nat, PassedOn(n), file' = file,
         NEW k \in Implemented, NEW r,
         raports' = [raports EXCEPT ![k] = Push(@, <<>>, r)]
  PROVE  /\ PassedOn(n)'
         /\ \A l \in Implemented \ {k} :
              <<>> \in DOMAIN raports'[l] => <<>> \in DOMAIN raports[l]
<1>1. \A l \in Implemented :
        raports'[l] = IF l = k THEN Push(raports[k], <<>>, r) ELSE raports[l]
  OBVIOUS
<1> DEFINE p == Push(raports[k], <<>>, r)
<1>2. /\ DOMAIN p = DOMAIN raports[k] \union {<<>>}
      /\ \A x \in DOMAIN raports[k] : x # <<>> => p[x] = raports[k][x]
  BY DEF Push
<1> HIDE DEF p
<1>3. ASSUME NEW l \in Implemented
      PROVE  /\ DOMAIN raports'[l] \ {<<>>} = DOMAIN raports[l] \ {<<>>}
             /\ \A x \in DOMAIN raports[l] \ {<<>>} : raports'[l][x] = raports[l][x]
  <2>1. CASE l = k
    <3>1. raports'[l] = p
      BY <1>1, <2>1 DEF p
    <3> QED BY <1>2, <2>1, <3>1
  <2>2. CASE l # k
    BY <1>1, <2>2
  <2> QED BY <2>1, <2>2
<1>4. PassedOn(n)'
  BY <1>3, PassedOnSame
<1> QED BY <1>1, <1>4

LEMMA PassedOnUnchanged ==
  ASSUME NEW n, PassedOn(n), file' = file, raports' = raports
  PROVE  PassedOn(n)'
BY DEF PassedOn

(* The first line of a piece is there, *)
LEMMA LineInPiece ==
  ASSUME NEW t \in Seq(Token), NEW w, IsLayout(w), NEW a \in Nat \ {0}, IsPiece(t, w, a),
         RestIs(t, a)
  PROVE  SkipEmptyLines(rest).line # <<>>
<1> DEFINE s == w.s
           l == w.l
<1>1. /\ Len(t) \in Nat /\ s \in Nat /\ l \in Nat
      /\ a <= s /\ s <= Len(t) /\ s < l /\ l <= Len(t) + 1
      /\ t[s] # "\n"
      /\ LineEndsAt(t, s, l)
  BY PieceFacts
<1>2. /\ IsBlank(t, a, s - 1)
      /\ \A m \in s..l - 1 : t[m] # "-"
  BY DEF IsPiece, GoesOn
<1> HIDE DEF s, l
<1>3. PICK p \in (a..Len(t) + 1) \union {a} : rest = From(t, p) /\ IsBlank(t, a, p - 1)
  BY DEF RestIs
<1>4. p \in 1..Len(t) /\ s \in p..Len(t) /\ IsBlank(t, p, s - 1)
  <2>1. p \in Nat /\ a <= p
    BY <1>1, <1>3
  <2>2. p <= s
    <3>1. ASSUME s < p PROVE FALSE
      <4>1. s \in a..p - 1
        BY <1>1, <2>1, <3>1
      <4> QED BY <1>1, <1>3, <4>1 DEF IsBlank
    <3> QED BY <1>1, <2>1, <3>1
  <2>3. \A m \in p..s - 1 : m \in a..s - 1
    BY <1>1, <2>1
  <2> QED BY <1>1, <1>2, <2>1, <2>2, <2>3 DEF IsBlank
<1>5. SkipEmptyLines(rest) =
        IF l <= Len(t)
        THEN [line |-> SubSeq(t, s, l - 1), rest |-> SkipLineEnds(From(t, l + 1))]
        ELSE [line |-> Append(From(t, s), Again), rest |-> <<>>]
  BY <1>1, <1>2, <1>3, <1>4, FirstLineThere
<1>6. Len(<<>>) = 0
  OBVIOUS
<1>7. CASE l <= Len(t)
  <2> DEFINE u == SubSeq(t, s, l - 1)
  <2>1. s \in Nat \ {0} /\ l - 1 \in 0..Len(t) /\ s <= l - 1 + 1
    BY <1>1, <1>7
  <2>2. Len(u) = l - 1 - s + 1
    BY <2>1, PartOf
  <2> HIDE DEF u
  <2>3. u # <<>>
    BY <1>1, <1>6, <2>2
  <2>4. SkipEmptyLines(rest) = [line |-> u, rest |-> SkipLineEnds(From(t, l + 1))]
    BY <1>5, <1>7, Zenon DEF u
  <2> QED BY <2>3, <2>4
<1>8. CASE ~ (l <= Len(t))
  <2> DEFINE u == From(t, s)
  <2>1. s \in 1..Len(t) + 1
    BY <1>1
  <2>2. u \in Seq(Token)
    BY <2>1, Behind
  <2> HIDE DEF u
  <2>3. u \in Seq(Token \union {Again}) /\ Again \in Token \union {Again}
    BY <2>2, SeqMonotonic
  <2>4. Append(u, Again) # <<>>
    BY <2>3
  <2>5. SkipEmptyLines(rest) = [line |-> Append(u, Again), rest |-> <<>>]
    BY <1>5, <1>8, Zenon DEF u
  <2> QED BY <2>4, <2>5
<1> QED BY <1>7, <1>8

(* and behind the last piece none.                                         *)
LEMMA NoLineLeft ==
  ASSUME NEW t \in Seq(Token), NEW a \in Nat \ {0}, IsBlank(t, a, Len(t)), RestIs(t, a)
  PROVE  SkipEmptyLines(rest).line = <<>>
<1>1. Len(t) \in Nat
  OBVIOUS
<1>2. PICK p \in (a..Len(t) + 1) \union {a} : rest = From(t, p) /\ IsBlank(t, a, p - 1)
  BY DEF RestIs
<1>3. CASE p <= Len(t) + 1
  <2>1. p \in 1..Len(t) + 1 /\ \A m \in p..Len(t) : m \in a..Len(t)
    BY <1>1, <1>2, <1>3
  <2>2. IsBlank(t, p, Len(t))
    BY <2>1 DEF IsBlank
  <2> QED BY <1>2, <2>1, <2>2, NoLineThere
<1>4. CASE ~ (p <= Len(t) + 1)
  <2>1. p \in Nat /\ p > Len(t) /\ Len(t) + 1 \in Nat /\ Len(t) + 1 > Len(t)
        /\ Len(t) + 1 \in 1..Len(t) + 1 /\ \A m \in Len(t) + 1..Len(t) : FALSE
    BY <1>1, <1>2, <1>4
  <2>2. From(t, p) = <<>> /\ From(t, Len(t) + 1) = <<>>
    BY <2>1, NothingBehind
  <2>3. IsBlank(t, Len(t) + 1, Len(t))
    BY <2>1 DEF IsBlank
  <2>4. SkipEmptyLines(From(t, Len(t) + 1)).line = <<>>
    BY <2>1, <2>3, NoLineThere
  <2> QED BY <1>2, <2>2, <2>4
<1> QED BY <1>3, <1>4

(***************************************************************************)
(* What is known of a well-formed file                                     *)
(***************************************************************************)
LEMMA BulletinFacts ==
  ASSUME NEW f, AreWellFormed(f), f.bulletins \in Seq(Seq(Token)),
         NEW b \in 1..Len(f.bulletins)
  PROVE  /\ f.bulletins[b] \in Seq(Token)
         /\ f.parts[b].s \in Nat /\ f.parts[b].h \in Nat /\ f.parts[b].r \in Nat
         /\ Len(f.parts[b].pieces) \in Nat
         /\ ReportsBefore(f, b) \in Nat
         /\ ReportsBefore(f, b + 1) = f.parts[b].r
         /\ IsWellFormed(f, b)
<1> DEFINE Pieces == Seq([s : Nat, l : Nat, e : Nat, n : Nat, b : Nat, r : Nat,
                          ident : Seq(Token)])
<1>1. /\ f.parts \in Seq([h : Nat, s : Nat, r : Nat, pieces : Pieces])
      /\ Len(f.parts) = Len(f.bulletins)
      /\ IsWellFormed(f, b)
  BY DEF AreWellFormed
<1>2. \A x \in Pieces : Len(x) \in Nat
  OBVIOUS
<1> HIDE DEF Pieces
<1> DEFINE Part == [h : Nat, s : Nat, r : Nat, pieces : Pieces]
<1>3. \A x \in Part : x.s \in Nat /\ x.h \in Nat /\ x.r \in Nat /\ Len(x.pieces) \in Nat
  BY <1>2
<1>4. f.parts \in Seq(Part)
  BY <1>1
<1> HIDE DEF Part
<1>5. \A c \in 1..Len(f.bulletins) : f.parts[c] \in Part
  BY <1>1, <1>4
<1>6. /\ f.parts[b].s \in Nat /\ f.parts[b].h \in Nat /\ f.parts[b].r \in Nat
      /\ Len(f.parts[b].pieces) \in Nat
  BY <1>5, <1>3
<1>7. ReportsBefore(f, b) \in Nat
  <2>1. CASE b = 1
    BY <2>1 DEF ReportsBefore
  <2>2. CASE b # 1
    <3>1. b - 1 \in 1..Len(f.bulletins)
      BY <2>2
    <3>2. f.parts[b - 1].r \in Nat
      BY <1>5, <1>3, <3>1
    <3> QED BY <2>2, <3>2 DEF ReportsBefore
  <2> QED BY <2>1, <2>2
<1>8. ReportsBefore(f, b + 1) = f.parts[b].r
  <2>1. b + 1 # 1 /\ b + 1 - 1 = b
    OBVIOUS
  <2> QED BY <2>1 DEF ReportsBefore
<1> QED BY <1>1, <1>6, <1>7, <1>8, SMTT(20)

LEMMA PieceLayout ==
  ASSUME NEW f, AreWellFormed(f), f.bulletins \in Seq(Seq(Token)),
         NEW b \in 1..Len(f.bulletins), NEW n \in 1..Len(f.parts[b].pieces)
  PROVE  /\ IsLayout(f.parts[b].pieces[n])
         /\ f.parts[b].pieces[n].r \in Nat
         /\ f.parts[b].pieces[n].ident \in Seq(Token)
<1> DEFINE P == [s : Nat, l : Nat, e : Nat, n : Nat, b : Nat, r : Nat,
                 ident : Seq(Token)]
<1>1. /\ f.parts \in Seq([h : Nat, s : Nat, r : Nat, pieces : Seq(P)])
      /\ Len(f.parts) = Len(f.bulletins)
  BY DEF AreWellFormed
<1>2. \A x \in P : /\ x.s \in Nat /\ x.l \in Nat /\ x.e \in Nat /\ x.n \in Nat /\ x.b \in Nat
                   /\ x.r \in Nat /\ x.ident \in Seq(Token)
  OBVIOUS
<1> HIDE DEF P
<1> DEFINE Part == [h : Nat, s : Nat, r : Nat, pieces : Seq(P)]
<1>3. \A x \in Part : x.pieces \in Seq(P)
  OBVIOUS
<1>4. f.parts \in Seq(Part)
  BY <1>1
<1> HIDE DEF Part
<1>5. f.parts[b].pieces \in Seq(P)
  <2>1. f.parts[b] \in Part
    BY <1>1, <1>4
  <2> QED BY <1>3, <2>1
<1>6. f.parts[b].pieces[n] \in P
  BY <1>5
<1> QED BY <1>2, <1>6 DEF IsLayout

(* Of a bulletin whose reports are read.                                    *)
LEMMA ReadBulletin ==
  ASSUME NEW f, AreWellFormed(f), f.bulletins \in Seq(Seq(Token)),
         NEW b \in 1..Len(f.bulletins), IsCollected(KindOf(f.bulletins[b])),
         KindOf(f.bulletins[b]) \in {"SYNOP", "METAR"}
  PROVE  /\ IsHeader(f.bulletins[b], f.parts[b])
         /\ ArePieces(f, b, KindOf(f.bulletins[b]))
<1>1. IsWellFormed(f, b)
  BY BulletinFacts
<1> QED BY <1>1 DEF IsWellFormed, Implemented

LEMMA AfterFacts ==
  ASSUME NEW f, AreWellFormed(f), f.bulletins \in Seq(Seq(Token)),
         NEW b \in 1..Len(f.bulletins), IsHeader(f.bulletins[b], f.parts[b]),
         NEW n \in 0..Len(f.parts[b].pieces)
  PROVE  /\ After(f, b, n).n + 1 \in Nat \ {0}
         /\ After(f, b, n).r \in Nat
<1>1. CASE n = 0
  <2>1. After(f, b, n) =
          [n |-> f.parts[b].s - 1, ident |-> <<>>, r |-> ReportsBefore(f, b)]
    BY <1>1 DEF After
  <2>2. f.parts[b].s \in Nat /\ f.parts[b].h \in Nat /\ ReportsBefore(f, b) \in Nat
    BY BulletinFacts
  <2>3. f.parts[b].h + 1 <= f.parts[b].s /\ f.parts[b].h >= 1
    BY DEF IsHeader, GoesOn
  <2>4. f.parts[b].s - 1 + 1 \in Nat \ {0}
    <3> DEFINE s == f.parts[b].s
               h == f.parts[b].h
    <3>1. s \in Nat /\ h \in Nat /\ h + 1 <= s
      BY <2>2, <2>3
    <3> HIDE DEF s, h
    <3>2. s - 1 + 1 \in Nat \ {0}
      BY <3>1
    <3> QED BY <3>2 DEF s
  <2>5. /\ After(f, b, n).n = f.parts[b].s - 1
        /\ After(f, b, n).r = ReportsBefore(f, b)
    BY <2>1
  <2> QED BY <2>2, <2>4, <2>5
<1>2. CASE n # 0
  <2>1. n \in 1..Len(f.parts[b].pieces) /\ After(f, b, n) = f.parts[b].pieces[n]
    BY <1>2, BulletinFacts DEF After
  <2>2. After(f, b, n).n \in Nat /\ After(f, b, n).r \in Nat
    BY <2>1, PieceLayout DEF IsLayout
  <2> QED BY <2>2
<1> QED BY <1>1, <1>2

(* The piece w of a bulletin stands behind n others.                        *)
IsNext(f, b, n, w) ==
    /\ n \in 0..Len(f.parts[b].pieces) /\ n < Len(f.parts[b].pieces)
    /\ w = f.parts[b].pieces[n + 1]

FollowsOn(f, b, k, n, w) ==
    /\ IsLayout(w) /\ w.r \in Nat
    /\ IsPiece(f.bulletins[b], w, After(f, b, n).n + 1)
    /\ IsHeaded(f.bulletins[b], k, w, After(f, b, n).ident)
    /\ After(f, b, n + 1) = w

LEMMA NextPieceFacts ==
  ASSUME NEW f, AreWellFormed(f), f.bulletins \in Seq(Seq(Token)),
         NEW b \in 1..Len(f.bulletins), NEW k, ArePieces(f, b, k),
         NEW n, NEW w, IsNext(f, b, n, w)
  PROVE  FollowsOn(f, b, k, n, w)
<1>1. /\ Len(f.parts[b].pieces) \in Nat
      /\ n \in 0..Len(f.parts[b].pieces) /\ n < Len(f.parts[b].pieces)
      /\ w = f.parts[b].pieces[n + 1]
  BY BulletinFacts DEF IsNext
<1> DEFINE m == n + 1
<1>2. m \in 1..Len(f.parts[b].pieces) /\ m - 1 = n /\ m # 0
  BY <1>1
<1>3. After(f, b, m) = w
  BY <1>1, <1>2 DEF After
<1> HIDE DEF m
<1>4. w = f.parts[b].pieces[m]
  BY <1>1 DEF m
<1>5. IsLayout(w) /\ w.r \in Nat
  BY <1>2, <1>4, PieceLayout
<1>6. /\ IsPiece(f.bulletins[b], w, After(f, b, m - 1).n + 1)
      /\ IsHeaded(f.bulletins[b], k, w, After(f, b, m - 1).ident)
  BY <1>2, <1>4 DEF ArePieces
<1> QED BY <1>2, <1>3, <1>5, <1>6 DEF m, FollowsOn

(***************************************************************************)
(* Steps within a bulletin                                                 *)
(***************************************************************************)
LEMMA InFacts ==
  ASSUME PInv, pc \in {"do", "lines", "take"}
  PROVE  /\ RInv /\ InBulletin(file)
         /\ file.bulletins \in Seq(Seq(Token))
         /\ bulletin \in 1..Len(file.bulletins)
         /\ DOMAIN raports = Implemented
         /\ kind = KindOf(file.bulletins[bulletin])
         /\ IsCollected(kind)
         /\ \A k \in Implemented \ {kind} : <<>> \notin DOMAIN raports[k]
         /\ pc \in {"lines", "take"} => kind \in {"SYNOP", "METAR"}
         /\ pc = "do" => report = <<>>
<1>1. RInv /\ InBulletin(file) /\ (pc = "do" => report = <<>>)
  BY DEF PInv
<1>2. /\ file.bulletins \in Seq(Seq(Token)) /\ DOMAIN raports = Implemented
      /\ bulletin \in 0..Len(file.bulletins)
      /\ errors \in 0..bulletin /\ errors < bulletin
      /\ Len(file.bulletins) \in Nat
  BY <1>1, InvFacts DEF Kept
<1>3. bulletin \in 1..Len(file.bulletins)
  BY <1>2
<1> QED BY <1>1, <1>2, <1>3 DEF InBulletin

LEMMA ReadingFacts ==
  ASSUME PInv, AreWellFormed(file), pc \in {"do", "lines", "take"},
         kind \in {"SYNOP", "METAR"}
  PROVE  /\ IsHeader(file.bulletins[bulletin], file.parts[bulletin])
         /\ ArePieces(file, bulletin, kind)
         /\ file.bulletins[bulletin] \in Seq(Token)
         /\ Len(file.parts[bulletin].pieces) \in Nat
         /\ \E n \in 0..Len(file.parts[bulletin].pieces) : BehindPieces(file, n)
<1>1. /\ file.bulletins \in Seq(Seq(Token)) /\ bulletin \in 1..Len(file.bulletins)
      /\ kind = KindOf(file.bulletins[bulletin]) /\ IsCollected(kind)
      /\ InBulletin(file)
  BY InFacts
<1>2. /\ IsHeader(file.bulletins[bulletin], file.parts[bulletin])
      /\ ArePieces(file, bulletin, kind)
  BY <1>1, ReadBulletin
<1>3. \E n \in 0..Len(file.parts[bulletin].pieces) : BehindPieces(file, n)
  BY <1>1 DEF InBulletin
<1> QED BY <1>1, <1>2, <1>3, BulletinFacts

(* A step that leaves the first n pieces done.                              *)
LEMMA StillReading ==
  ASSUME PInv, pc \in {"do", "lines", "take"}, kind \in {"SYNOP", "METAR"},
         RInv', file' = file, bulletin' = bulletin, kind' = kind,
         pc' \in {"do", "lines", "take"}, pc' = "do" => report' = <<>>,
         \A k \in Implemented \ {kind} : <<>> \notin DOMAIN raports'[k],
         NEW n \in 0..Len(file.parts[bulletin].pieces), BehindPieces(file, n)'
  PROVE  PInv'
<1>1. kind = KindOf(file.bulletins[bulletin]) /\ IsCollected(kind)
  BY InFacts
<1>2. InBulletin(file)'
  BY <1>1 DEF InBulletin
<1>3. pc' \in {"decode", "do", "done"} => report' = <<>>
  OBVIOUS
<1> QED BY <1>2, <1>3 DEF PInv

LEMMA ReadsOn ==
  ASSUME NEW n, BehindPieces(file, n), n < Len(file.parts[bulletin].pieces),
         UNCHANGED <<file, bulletin, kind, ident, skip, raports>>,
         pc' \in {"lines", "take"},
         ReadOn(file.bulletins[bulletin], file.parts[bulletin].pieces[n + 1])'
  PROVE  BehindPieces(file, n)'
<1>1. PassedOn(After(file, bulletin, n).r)'
  BY PassedOnUnchanged DEF BehindPieces
<1> QED BY <1>1 DEF BehindPieces, ReadOn

LEMMA FirstLineReads ==
  ASSUME PInv, AreWellFormed(file), RInv', FirstLine
  PROVE  PInv'
<1> DEFINE t == file.bulletins[bulletin]
           q == file.parts[bulletin]
<1>1. /\ pc = "do" /\ kind \in {"SYNOP", "METAR"}
      /\ SkipEmptyLines(rest).line # <<>>
      /\ AddLine(SkipEmptyLines(rest).line)
      /\ rest' = SkipEmptyLines(rest).rest
      /\ UNCHANGED <<file, bulletin, kind, ident, skip, raports, errors>>
  BY DEF FirstLine, ReadReport, Function
<1>2. /\ file.bulletins \in Seq(Seq(Token)) /\ bulletin \in 1..Len(file.bulletins)
      /\ report = <<>>
      /\ \A k \in Implemented \ {kind} : <<>> \notin DOMAIN raports[k]
  BY <1>1, InFacts
<1>3. /\ IsHeader(t, q) /\ ArePieces(file, bulletin, kind) /\ t \in Seq(Token)
      /\ Len(q.pieces) \in Nat
      /\ \E n \in 0..Len(q.pieces) : BehindPieces(file, n)
  BY <1>1, ReadingFacts
<1>4. PICK n \in 0..Len(q.pieces) : BehindPieces(file, n)
  BY <1>3
<1> DEFINE a == After(file, bulletin, n).n + 1
<1>5. a \in Nat \ {0} /\ RestIs(t, a)
  <2>1. a \in Nat \ {0}
    BY <1>2, <1>3, AfterFacts
  <2>2. RestIs(t, a)
    BY <1>1, <1>4 DEF BehindPieces
  <2> QED BY <2>1, <2>2
<1>6. n < Len(q.pieces)
  <2>1. ASSUME n = Len(q.pieces) PROVE FALSE
    <3>1. IsBlank(t, a, Len(t))
      BY <1>3, <2>1 DEF ArePieces
    <3> HIDE DEF a, t
    <3> QED BY <1>1, <1>3, <1>5, <3>1, NoLineLeft
  <2> QED BY <1>3, <2>1
<1>7. PICK w : w = q.pieces[n + 1]
  OBVIOUS
<1>8. IsLayout(w) /\ IsPiece(t, w, a)
  <2>1. IsNext(file, bulletin, n, w)
    BY <1>3, <1>6, <1>7 DEF IsNext
  <2>2. FollowsOn(file, bulletin, kind, n, w)
    BY <1>2, <1>3, <2>1, NextPieceFacts
  <2> QED BY <2>2 DEF FollowsOn
<1>9. PICK t0, a0 : t0 = t /\ a0 = a
  OBVIOUS
<1>10. ReadOn(t0, w)'
  BY <1>1, <1>2, <1>3, <1>5, <1>8, <1>9, FirstLineOfPiece
<1>11. ReadOn(t, q.pieces[n + 1])'
  BY <1>1, <1>7, <1>9, <1>10
<1>12. pc' \in {"lines", "take"}
  BY <1>10 DEF ReadOn
<1>13. BehindPieces(file, n)'
  BY <1>1, <1>4, <1>6, <1>11, <1>12, ReadsOn
<1> QED BY <1>1, <1>2, <1>12, <1>13, StillReading

LEMMA NextLineReads ==
  ASSUME PInv, AreWellFormed(file), RInv', NextLine \/ LastLine
  PROVE  PInv'
<1> DEFINE t == file.bulletins[bulletin]
           q == file.parts[bulletin]
<1>1. /\ pc = "lines"
      /\ UNCHANGED <<file, bulletin, kind, ident, skip, raports, errors>>
  BY DEF NextLine, LastLine
<1>2. /\ file.bulletins \in Seq(Seq(Token)) /\ bulletin \in 1..Len(file.bulletins)
      /\ kind \in {"SYNOP", "METAR"}
      /\ \A k \in Implemented \ {kind} : <<>> \notin DOMAIN raports[k]
  BY <1>1, InFacts
<1>3. /\ IsHeader(t, q) /\ ArePieces(file, bulletin, kind) /\ t \in Seq(Token)
      /\ Len(q.pieces) \in Nat
      /\ \E n \in 0..Len(q.pieces) : BehindPieces(file, n)
  BY <1>1, <1>2, ReadingFacts
<1>4. PICK n \in 0..Len(q.pieces) : BehindPieces(file, n)
  BY <1>3
<1> DEFINE a == After(file, bulletin, n).n + 1
<1>5. a \in Nat \ {0}
  BY <1>2, <1>3, AfterFacts
<1>6. n < Len(q.pieces) /\ LinesFit(t, q.pieces[n + 1])
  BY <1>1, <1>4 DEF BehindPieces
<1>7. PICK w : w = q.pieces[n + 1]
  OBVIOUS
<1>8. IsLayout(w) /\ IsPiece(t, w, a)
  <2>1. IsNext(file, bulletin, n, w)
    BY <1>3, <1>6, <1>7 DEF IsNext
  <2>2. FollowsOn(file, bulletin, kind, n, w)
    BY <1>2, <1>3, <2>1, NextPieceFacts
  <2> QED BY <2>2 DEF FollowsOn
<1>9. PICK t0, a0 : t0 = t /\ a0 = a
  OBVIOUS
<1>10. ReadOn(t0, w)'
  <2>1. CASE NextLine
    <3>1. /\ rest # <<>> /\ AddLine(GetLine(rest).line)
          /\ rest' = GetLine(rest).rest
      BY <2>1 DEF NextLine
    <3> QED BY <1>3, <1>5, <1>6, <1>7, <1>8, <1>9, <3>1, NextLineOfPiece
  <2>2. CASE LastLine
    <3>1. rest = <<>> /\ pc' = "take" /\ rest' = rest /\ report' = report
      BY <2>2 DEF LastLine
    <3> QED BY <1>3, <1>5, <1>6, <1>7, <1>8, <1>9, <3>1, LastLineOfPiece
  <2> QED BY <2>1, <2>2
<1>11. ReadOn(t, q.pieces[n + 1])'
  BY <1>1, <1>7, <1>9, <1>10
<1>12. pc' \in {"lines", "take"}
  BY <1>10 DEF ReadOn
<1>13. BehindPieces(file, n)'
  BY <1>1, <1>4, <1>6, <1>11, <1>12, ReadsOn
<1> QED BY <1>1, <1>2, <1>12, <1>13, StillReading

(***************************************************************************)
(* Steps that end a bulletin                                               *)
(***************************************************************************)
LEMMA BulletinEnded ==
  ASSUME RInv', file' = file, bulletin' = bulletin, report' = <<>>, pc' = "decode",
         NEW m, m = ReportsBefore(file, bulletin + 1), PassedOn(m)',
         \A k \in Implemented : <<>> \notin DOMAIN raports'[k]
  PROVE  PInv'
<1>1. PassedOn(ReportsBefore(file, bulletin + 1))'
  OBVIOUS
<1>2. BetweenBulletins(file)'
  BY <1>1 DEF BetweenBulletins
<1> QED BY <1>2 DEF PInv

LEMMA NoReportEnds ==
  ASSUME PInv, AreWellFormed(file), RInv', NoReport
  PROVE  PInv'
<1> DEFINE t == file.bulletins[bulletin]
           q == file.parts[bulletin]
<1>1. /\ pc = "do" /\ kind \in {"SYNOP", "METAR"}
      /\ SkipEmptyLines(rest).line = <<>>
      /\ pc' = "decode"
      /\ raports' = [raports EXCEPT ![kind] = RemoveEmptyKeys(@)]
      /\ UNCHANGED <<file, bulletin, kind, report, ident, skip, errors>>
  BY DEF NoReport, ReadReport, Function
<1>2. /\ file.bulletins \in Seq(Seq(Token)) /\ bulletin \in 1..Len(file.bulletins)
      /\ report = <<>> /\ DOMAIN raports = Implemented
      /\ \A k \in Implemented \ {kind} : <<>> \notin DOMAIN raports[k]
  BY <1>1, InFacts
<1>3. /\ IsHeader(t, q) /\ ArePieces(file, bulletin, kind) /\ t \in Seq(Token)
      /\ Len(q.pieces) \in Nat
      /\ \E n \in 0..Len(q.pieces) : BehindPieces(file, n)
  BY <1>1, ReadingFacts
<1>4. PICK n \in 0..Len(q.pieces) : BehindPieces(file, n)
  BY <1>3
<1> DEFINE a == After(file, bulletin, n).n + 1
<1>5. a \in Nat \ {0} /\ RestIs(t, a)
  <2>1. a \in Nat \ {0}
    BY <1>2, <1>3, AfterFacts
  <2>2. RestIs(t, a)
    BY <1>1, <1>4 DEF BehindPieces
  <2> QED BY <2>1, <2>2
<1>6. n = Len(q.pieces)
  <2>1. ASSUME n < Len(q.pieces) PROVE FALSE
    <3>1. PICK w : w = q.pieces[n + 1]
      OBVIOUS
    <3>2. IsLayout(w) /\ IsPiece(t, w, a)
      <4>1. IsNext(file, bulletin, n, w)
        BY <1>3, <2>1, <3>1 DEF IsNext
      <4>2. FollowsOn(file, bulletin, kind, n, w)
        BY <1>2, <1>3, <4>1, NextPieceFacts
      <4> QED BY <4>2 DEF FollowsOn
    <3> HIDE DEF a, t
    <3> QED BY <1>1, <1>3, <1>5, <3>2, LineInPiece
  <2> QED BY <1>3, <2>1
<1>7. PICK m : m = After(file, bulletin, n).r
  OBVIOUS
<1>8. m \in Nat /\ PassedOn(m) /\ m = ReportsBefore(file, bulletin + 1)
  <2>1. m \in Nat
    BY <1>2, <1>3, <1>7, AfterFacts
  <2>2. PassedOn(m)
    BY <1>4, <1>7 DEF BehindPieces
  <2>3. q.r = m
    BY <1>3, <1>6, <1>7 DEF ArePieces
  <2>4. ReportsBefore(file, bulletin + 1) = q.r
    BY <1>2, BulletinFacts
  <2> QED BY <2>1, <2>2, <2>3, <2>4
<1> DEFINE map == raports[kind]
           new == RemoveEmptyKeys(map)
<1>9. /\ DOMAIN new = DOMAIN map \ {<<>>}
      /\ \A x \in DOMAIN map \ {<<>>} : new[x] = map[x]
  BY DEF RemoveEmptyKeys
<1>10. \A l \in Implemented : raports'[l] = IF l = kind THEN new ELSE raports[l]
  BY <1>1, <1>2
<1> HIDE DEF new
<1>11. ASSUME NEW l \in Implemented
       PROVE  /\ DOMAIN raports'[l] \ {<<>>} = DOMAIN raports[l] \ {<<>>}
              /\ \A x \in DOMAIN raports[l] \ {<<>>} : raports'[l][x] = raports[l][x]
              /\ <<>> \notin DOMAIN raports'[l]
  <2>1. CASE l = kind
    <3>1. raports'[l] = new /\ raports[l] = map
      BY <1>10, <2>1
    <3> HIDE DEF map
    <3> QED BY <1>9, <3>1
  <2>2. CASE l # kind
    <3>1. raports'[l] = raports[l] /\ l \in Implemented \ {kind}
      BY <1>10, <2>2
    <3> QED BY <1>2, <3>1
  <2> QED BY <2>1, <2>2
<1>12. PassedOn(m)'
  BY <1>1, <1>8, <1>11, PassedOnSame
<1> QED BY <1>1, <1>2, <1>8, <1>11, <1>12, BulletinEnded

LEMMA NotImplementedEnds ==
  ASSUME PInv, AreWellFormed(file), RInv', NotImplemented
  PROVE  PInv'
<1>1. /\ pc = "do" /\ kind \in {"TEMP", "PILO"} /\ pc' = "decode"
      /\ UNCHANGED <<file, bulletin, kind, rest, report, ident, skip, raports>>
  BY DEF NotImplemented, Function
<1>2. /\ file.bulletins \in Seq(Seq(Token)) /\ bulletin \in 1..Len(file.bulletins)
      /\ report = <<>> /\ kind = KindOf(file.bulletins[bulletin])
      /\ InBulletin(file)
  BY <1>1, InFacts
<1>3. kind \notin Implemented /\ kind \notin {"SYNOP", "METAR"}
  BY <1>1 DEF Implemented
<1>4. PICK m : m = ReportsBefore(file, bulletin)
  OBVIOUS
<1>5. PassedOn(m) /\ \A k \in Implemented : <<>> \notin DOMAIN raports[k]
  BY <1>2, <1>3, <1>4 DEF InBulletin
<1>6. m = ReportsBefore(file, bulletin + 1)
  <2>1. IsWellFormed(file, bulletin)
    BY <1>2, BulletinFacts
  <2>2. file.parts[bulletin].r = m
    BY <1>2, <1>3, <1>4, <2>1 DEF IsWellFormed
  <2> QED BY <1>2, <2>2, BulletinFacts
<1>7. PassedOn(m)'
  BY <1>1, <1>5, PassedOnUnchanged
<1> QED BY <1>1, <1>2, <1>5, <1>6, <1>7, BulletinEnded

LEMMA DoBufrSurfaceEnds ==
  ASSUME PInv, AreWellFormed(file), RInv', DoBufrSurface
  PROVE  PInv'
<1> DEFINE t == file.bulletins[bulletin]
           q == file.parts[bulletin]
<1>1. /\ pc = "do" /\ kind = "BUFR_SURFACE" /\ pc' = "decode"
      /\ UNCHANGED <<file, bulletin, kind, report, ident, skip>>
      /\ IF rest # <<>> /\ rest[1] = "BUFR"
         THEN raports' = [raports EXCEPT ![kind] = Push(@, <<"BUFR">>, rest)]
         ELSE raports' = raports
  BY DEF DoBufrSurface, Function
<1>2. /\ file.bulletins \in Seq(Seq(Token)) /\ bulletin \in 1..Len(file.bulletins)
      /\ report = <<>> /\ kind = KindOf(t) /\ IsCollected(kind)
      /\ InBulletin(file) /\ RInv
  BY <1>1, InFacts
<1>3. kind \in Implemented /\ kind \notin {"SYNOP", "METAR"}
  BY <1>1 DEF Implemented
<1>4. PICK m : m = ReportsBefore(file, bulletin)
  OBVIOUS
<1>5. /\ PassedOn(m) /\ rest = From(t, q.s)
      /\ \A k \in Implemented : <<>> \notin DOMAIN raports[k]
  BY <1>1, <1>2, <1>3, <1>4 DEF InBulletin
<1>6. /\ t \in Seq(Token) /\ q.s \in Nat /\ q.h \in Nat /\ q.r \in Nat /\ m \in Nat
      /\ ReportsBefore(file, bulletin + 1) = q.r
      /\ IsWellFormed(file, bulletin)
  BY <1>2, <1>4, BulletinFacts
<1>7. /\ IsHeader(t, q)
      /\ IsCounted(file, m, q.r, q.s <= Len(t) /\ t[q.s] = "BUFR",
                   kind, <<"BUFR">>, From(t, q.s))
  BY <1>1, <1>2, <1>3, <1>4, <1>6 DEF IsWellFormed
<1>8. PICK s, u : s = q.s /\ u = t
  OBVIOUS
<1>9. /\ u \in Seq(Token) /\ Len(u) \in Nat /\ s \in Nat /\ 1 <= s /\ s <= Len(u) + 1
      /\ rest = From(u, s)
  <2>1. GoesOn(t, q.h + 1, q.s)
    BY <1>7 DEF IsHeader
  <2>2. q.h + 1 <= s /\ s <= Len(u) + 1
    BY <1>8, <2>1 DEF GoesOn
  <2>3. 1 <= s
    <3>1. PICK h : h = q.h
      OBVIOUS
    <3>2. h \in Nat /\ h + 1 <= s /\ s \in Nat
      BY <1>6, <1>8, <2>2, <3>1
    <3> QED BY <3>2
  <2> QED BY <1>5, <1>6, <1>8, <2>2, <2>3
<1>10. /\ rest \in Seq(Token) /\ rest \in Text
       /\ (rest # <<>> /\ rest[1] = "BUFR") <=> (s <= Len(u) /\ u[s] = "BUFR")
  <2>1. /\ rest \in Seq(Token) /\ Len(rest) = Len(u) - s + 1
        /\ \A j \in 1..Len(u) - s + 1 : rest[j] = u[j + s - 1]
    <3>1. s \in 1..Len(u) + 1
      BY <1>9
    <3> QED BY <1>9, <3>1, Behind
  <2>2. rest \in Text
    BY <2>1, SeqMonotonic DEF Text
  <2>3. CASE s <= Len(u)
    <3>1. 1 \in 1..Len(u) - s + 1 /\ 1 + s - 1 = s /\ Len(rest) # 0
      BY <1>9, <2>1, <2>3
    <3>2. rest[1] = u[s] /\ rest # <<>>
      BY <2>1, <3>1
    <3> QED BY <2>1, <2>2, <2>3, <3>2
  <2>4. CASE ~ (s <= Len(u))
    <3>1. Len(rest) = 0
      BY <1>9, <2>1, <2>4
    <3>2. rest = <<>>
      BY <2>1, <3>1
    <3> QED BY <2>1, <2>2, <2>4, <3>2
  <2> QED BY <2>3, <2>4
<1>11. PICK r : r = q.r
  OBVIOUS
<1>12. PassedOn(r)' /\ \A k \in Implemented : <<>> \notin DOMAIN raports'[k]
  <2>1. CASE rest # <<>> /\ rest[1] = "BUFR"
    <3>1. PICK k, x : k = kind /\ x = rest
      OBVIOUS
    <3>2. /\ r = m + 1
          /\ file.reports[m + 1] = [kind |-> k, ident |-> <<"BUFR">>, text |-> x]
      BY <1>7, <1>8, <1>9, <1>10, <1>11, <2>1, <3>1 DEF IsCounted
    <3>3. raports' = [raports EXCEPT ![k] = Push(@, <<"BUFR">>, x)]
      BY <1>1, <2>1, <3>1
    <3>4. /\ DOMAIN raports = Implemented
          /\ \A l \in Implemented : \A i \in DOMAIN raports[l] : raports[l][i] \in Seq(Text)
      BY <1>2, KeptOfInv DEF Kept
    <3>5. x \in Text /\ k \in Implemented /\ <<"BUFR">> # <<>>
      BY <1>3, <1>10, <3>1
    <3>6. /\ PassedOn(m + 1)'
          /\ \A l \in Implemented : <<>> \in DOMAIN raports'[l] => <<>> \in DOMAIN raports[l]
      BY <1>1, <1>5, <1>6, <3>2, <3>3, <3>4, <3>5, PassedOnNext
    <3> QED BY <1>5, <3>2, <3>6
  <2>2. CASE ~ (rest # <<>> /\ rest[1] = "BUFR")
    <3>1. r = m
      BY <1>7, <1>8, <1>10, <1>11, <2>2 DEF IsCounted
    <3>2. raports' = raports
      BY <1>1, <2>2
    <3>3. PassedOn(m)'
      BY <1>1, <1>5, <3>2, PassedOnUnchanged
    <3> QED BY <1>5, <3>1, <3>2, <3>3
  <2> QED BY <2>1, <2>2
<1> QED BY <1>1, <1>2, <1>6, <1>11, <1>12, BulletinEnded

(***************************************************************************)
(* Steps of doSYNOP() and doMETAR()                                        *)
(***************************************************************************)
IdentOf(k, r) == IF k = "SYNOP" THEN SynopIdent(r) ELSE MetarIdent(r)

(* A piece is taken for what it is made up of.                              *)
LEMMA PieceTaken ==
  ASSUME NEW t \in Seq(Token), NEW w, IsLayout(w), NEW a \in Nat \ {0}, IsPiece(t, w, a),
         NEW k, NEW before, IsHeaded(t, k, w, before),
         NEW r \in Text, r # <<>>, r = Piece(t, w)
  PROVE  /\ IdentOf(k, r) \in 0..Len(r)
         /\ w.ident = IF IdentOf(k, r) > 0 THEN SubSeq(r, 1, IdentOf(k, r)) ELSE before
         /\ IdentOf(k, r) > 0 => w.ident # <<>> /\ w.ident[1] = r[1]
         /\ Trim(From(r, IdentOf(k, r) + 1)) = SubSeq(t, w.b, w.e)
         /\ SubSeq(t, w.b, w.e) # <<>>
         /\ SubSeq(t, w.b, w.e) \in Text
<1>1. PICK n : n = IdentOf(k, r)
  OBVIOUS
<1>2. n \in 0..Len(r) /\ n \in Nat
  <2>1. n \in 0..Len(r)
    BY <1>1, SynopIdentFits, MetarIdentFits DEF IdentOf
  <2>2. Len(r) \in Nat
    BY DEF Text
  <2> QED BY <2>1, <2>2
<1>3. /\ w.ident = IF n = 0 THEN before ELSE SubSeq(t, w.s, w.s + n - 1)
      /\ w.b <= w.e /\ GoesOn(t, w.s + n, w.b)
  BY <1>1 DEF IsHeaded, IdentOf
<1>4. /\ r[1] = t[w.s]
      /\ SubSeq(r, 1, n) = SubSeq(t, w.s, w.s + n - 1)
      /\ n > 0 => SubSeq(t, w.s, w.s + n - 1)[1] = t[w.s]
                   /\ SubSeq(t, w.s, w.s + n - 1) # <<>>
      /\ Trim(From(r, n + 1)) = SubSeq(t, w.b, w.e)
      /\ SubSeq(t, w.b, w.e) # <<>>
  BY <1>2, <1>3, ReportOfPiece
<1>5. SubSeq(t, w.b, w.e) \in Text
  <2>1. w.b \in Nat \ {0} /\ w.e \in 0..Len(t) /\ w.b <= w.e + 1
    <3>1. /\ Len(t) \in Nat /\ w.s \in Nat \ {0} /\ w.e \in Nat /\ w.e <= Len(t)
          /\ w.s + n <= w.b /\ w.b \in Nat
      BY <1>3, PieceFacts DEF GoesOn, IsLayout
    <3> QED BY <1>2, <1>3, <3>1
  <2>2. SubSeq(t, w.b, w.e) \in Seq(Token)
    BY <2>1, PartOf
  <2> QED BY <2>2, SeqMonotonic DEF Text
<1>6. n = 0 \/ n > 0
  BY <1>2
<1>7. w.ident = IF n > 0 THEN SubSeq(r, 1, n) ELSE before
  <2>1. CASE n = 0
    <3>1. ~ (n > 0)
      BY <2>1
    <3> QED BY <1>3, <2>1, <3>1, Zenon
  <2>2. CASE n > 0
    <3>1. n # 0
      BY <2>2
    <3> QED BY <1>3, <1>4, <2>2, <3>1, Zenon
  <2> QED BY <1>6, <2>1, <2>2
<1> QED BY <1>1, <1>2, <1>3, <1>4, <1>5, <1>7

(* The piece is done, and what doSYNOP() or doMETAR() makes of it is right. *)
LEMMA PieceDone ==
  ASSUME NEW n \in Nat, NEW w, After(file, bulletin, n + 1) = w,
         UNCHANGED <<file, bulletin, kind>>, pc' = "do",
         ident' = w.ident, skip' = IsMobile(kind, w.ident), PassedOn(w.r)',
         RestIs(file.bulletins[bulletin], w.n + 1)'
  PROVE  BehindPieces(file, n + 1)'
BY DEF BehindPieces

LEMMA TakesReport ==
  ASSUME PInv, AreWellFormed(file), RInv', kind \in {"SYNOP", "METAR"},
         DoSynop \/ DoMetar
  PROVE  PInv'
<1> DEFINE t == file.bulletins[bulletin]
           q == file.parts[bulletin]
<1>1. PICK c : c = IdentOf(kind, report)
  OBVIOUS
<1>2. /\ pc = "take" /\ pc' = "do" /\ report' = <<>>
      /\ ident' = IF c > 0 THEN SubSeq(report, 1, c) ELSE ident
      /\ UNCHANGED <<file, bulletin, kind, rest, errors>>
  BY <1>1 DEF DoSynop, DoMetar, TakeReport, IdentOf
<1>3. /\ file.bulletins \in Seq(Seq(Token)) /\ bulletin \in 1..Len(file.bulletins)
      /\ DOMAIN raports = Implemented /\ RInv
      /\ \A k \in Implemented \ {kind} : <<>> \notin DOMAIN raports[k]
  BY <1>2, InFacts
<1>4. /\ IsHeader(t, q) /\ ArePieces(file, bulletin, kind) /\ t \in Seq(Token)
      /\ Len(q.pieces) \in Nat
      /\ \E n \in 0..Len(q.pieces) : BehindPieces(file, n)
  BY <1>2, ReadingFacts
<1>5. PICK n \in 0..Len(q.pieces) : BehindPieces(file, n)
  BY <1>4
<1>6. PICK w, v : w = q.pieces[n + 1] /\ v = After(file, bulletin, n)
  OBVIOUS
<1>7. /\ n < Len(q.pieces) /\ report = Piece(t, w) /\ RestIs(t, w.n + 1)
      /\ PassedOn(v.r) /\ ident = v.ident /\ skip = IsMobile(kind, v.ident)
  BY <1>2, <1>5, <1>6 DEF BehindPieces
<1>8. v.n + 1 \in Nat \ {0} /\ v.r \in Nat
  BY <1>3, <1>4, <1>6, AfterFacts
<1>9. PICK x, t0 : x = SubSeq(t0, w.b, w.e) /\ t0 = t
  OBVIOUS
<1>10. /\ IsLayout(w) /\ IsPiece(t0, w, v.n + 1) /\ IsHeaded(t0, kind, w, v.ident)
       /\ After(file, bulletin, n + 1) = w
  <2>1. IsNext(file, bulletin, n, w)
    BY <1>6, <1>7 DEF IsNext
  <2>2. FollowsOn(file, bulletin, kind, n, w)
    BY <1>3, <1>4, <2>1, NextPieceFacts
  <2> QED BY <1>6, <1>9, <2>2 DEF FollowsOn
<1>11. report \in Text /\ report # <<>>
  BY <1>2, <1>3, InvFacts
<1>12. PICK k, r, i : k = kind /\ r = report /\ i = w.ident
  OBVIOUS
<1>13. /\ c \in 0..Len(r)
       /\ i = IF c > 0 THEN SubSeq(r, 1, c) ELSE v.ident
       /\ c > 0 => i # <<>> /\ i[1] = r[1]
       /\ Trim(From(r, c + 1)) = x /\ x # <<>> /\ x \in Text
  <2>1. /\ t0 \in Seq(Token) /\ IsLayout(w) /\ v.n + 1 \in Nat \ {0}
        /\ IsPiece(t0, w, v.n + 1) /\ IsHeaded(t0, k, w, v.ident)
        /\ r \in Text /\ r # <<>> /\ r = Piece(t0, w) /\ c = IdentOf(k, r)
    BY <1>1, <1>4, <1>7, <1>8, <1>9, <1>10, <1>11, <1>12
  <2> QED BY <1>9, <1>12, <2>1, PieceTaken
<1>14. ident' = i
  BY <1>2, <1>7, <1>12, <1>13
<1>15. skip' = IsMobile(kind, i)
  <2>1. CASE DoSynop
    <3>1. kind = "SYNOP" /\ skip' = IF c > 0 THEN report[1] = "OOXX" ELSE skip
      BY <1>1, <2>1 DEF DoSynop, IdentOf
    <3> QED BY <1>7, <1>12, <1>13, <3>1 DEF IsMobile
  <2>2. CASE DoMetar
    <3>1. kind = "METAR" /\ skip' = skip
      BY <2>2 DEF DoMetar
    <3> QED BY <1>7, <3>1 DEF IsMobile
  <2> QED BY <2>1, <2>2
<1>16. /\ IsReport(k, i, x) => i # <<>> /\ raports' = [raports EXCEPT ![k] = Push(@, i, x)]
       /\ ~ IsReport(k, i, x) => \/ raports' = raports
                                 \/ raports' = [raports EXCEPT ![k] = Push(@, <<>>, x)]
  <2>1. CASE DoSynop
    <3>1. /\ kind = "SYNOP"
          /\ raports' = IF x = <<>> \/ skip' \/ ident' = <<>> \/ IsNil(x) THEN raports
                        ELSE [raports EXCEPT ![kind] = Push(@, ident', x)]
      BY <1>1, <1>12, <1>13, <2>1 DEF DoSynop, IdentOf
    <3>2. /\ k = "SYNOP"
          /\ raports' = IF x = <<>> \/ IsMobile(k, i) \/ i = <<>> \/ IsNil(x) THEN raports
                        ELSE [raports EXCEPT ![k] = Push(@, i, x)]
      BY <1>12, <1>14, <1>15, <3>1
    <3>3. IsReport(k, i, x) <=> i # <<>> /\ ~ IsMobile(k, i) /\ ~ IsNil(x)
      BY <3>2, Zenon DEF IsReport
    <3> QED BY <1>13, <3>2, <3>3, Zenon
  <2>2. CASE DoMetar
    <3>1. /\ kind = "METAR"
          /\ raports' = IF x = <<>> THEN raports
                        ELSE [raports EXCEPT ![kind] = Push(@, ident', x)]
      BY <1>1, <1>12, <1>13, <2>2 DEF DoMetar, IdentOf
    <3>2. k = "METAR" /\ raports' = [raports EXCEPT ![k] = Push(@, i, x)]
      BY <1>12, <1>13, <1>14, <3>1
    <3>3. k # "SYNOP"
      BY <3>2
    <3>4. IsReport(k, i, x) <=> i # <<>>
      BY <3>3, Zenon DEF IsReport, IsMobile
    <3> QED BY <3>2, <3>4, Zenon
  <2> QED BY <2>1, <2>2
<1>17. /\ IsReport(k, i, x) =>
            /\ w.r = v.r + 1
            /\ file.reports[w.r] = [kind |-> k, ident |-> i, text |-> x]
       /\ ~ IsReport(k, i, x) => w.r = v.r
  <2>1. PICK f, b, j : f = file /\ b = bulletin /\ j = n + 1
    OBVIOUS
  <2>2. j \in 1..Len(q.pieces) /\ j - 1 = n
    <3>1. PICK z : z = Len(q.pieces)
      OBVIOUS
    <3>2. z \in Nat /\ n \in 0..z /\ n < z
      BY <1>4, <1>7, <3>1
    <3>3. j \in 1..z /\ j - 1 = n
      BY <2>1, <3>2
    <3> QED BY <3>1, <3>3
  <2>3. /\ ArePieces(f, b, k)
        /\ j \in 1..Len(f.parts[b].pieces) /\ j - 1 = n
        /\ w = f.parts[b].pieces[j] /\ v = After(f, b, n)
        /\ x = SubSeq(f.bulletins[b], w.b, w.e)
    BY <1>4, <1>6, <1>9, <1>12, <2>1, <2>2
  <2>4. IF IsReport(k, w.ident, x)
        THEN /\ w.r = v.r + 1
             /\ f.reports[w.r] = [kind |-> k, ident |-> w.ident, text |-> x]
        ELSE w.r = v.r
    BY <2>3 DEF ArePieces, IsCounted
  <2> QED BY <1>12, <2>1, <2>4
<1>18. /\ \A l \in Implemented : \A j \in DOMAIN raports[l] : raports[l][j] \in Seq(Text)
       /\ k \in Implemented
  BY <1>3, <1>12, KeptOfInv DEF Kept, Implemented
<1>19. PICK m, z : m = v.r /\ z = w.r
  OBVIOUS
<1>20. /\ PassedOn(z)'
       /\ \A l \in Implemented \ {k} :
            <<>> \in DOMAIN raports'[l] => <<>> \in DOMAIN raports[l]
  <2>1. PassedOn(m) /\ m \in Nat
    BY <1>7, <1>8, <1>19
  <2>2. CASE IsReport(k, i, x)
    <3>1. /\ z = m + 1
          /\ file.reports[m + 1] = [kind |-> k, ident |-> i, text |-> x]
      BY <1>19, <1>17, <2>2
    <3>2. i # <<>> /\ raports' = [raports EXCEPT ![k] = Push(@, i, x)]
      BY <1>16, <2>2
    <3>3. /\ PassedOn(m + 1)'
          /\ \A l \in Implemented : <<>> \in DOMAIN raports'[l] => <<>> \in DOMAIN raports[l]
      BY <1>2, <1>3, <1>13, <1>18, <2>1, <3>1, <3>2, PassedOnNext
    <3> QED BY <3>1, <3>3
  <2>3. CASE ~ IsReport(k, i, x)
    <3>1. z = m
      BY <1>19, <1>17, <2>3
    <3>2. CASE raports' = raports
      <4>1. PassedOn(m)'
        BY <1>2, <2>1, <3>2, PassedOnUnchanged
      <4> QED BY <3>1, <3>2, <4>1
    <3>3. CASE raports' = [raports EXCEPT ![k] = Push(@, <<>>, x)]
      <4>1. PassedOn(m)' /\ \A l \in Implemented \ {k} :
                                <<>> \in DOMAIN raports'[l] => <<>> \in DOMAIN raports[l]
        BY <1>2, <1>3, <1>18, <2>1, <3>3, PassedOnNoKey
      <4> QED BY <3>1, <4>1
    <3> QED BY <1>16, <2>3, <3>2, <3>3
  <2> QED BY <2>2, <2>3
<1>21. RestIs(t, w.n + 1)'
  BY <1>2, <1>7 DEF RestIs
<1>22. BehindPieces(file, n + 1)'
  <2>1. PassedOn(w.r)'
    BY <1>19, <1>20
  <2>2. n \in Nat
    BY <1>4
  <2> QED BY <1>2, <1>10, <1>12, <1>14, <1>15, <1>21, <2>1, <2>2, PieceDone
<1>23. PICK j : j = n + 1
  OBVIOUS
<1>24. j \in 0..Len(q.pieces)
  BY <1>4, <1>7, <1>23
<1>25. BehindPieces(file, j)'
  BY <1>22, <1>23
<1>26. \A l \in Implemented \ {kind} : <<>> \notin DOMAIN raports'[l]
  BY <1>3, <1>12, <1>20
<1> QED BY <1>2, <1>24, <1>25, <1>26, StillReading

(***************************************************************************)
(* Steps between bulletins                                                 *)
(***************************************************************************)
LEMMA HeaderTaken ==
  ASSUME NEW t \in Seq(Token), NEW q, q.h \in Nat, q.s \in Nat, IsHeader(t, q)
  PROVE  SkipEmptyLines(t).rest = From(t, q.s)
<1> PICK h, s : h = q.h /\ s = q.s
  OBVIOUS
<1>1. /\ Len(t) \in Nat /\ h \in Nat /\ s \in Nat /\ h >= 1 /\ h < Len(t)
      /\ \A m \in 1..h : t[m] # "\n" /\ t[m] # "-"
      /\ t[h + 1] = "\n"
      /\ h + 1 <= s /\ s <= Len(t) + 1
      /\ IsBlank(t, h + 1, s - 1)
      /\ s <= Len(t) => t[s] # "\n"
  BY DEF IsHeader, GoesOn
<1>2. h + 2 <= s
  <2>1. ASSUME s = h + 1 PROVE FALSE
    BY <1>1, <2>1
  <2> QED BY <1>1, <2>1
<1>3. PICK l : l = h + 1
  OBVIOUS
<1>4. /\ l \in Nat /\ l <= Len(t) /\ 1 \in 1..Len(t) /\ l + 1 \in 1..Len(t) + 1
      /\ l + 1 <= s /\ t[l] = "\n" /\ l - 1 = h
  <2>1. h >= 1 /\ h < Len(t) /\ h \in Nat /\ Len(t) \in Nat /\ s \in Nat /\ t[h + 1] = "\n"
    BY <1>1
  <2>2. t[l] = "\n"
    BY <1>3, <2>1
  <2> QED BY <1>2, <1>3, <2>1, <2>2
<1>5. LineEndsAt(t, 1, l) /\ \A m \in 1..l - 1 : t[m] # "-"
  BY <1>1, <1>4 DEF LineEndsAt
<1>6. IsBlank(t, 1, 1 - 1) /\ t[1] # "\n"
  <2>1. 1 \in 1..h /\ \A m \in 1..1 - 1 : FALSE
    BY <1>1
  <2> QED BY <1>1, <2>1 DEF IsBlank
<1>7. SkipEmptyLines(From(t, 1)) =
        IF l <= Len(t)
        THEN [line |-> SubSeq(t, 1, l - 1), rest |-> SkipLineEnds(From(t, l + 1))]
        ELSE [line |-> Append(From(t, 1), Again), rest |-> <<>>]
  <2>1. 1 \in 1..Len(t) /\ 1 \in 1..Len(t) /\ l \in Nat
    BY <1>4
  <2> QED BY <1>5, <1>6, <2>1, FirstLineThere
<1>8. From(t, 1) = t
  BY SubSeqFull DEF From
<1>9. SkipEmptyLines(t) = [line |-> SubSeq(t, 1, l - 1), rest |-> SkipLineEnds(From(t, l + 1))]
  BY <1>4, <1>7, <1>8, Zenon
<1>10. SkipEmptyLines(t).rest = SkipLineEnds(From(t, l + 1))
  BY <1>9
<1>11. IsBlank(t, l + 1, s - 1)
  <2>1. \A m \in l + 1..s - 1 : m \in h + 1..s - 1
    BY <1>1, <1>3
  <2> QED BY <1>1, <2>1 DEF IsBlank
<1>12. CASE s <= Len(t)
  <2>1. l + 1 \in 1..Len(t) /\ s \in l + 1..Len(t) /\ t[s] # "\n"
    BY <1>1, <1>4, <1>12
  <2>2. SkipLineEnds(From(t, l + 1)) = From(t, s)
    BY <1>11, <2>1, SkipThere
  <2> QED BY <1>10, <2>2
<1>13. CASE ~ (s <= Len(t))
  <2>1. s - 1 = Len(t) /\ s > Len(t)
    BY <1>1, <1>13
  <2>2. SkipLineEnds(From(t, l + 1)) = <<>>
    BY <1>4, <1>11, <2>1, SkipAll
  <2>3. From(t, s) = <<>>
    BY <1>1, <2>1, NothingBehind
  <2> QED BY <1>10, <2>2, <2>3
<1> QED BY <1>12, <1>13

(* A bulletin of which nothing is read yet.                                 *)
LEMMA NothingRead ==
  ASSUME NEW b, bulletin' = b, kind' \in {"SYNOP", "METAR"}, file' = file, pc' = "do",
         ident' = <<>>, skip' = FALSE,
         NEW m, m = ReportsBefore(file, b), PassedOn(m)',
         NEW s \in Nat, s = file.parts[b].s, NEW t, t = file.bulletins[b],
         rest' = From(t, s)
  PROVE  BehindPieces(file, 0)'
<1>1. After(file, bulletin, 0)' = [n |-> s - 1, ident |-> <<>>, r |-> m]
  BY DEF After
<1>2. /\ After(file, bulletin, 0)'.n + 1 = s /\ After(file, bulletin, 0)'.ident = <<>>
      /\ After(file, bulletin, 0)'.r = m
  <2>1. s - 1 + 1 = s
    OBVIOUS
  <2> QED BY <1>1, <2>1
<1>3. RestIs(t, s)'
  <2>1. \A i \in s..s - 1 : FALSE
    OBVIOUS
  <2> QED BY <2>1 DEF RestIs, IsBlank
<1>4. (skip = IsMobile(kind, <<>>))'
  BY DEF IsMobile
<1>5. PassedOn(After(file, bulletin, 0).r)'
  BY <1>2
<1>6. RestIs(file.bulletins[bulletin], After(file, bulletin, 0).n + 1)'
  BY <1>2, <1>3
<1> QED BY <1>2, <1>4, <1>5, <1>6 DEF BehindPieces

LEMMA TakesBulletin ==
  ASSUME PInv, AreWellFormed(file), RInv', TakeBulletin
  PROVE  PInv'
<1> PICK b : b = bulletin + 1
  OBVIOUS
<1> PICK t, q : t = file.bulletins[b] /\ q = file.parts[b]
  OBVIOUS
<1>1. /\ pc = "decode" /\ bulletin < Len(file.bulletins) /\ bulletin' = b
      /\ file' = file /\ report' = report /\ raports' = raports
      /\ rest' = SkipEmptyLines(t).rest
      /\ kind' = KindOf(t)
      /\ pc' = IF IsCollected(KindOf(t)) THEN "do" ELSE "decode"
      /\ ident' = <<>> /\ skip' = FALSE
  BY DEF TakeBulletin, Dispatch, KindOf
<1>2. /\ RInv /\ report = <<>>
      /\ BetweenBulletins(file)
  BY <1>1 DEF PInv
<1>3. /\ file.bulletins \in Seq(Seq(Token)) /\ b \in 1..Len(file.bulletins)
  BY <1>1, <1>2, InvFacts
<1>4. PICK m : m = ReportsBefore(file, b)
  OBVIOUS
<1>5. /\ PassedOn(m) /\ \A k \in Implemented : <<>> \notin DOMAIN raports[k]
  BY <1>2, <1>4 DEF BetweenBulletins
<1>6. PassedOn(m)' /\ \A k \in Implemented : <<>> \notin DOMAIN raports'[k]
  BY <1>1, <1>5, PassedOnUnchanged
<1>7. /\ t \in Seq(Token) /\ q.s \in Nat /\ q.h \in Nat
      /\ ReportsBefore(file, b + 1) = q.r
      /\ IsWellFormed(file, b)
  BY <1>3, BulletinFacts
<1>8. CASE ~ IsCollected(KindOf(t))
  <2>1. q.r = m
    BY <1>4, <1>7, <1>8 DEF IsWellFormed
  <2>2. pc' = "decode"
    BY <1>1, <1>8
  <2>3. PassedOn(ReportsBefore(file, bulletin + 1))'
    BY <1>1, <1>6, <1>7, <2>1
  <2>4. BetweenBulletins(file)'
    BY <1>6, <2>2, <2>3 DEF BetweenBulletins
  <2> QED BY <1>1, <1>2, <2>2, <2>4 DEF PInv
<1>9. CASE IsCollected(KindOf(t))
  <2>1. pc' = "do"
    BY <1>1, <1>9
  <2>2. ASSUME KindOf(t) \in Implemented PROVE rest' = From(t, q.s)
    <3>1. IsHeader(t, q)
      BY <1>7, <1>9, <2>2 DEF IsWellFormed
    <3> QED BY <1>1, <1>7, <3>1, HeaderTaken
  <2>3. ASSUME KindOf(t) \in {"SYNOP", "METAR"} PROVE BehindPieces(file, 0)'
    <3>1. rest' = From(t, q.s)
      BY <2>2, <2>3 DEF Implemented
    <3> QED BY <1>1, <1>4, <1>6, <1>7, <2>1, <2>3, <3>1, NothingRead
  <2>4. InBulletin(file)'
    <3>1. (kind = KindOf(file.bulletins[bulletin]) /\ IsCollected(kind))'
      BY <1>1, <1>9
    <3>2. CASE kind' \in {"SYNOP", "METAR"}
      <4>1. BehindPieces(file, 0)'
        BY <1>1, <2>3, <3>2
      <4>2. 0 \in 0..Len(q.pieces)
        BY <1>3, BulletinFacts
      <4>3. (\E n \in 0..Len(file.parts[bulletin].pieces) : BehindPieces(file, n))'
        BY <1>1, <4>1, <4>2
      <4> QED BY <1>6, <3>1, <3>2, <4>3 DEF InBulletin
    <3>3. CASE kind' \notin {"SYNOP", "METAR"}
      <4>1. PassedOn(ReportsBefore(file, bulletin))'
        BY <1>1, <1>4, <1>6
      <4>2. kind' = "BUFR_SURFACE" => (rest = From(file.bulletins[bulletin], file.parts[bulletin].s))'
        BY <1>1, <2>2 DEF Implemented
      <4> QED BY <1>6, <2>1, <3>1, <3>3, <4>1, <4>2 DEF InBulletin
    <3> QED BY <3>2, <3>3
  <2> QED BY <1>1, <1>2, <2>1, <2>4 DEF PInv
<1> QED BY <1>8, <1>9

LEMMA DoneLast ==
  ASSUME PInv, RInv', Done
  PROVE  PInv'
<1>1. /\ pc = "decode" /\ bulletin = Len(file.bulletins) /\ pc' = "done"
      /\ UNCHANGED <<file, bulletin, kind, rest, report, ident, skip, raports, errors>>
  BY DEF Done
<1>2. report = <<>> /\ BetweenBulletins(file)
  BY <1>1 DEF PInv
<1>3. PICK m : m = ReportsBefore(file, bulletin + 1)
  OBVIOUS
<1>4. PassedOn(m) /\ \A k \in Implemented : <<>> \notin DOMAIN raports[k]
  BY <1>2, <1>3 DEF BetweenBulletins
<1>5. PassedOn(m)'
  BY <1>1, <1>4, PassedOnUnchanged
<1>6. PassedOn(ReportsBefore(file, bulletin + 1))'
  BY <1>1, <1>3, <1>5
<1>7. BetweenBulletins(file)'
  BY <1>1, <1>4, <1>6 DEF BetweenBulletins
<1> QED BY <1>1, <1>2, <1>7 DEF PInv

LEMMA PInvStutters ==
  ASSUME PInv, RInv', UNCHANGED vars
  PROVE  PInv'
BY DEF vars, PInv, BetweenBulletins, InBulletin, BehindPieces, PassedOn, RestIs, LinesFit

LEMMA PInvInit ==
  ASSUME Init, AllWellFormed
  PROVE  PInv /\ AreWellFormed(file)
<1>1. file \in Files /\ pc = "decode" /\ bulletin = 0 /\ report = <<>>
      /\ raports = [k \in Implemented |-> <<>>]
  BY DEF Init
<1>2. AreWellFormed(file)
  BY <1>1 DEF AllWellFormed
<1>3. \A k \in Implemented : raports[k] = <<>> /\ <<>> \notin DOMAIN raports[k]
  <2>1. DOMAIN <<>> = {}
    OBVIOUS
  <2> QED BY <1>1, <2>1, Zenon
<1>4. PassedOn(0)
  BY <1>3, KeepsNone DEF PassedOn
<1>5. ReportsBefore(file, bulletin + 1) = 0
  BY <1>1 DEF ReportsBefore
<1>6. BetweenBulletins(file)
  BY <1>1, <1>3, <1>4, <1>5 DEF BetweenBulletins
<1> QED BY <1>1, <1>2, <1>6, InvInit DEF PInv

LEMMA FileStays ==
  ASSUME AreWellFormed(file), [Next]_vars
  PROVE  AreWellFormed(file)'
<1>1. file' = file
  BY DEF Next, TakeBulletin, Done, NotImplemented, DoBufrSurface, FirstLine, NextLine,
         LastLine, NoReport, DoSynop, DoMetar, TakeReport, Stopped, vars
<1> QED BY <1>1

LEMMA PInvStep ==
  ASSUME PInv, AreWellFormed(file), [Next]_vars
  PROVE  PInv'
<1>1. RInv'
  BY InvStep DEF PInv
<1>2. CASE TakeBulletin
  BY <1>1, <1>2, TakesBulletin
<1>3. CASE Done
  BY <1>1, <1>3, DoneLast
<1>4. CASE NotImplemented
  BY <1>1, <1>4, NotImplementedEnds
<1>5. CASE DoBufrSurface
  BY <1>1, <1>5, DoBufrSurfaceEnds
<1>6. CASE FirstLine
  BY <1>1, <1>6, FirstLineReads
<1>7. CASE NextLine \/ LastLine
  BY <1>1, <1>7, NextLineReads
<1>8. CASE NoReport
  BY <1>1, <1>8, NoReportEnds
<1>9. CASE DoSynop \/ DoMetar
  <2>1. kind \in {"SYNOP", "METAR"}
    BY <1>9 DEF DoSynop, DoMetar
  <2> QED BY <1>1, <1>9, <2>1, TakesReport
<1>10. CASE UNCHANGED vars
  BY <1>1, <1>10, PInvStutters
<1>11. CASE Stopped
  BY <1>10, <1>11 DEF Stopped
<1> QED BY <1>2, <1>3, <1>4, <1>5, <1>6, <1>7, <1>8, <1>9, <1>10, <1>11 DEF Next

(***************************************************************************)
(* Theorems                                                                *)
(***************************************************************************)

(* RInv is inductive: what is kept of a report has its "=" at its end only, *)
(* whatever bulletins readReport(), doSYNOP() and doMETAR() are given.      *)
THEOREM SplitInductive == Spec => []RInv
<1>1. Init => RInv
  BY InvInit
<1>2. RInv /\ [Next]_vars => RInv'
  BY InvStep
<1> QED BY <1>1, <1>2, PTL DEF Spec

(* Every variable of the splitter keeps its type, and no more bulletins are *)
(* named in errorStr than were taken.                                       *)
THEOREM TypeCorrect == Spec => []TypeOK
<1>1. RInv => TypeOK
  BY DEF RInv
<1> QED BY <1>1, SplitInductive, PTL

(* Of no bulletin, well formed or not, do doSYNOP() and doMETAR() pass on   *)
(* two reports as one, an empty one, or one with a line end at either end.  *)
THEOREM OneReportEach == Spec => []NoneGlued
<1>1. RInv => NoneGlued
  BY DEF RInv
<1> QED BY <1>1, SplitInductive, PTL

(* PInv is inductive for bulletins that are made up as file.parts says: in   *)
(* front of each call of readReport() stands the next piece of the bulletin, *)
(* and the reports of the pieces before it, and of the bulletins before, are *)
(* passed on.                                                               *)
THEOREM PiecesInductive == AllWellFormed /\ Spec => [](PInv /\ AreWellFormed(file))
<1>1. Init /\ AllWellFormed => PInv /\ AreWellFormed(file)
  BY PInvInit
<1>2. PInv /\ AreWellFormed(file) /\ [Next]_vars => (PInv /\ AreWellFormed(file))'
  BY PInvStep, FileStays
<1> QED BY <1>1, <1>2, PTL DEF Spec

(* However many bulletins, pieces and lines there are, every report comes    *)
(* out of well-formed bulletins once, as it was written, in order and under  *)
(* its identifier, and nothing else does; no empty identifier is left.       *)
THEOREM ReportsComeOut == AllWellFormed /\ Spec => []AllReports
<1>1. PInv /\ AreWellFormed(file) => AllReports
  <2> SUFFICES ASSUME PInv, AreWellFormed(file), pc = "done"
               PROVE  /\ PassedOn(Len(file.reports))
                      /\ \A k \in Implemented : <<>> \notin DOMAIN raports[k]
    BY DEF AllReports
  <2>1. BetweenBulletins(file)
    BY DEF PInv
  <2>2. ReportsBefore(file, bulletin + 1) = Len(file.reports)
    BY <2>1 DEF BetweenBulletins, AreWellFormed
  <2> QED BY <2>1, <2>2 DEF BetweenBulletins
<1> QED BY <1>1, PiecesInductive, PTL
==============================================================================
