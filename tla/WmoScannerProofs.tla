--------------------------- MODULE WmoScannerProofs ---------------------------
(* Theorems about WmoScanner, for every set of files.                       *)
EXTENDS WmoScanner, FiniteSetTheorems, TLAPS

(***************************************************************************)
(* Pieces of a file                                                        *)
(***************************************************************************)
(* The file is not empty, and its characters are of the alphabet.           *)
LEMMA FileText ==
  ASSUME NEW f \in Files
  PROVE  /\ f.text \in Seq(Char) /\ Len(f.text) \in Nat
         /\ \A i \in 1..Len(f.text) : f.text[i] \in Char
BY FilesAssumption

(* The index of a character in a piece.                                     *)
LEMMA PieceIndex ==
  ASSUME NEW t \in Seq(Char), NEW i \in Nat \ {0}, NEW j \in 0..Len(t), i <= j + 1
  PROVE  /\ SubSeq(t, i, j) \in Seq(Char)
         /\ Len(SubSeq(t, i, j)) = j - i + 1
         /\ \A k \in 1..j - i + 1 : SubSeq(t, i, j)[k] = t[i + k - 1]
OBVIOUS

(* Two sequences of one length with the same characters are the same.       *)
LEMMA SameText ==
  ASSUME NEW s \in Seq(Char), NEW t \in Seq(Char), Len(s) = Len(t),
         \A k \in 1..Len(s) : s[k] = t[k]
  PROVE  s = t
OBVIOUS

(* What is read behind a piece makes it one longer.                         *)
LEMMA PieceGrows ==
  ASSUME NEW t \in Seq(Char), NEW i \in Nat \ {0}, NEW j \in 1..Len(t), i <= j
  PROVE  Append(SubSeq(t, i, j - 1), t[j]) = SubSeq(t, i, j)
<1> DEFINE s == SubSeq(t, i, j - 1)
           u == SubSeq(t, i, j)
<1>1. /\ s \in Seq(Char) /\ Len(s) = j - i
      /\ \A k \in 1..j - i : s[k] = t[i + k - 1]
  OBVIOUS
<1>2. /\ u \in Seq(Char) /\ Len(u) = j - i + 1
      /\ \A k \in 1..j - i + 1 : u[k] = t[i + k - 1]
  OBVIOUS
<1>3. t[j] \in Char
  OBVIOUS
<1> HIDE DEF s, u
<1>4. /\ Append(s, t[j]) \in Seq(Char) /\ Len(Append(s, t[j])) = j - i + 1
      /\ \A k \in 1..j - i : Append(s, t[j])[k] = s[k]
      /\ Append(s, t[j])[j - i + 1] = t[j]
  BY <1>1, <1>3
<1>5. \A k \in 1..j - i + 1 : Append(s, t[j])[k] = u[k]
  BY <1>1, <1>2, <1>4
<1>6. Append(s, t[j]) = u
  BY <1>2, <1>4, <1>5, SameText
<1> QED BY <1>6 DEF s, u

(* A piece of a piece is one of the file.                                   *)
LEMMA PieceOfPiece ==
  ASSUME NEW t \in Seq(Char), NEW i \in Nat \ {0}, NEW j \in 0..Len(t), i <= j + 1,
         NEW n \in 0..j - i + 1
  PROVE  SubSeq(SubSeq(t, i, j), 1, n) = SubSeq(t, i, i + n - 1)
<1> DEFINE s == SubSeq(t, i, j)
           u == SubSeq(t, i, i + n - 1)
           v == SubSeq(s, 1, n)
<1>1. /\ s \in Seq(Char) /\ Len(s) = j - i + 1
      /\ \A k \in 1..j - i + 1 : s[k] = t[i + k - 1]
  BY PieceIndex
<1>2. /\ u \in Seq(Char) /\ Len(u) = n
      /\ \A k \in 1..n : u[k] = t[i + k - 1]
  OBVIOUS
<1> HIDE DEF s, u
<1>3. v \in Seq(Char) /\ Len(v) = n /\ \A k \in 1..n : v[k] = s[k]
  BY <1>1
<1> HIDE DEF v
<1>4. ASSUME NEW k \in 1..n PROVE v[k] = u[k]
  <2>1. k \in 1..j - i + 1
    OBVIOUS
  <2> QED BY <1>1, <1>2, <1>3, <2>1
<1>5. v = u
  BY <1>2, <1>3, <1>4, SameText
<1> QED BY <1>5 DEF s, u, v

(***************************************************************************)
(* Types                                                                   *)
(***************************************************************************)
(* get() takes the next character of the file.                              *)
LEMMA GetTakes ==
  ASSUME SInv, Get
  PROVE  /\ pos \in 1..Len(file.text) /\ pos' = pos + 1 /\ pos' \in 1..Len(file.text) + 1
         /\ ch' = file.text[pos] /\ ch' \in Char
         /\ UNCHANGED <<eofbit, failbit>>
<1>1. file \in Files
  BY DEF SInv
<1>2. pos \in 1..Len(file.text) /\ Len(file.text) \in Nat
  BY <1>1, FileText DEF SInv, TypeOK, Get, Ready
<1> QED BY <1>1, <1>2, FileText DEF Get

(* putback() leaves the stream at the character it looked at.               *)
LEMMA PeekLooks ==
  ASSUME SInv, Peek
  PROVE  ch' \in Char /\ eofbit' \in BOOLEAN /\ failbit' \in BOOLEAN /\ pos' = pos
<1>1. file \in Files /\ pos \in 1..Len(file.text) + 1 /\ ch \in Char
  BY DEF SInv, TypeOK
<1>2. Ready => pos \in 1..Len(file.text)
  BY <1>1, FileText DEF Ready
<1> QED BY <1>1, <1>2, FileText DEF Peek

(* A get() at the end moves nothing.                                        *)
LEMMA GetFailing ==
  ASSUME SInv, GetFails
  PROVE  eofbit' \in BOOLEAN /\ failbit' \in BOOLEAN /\ pos' = pos /\ ch' = ch
BY DEF GetFails, SInv, TypeOK

(* The bulletin passed on is a text, and so are those before.               *)
LEMMA TakenType ==
  ASSUME SInv, TakeMessage PROVE out' \in Seq(Seq(Char))
<1>1. ost \in Seq(Char) /\ count \in 0..Len(ost) /\ out \in Seq(Seq(Char))
  BY DEF SInv, TypeOK
<1>2. SubSeq(ost, 1, Len(ost) - count) \in Seq(Char)
  BY <1>1
<1> QED BY <1>1, <1>2 DEF TakeMessage

(* Counting moves no counter past what has been read.                       *)
LEMMA CountType ==
  ASSUME SInv, Count, ost' = Append(ost, ch'), ch' \in Char
  PROVE  /\ ost' \in Seq(Char) /\ Len(ost') = Len(ost) + 1
         /\ iNNN' \in 0..4 /\ rnCount' \in 0..Len(ost') /\ count' \in 0..Len(ost')
<1>1. ost \in Seq(Char) /\ Len(ost) \in Nat /\ iNNN \in 0..4
      /\ rnCount \in 0..Len(ost) /\ count \in 0..Len(ost)
  BY DEF SInv, TypeOK
<1>2. ost' \in Seq(Char) /\ Len(ost') = Len(ost) + 1
  BY <1>1
<1>3. CASE ~OfMark /\ ch' \notin LineEnd
  BY <1>1, <1>2, <1>3 DEF Count
<1>4. CASE OfMark
  BY <1>1, <1>2, <1>4 DEF Count, OfMark
<1>5. CASE ~OfMark /\ ch' \in LineEnd
  BY <1>1, <1>2, <1>5 DEF Count
<1> QED BY <1>2, <1>3, <1>4, <1>5

(* The types, and the file, stay.                                           *)
LEMMA TypeStep ==
  ASSUME SInv, [Next]_vars PROVE TypeOK' /\ file' \in Files
<1> USE DEF TypeOK, stream, mark
<1>0. TypeOK /\ file \in Files /\ Len(file.text) \in Nat
  BY FileText DEF SInv
<1>1. CASE UNCHANGED vars
  BY <1>0, <1>1 DEF vars
<1>2. CASE NextMessage
  <2>1. ost' \in Seq(Char) /\ Len(ost') = 0
    BY <1>2 DEF NextMessage
  <2>2. 0 \in 0..4 /\ 0 \in 0..Len(ost')
    BY <2>1
  <2> QED BY <1>0, <1>2, <2>1, <2>2 DEF NextMessage
<1>3. CASE Search
  <2>1. izc + 1 \in 1..4
    BY <1>0, <1>3 DEF Search, SInv
  <2>2. izc' \in 0..4
    BY <2>1, <1>3 DEF Search
  <2> QED BY <1>0, <1>3, <2>2, GetTakes DEF Search
<1>4. CASE SearchEnds
  <2>1. izc \in 0..3
    BY <1>0, <1>4 DEF SearchEnds, SInv
  <2>2. izc' \in 0..4
    BY <1>4, <2>1 DEF SearchEnds
  <2> QED BY <1>0, <1>4, <2>2, GetFailing DEF SearchEnds
<1>5. CASE ReadLine
  BY <1>0, <1>5, GetTakes, GetFailing DEF ReadLine
<1>6. CASE EndLine
  BY <1>0, <1>6, PeekLooks DEF EndLine
<1>7. CASE ReadBody
  BY <1>0, <1>7, GetTakes, CountType DEF ReadBody
<1>8. CASE ReadMark
  <2>1. ch' \in Char /\ Get
    BY <1>8, GetTakes DEF ReadMark
  <2>2. ost' \in Seq(Char) /\ Len(ost') = Len(ost) + 1
    BY <1>0, <1>8, <2>1 DEF ReadMark
  <2>3. count' \in 0..Len(ost') /\ rnCount' \in 0..Len(ost') /\ iNNN' \in 0..4
    BY <1>0, <1>8, <2>2 DEF ReadMark
  <2> QED BY <1>0, <1>8, <2>1, <2>2, <2>3, GetTakes DEF ReadMark
<1>9. CASE BodyEnds
  BY <1>0, <1>9, GetFailing DEF BodyEnds
<1>10. CASE EndMessage
  BY <1>0, <1>10, PeekLooks, TakenType DEF EndMessage, TakeMessage
<1>11. CASE EndOfStream
  BY <1>0, <1>11, GetFailing, TakenType DEF EndOfStream, TakeMessage
<1>12. CASE ReadTail
  <2>1. ch' \in Char /\ Get
    BY <1>12, GetTakes DEF ReadTail
  <2>2. ost' \in Seq(Char) /\ Len(ost') = Len(ost) + 1
    BY <1>0, <1>12, <2>1 DEF ReadTail
  <2>3. count' \in 0..Len(ost') /\ rnCount' \in 0..Len(ost')
    BY <1>0, <1>12, <2>2 DEF ReadTail
  <2> QED BY <1>0, <1>12, <2>1, <2>2, <2>3, GetTakes DEF ReadTail
<1>13. CASE NoLineEnd
  BY <1>0, <1>13, GetTakes, GetFailing DEF NoLineEnd
<1>14. CASE Done \/ NotFound
  BY <1>0, <1>14 DEF Done, NotFound
<1> QED
  BY <1>1, <1>2, <1>3, <1>4, <1>5, <1>6, <1>7, <1>8, <1>9, <1>10, <1>11,
     <1>12, <1>13, <1>14 DEF Next, Step, Stopped

(***************************************************************************)
(* What has been read of a bulletin                                        *)
(***************************************************************************)
(* The types that the lemmas below work with.                               *)
LEMMA Numbers ==
  ASSUME SInv
  PROVE  /\ file \in Files /\ file.text \in Seq(Char) /\ Len(file.text) \in Nat
         /\ pos \in 1..Len(file.text) + 1 /\ iNNN \in 0..4
         /\ ost \in Seq(Char) /\ Len(ost) \in Nat
         /\ rnCount \in 0..Len(ost) /\ count \in 0..Len(ost)
BY FileText DEF SInv, TypeOK

(* A character more of the bulletin.                                        *)
LEMMA CharMore ==
  ASSUME SInv, Get, ost' = Append(ost, ch')
  PROVE  /\ ost' \in Seq(Char) /\ Len(ost') = Len(ost) + 1
         /\ ost'[Len(ost) + 1] = ch'
         /\ \A k \in 1..Len(ost) : ost'[k] = ost[k]
<1>1. ch' \in Char /\ ost \in Seq(Char)
  BY GetTakes, Numbers
<1> DEFINE c == ch'
<1>2. ost' = Append(ost, c) /\ c \in Char
  BY <1>1
<1> HIDE DEF c
<1>3. /\ Append(ost, c) \in Seq(Char) /\ Len(Append(ost, c)) = Len(ost) + 1
      /\ Append(ost, c)[Len(ost) + 1] = c
      /\ \A k \in 1..Len(ost) : Append(ost, c)[k] = ost[k]
  BY <1>1, <1>2
<1> QED BY <1>2, <1>3 DEF c

(* ost goes on being a piece of the file.                                   *)
LEMMA ReadStep ==
  ASSUME SInv, IsRead, Get, ost' = Append(ost, ch'), UNCHANGED file
  PROVE  IsRead'
<1>1. PICK i \in 2..pos : file.text[i - 1] = "\n" /\ ost = SubSeq(file.text, i, pos - 1)
  BY DEF IsRead
<1>2. pos \in 1..Len(file.text) /\ pos' = pos + 1 /\ ch' = file.text[pos]
  BY GetTakes
<1>3. i \in Nat \ {0} /\ i <= pos /\ file.text \in Seq(Char)
  BY <1>1, <1>2, Numbers
<1>4. ost' = SubSeq(file.text, i, pos)
  BY <1>1, <1>2, <1>3, PieceGrows
<1>5. i \in 2..pos' /\ pos' - 1 = pos
  BY <1>1, <1>2
<1> QED BY <1>1, <1>4, <1>5 DEF IsRead

(* What can be erased, and the Ns at the end, after one character more.     *)
LEMMA CountStep ==
  ASSUME SInv, Erasable, Counted, Get, Count, ost' = Append(ost, ch')
  PROVE  Erasable' /\ Counted'
<1>1. /\ Len(ost') = Len(ost) + 1 /\ ost'[Len(ost) + 1] = ch'
      /\ \A k \in 1..Len(ost) : ost'[k] = ost[k]
  BY CharMore
<1>2. /\ Len(ost) \in Nat /\ iNNN \in 0..4 /\ rnCount \in 0..Len(ost)
      /\ count \in 0..Len(ost) /\ iNNN + rnCount <= count
      /\ \A k \in Len(ost) - iNNN + 1..Len(ost) : ost[k] = "N"
      /\ \A k \in Len(ost) - count + 1..Len(ost) : ost[k] \in LineEnd \union {"N"}
  BY Numbers DEF Counted, Erasable
<1>3. CASE iNNN' = 0 /\ rnCount' = 0 /\ count' = 0
  BY <1>1, <1>2, <1>3 DEF Erasable, Counted
<1>4. CASE /\ ch' = "N" /\ count' = count + 1
           /\ iNNN' = iNNN + 1 /\ rnCount' = rnCount
  BY <1>1, <1>2, <1>4 DEF Erasable, Counted
<1>5. CASE /\ ch' \in LineEnd /\ count' = count + 1
           /\ iNNN' = 0 /\ rnCount' = rnCount + 1
  BY <1>1, <1>2, <1>5 DEF Erasable, Counted
<1> QED BY <1>3, <1>4, <1>5 DEF Count, OfMark

(* The last N of the end mark, with three line ends at least in front.      *)
LEMMA MarkFound ==
  ASSUME SInv, Erasable, Counted, ReadMark
  PROVE  Erasable' /\ Marked'
<1>1. /\ Len(ost') = Len(ost) + 1 /\ ost'[Len(ost) + 1] = ch'
      /\ \A k \in 1..Len(ost) : ost'[k] = ost[k]
      /\ ch' = "N" /\ iNNN = 3 /\ rnCount > 2 /\ count' = count + 1
  BY CharMore DEF ReadMark, OfMark
<1>2. /\ Len(ost) \in Nat /\ rnCount \in Nat
      /\ count \in 0..Len(ost) /\ count >= 6
      /\ \A k \in Len(ost) - 2..Len(ost) : ost[k] = "N"
      /\ \A k \in Len(ost) - count + 1..Len(ost) : ost[k] \in LineEnd \union {"N"}
  BY <1>1, Numbers DEF Counted, Erasable
<1> DEFINE l == Len(ost)
<1>6. l \in Nat /\ count \in 0..l /\ count >= 6
  BY <1>2
<1>3. ASSUME NEW k \in Len(ost') - count' + 1..Len(ost')
      PROVE  ost'[k] \in LineEnd \union {"N"}
  <2>1. k \in Len(ost) - count + 1..Len(ost) + 1
    BY <1>1, <1>2
  <2>2. CASE k = Len(ost) + 1
    BY <1>1, <2>2
  <2>3. CASE k # Len(ost) + 1
    <3>1. k \in l - count + 1..l /\ k \in 1..l
      <4>1. k \in l - count + 1..l + 1 /\ k # l + 1
        BY <2>1, <2>3
      <4> HIDE DEF l
      <4> QED BY <1>6, <4>1
    <3> QED BY <1>1, <1>2, <3>1
  <2> QED BY <2>2, <2>3
<1>4. ASSUME NEW k \in Len(ost') - 3..Len(ost') PROVE ost'[k] = "N"
  <2>1. k \in Len(ost) - 2..Len(ost) + 1
    BY <1>1, <1>2
  <2>2. CASE k = Len(ost) + 1
    BY <1>1, <2>2
  <2>3. CASE k # Len(ost) + 1
    <3>1. k \in l - 2..l /\ k \in 1..l
      <4>1. k \in l - 2..l + 1 /\ k # l + 1
        BY <2>1, <2>3
      <4> HIDE DEF l
      <4> QED BY <1>6, <4>1
    <3> QED BY <1>1, <1>2, <3>1
  <2> QED BY <2>2, <2>3
<1>5. Len(ost') \in Len(ost') - count' + 7..Len(ost')
  BY <1>1, <1>2
<1> QED BY <1>3, <1>4, <1>5 DEF Erasable, Marked

(* Line ends behind the mark are erased with it.                            *)
LEMMA TailStep ==
  ASSUME SInv, Erasable, Marked, ReadTail
  PROVE  Erasable' /\ Marked'
<1>1. /\ Len(ost') = Len(ost) + 1 /\ ost'[Len(ost) + 1] = ch'
      /\ \A k \in 1..Len(ost) : ost'[k] = ost[k]
      /\ ch' \in LineEnd /\ count' = count + 1
  BY CharMore DEF ReadTail
<1>2. Len(ost) \in Nat /\ count \in 0..Len(ost)
  BY Numbers
<1>3. Erasable'
  BY <1>1, <1>2 DEF Erasable
<1>4. PICK n \in Len(ost) - count + 7..Len(ost) : \A k \in n - 3..n : ost[k] = "N"
  BY DEF Marked
<1>5. n \in Len(ost') - count' + 7..Len(ost')
  BY <1>1, <1>2
<1>6. \A k \in n - 3..n : k \in 1..Len(ost)
  BY <1>2
<1>7. \A k \in n - 3..n : ost'[k] = "N"
  BY <1>1, <1>4, <1>6
<1> QED BY <1>3, <1>5, <1>7 DEF Marked

(* What is passed on is a piece of the file with an end mark behind.        *)
LEMMA TakenIsBulletin ==
  ASSUME SInv, IsRead, Erasable, Marked
  PROVE  IsBulletin(SubSeq(ost, 1, Len(ost) - count), file.text)
<1> DEFINE t == file.text
<1>1. PICK i \in 2..pos : t[i - 1] = "\n" /\ ost = SubSeq(t, i, pos - 1)
  BY DEF IsRead
<1>2. /\ t \in Seq(Char) /\ Len(t) \in Nat /\ pos \in 1..Len(t) + 1
      /\ count \in 0..Len(ost) /\ Len(ost) \in Nat
  BY Numbers
<1> HIDE DEF t
<1>3. /\ i \in Nat \ {0} /\ pos - 1 \in 0..Len(t) /\ i <= pos - 1 + 1
  BY <1>1, <1>2
<1>4. /\ Len(ost) = pos - i
      /\ \A k \in 1..pos - i : ost[k] = t[i + k - 1]
  <2>1. pos - 1 - i + 1 = pos - i
    BY <1>1, <1>2
  <2> QED BY <1>1, <1>2, <1>3, <2>1, PieceIndex
<1> DEFINE m == pos - i - count
           b == SubSeq(ost, 1, Len(ost) - count)
<1>5. m \in 0..pos - 1 - i + 1 /\ Len(ost) - count = m
  BY <1>1, <1>2, <1>4
<1>6. b = SubSeq(t, i, i + m - 1)
  BY <1>1, <1>2, <1>3, <1>5, PieceOfPiece
<1>7. Len(b) = m
  BY <1>2, <1>5
<1>8. PICK n \in Len(ost) - count + 7..Len(ost) : \A k \in n - 3..n : ost[k] = "N"
  BY DEF Marked
<1>9. /\ i \in 2..Len(t) - m
      /\ i + n - 1 \in i + m - 1 + 7..Len(t)
  BY <1>1, <1>2, <1>4, <1>5, <1>8
<1>10. ASSUME NEW k \in i + m - 1 + 1..i + n - 1
       PROVE  t[k] \in LineEnd \union {"N"}
  <2>1. k - i + 1 \in Len(ost) - count + 1..Len(ost) /\ k - i + 1 \in 1..pos - i
    BY <1>1, <1>2, <1>4, <1>5, <1>8
  <2>2. ost[k - i + 1] = t[k]
    <3>1. i + (k - i + 1) - 1 = k
      BY <1>1, <1>2, <1>5, <1>8
    <3> QED BY <1>4, <2>1, <3>1
  <2> QED BY <2>1, <2>2 DEF Erasable
<1>11. ASSUME NEW k \in i + n - 1 - 3..i + n - 1 PROVE t[k] = "N"
  <2>1. k - i + 1 \in n - 3..n /\ k - i + 1 \in 1..pos - i
    BY <1>1, <1>2, <1>4, <1>5, <1>8
  <2>2. ost[k - i + 1] = t[k]
    <3>1. i + (k - i + 1) - 1 = k
      BY <1>1, <1>2, <1>8
    <3> QED BY <1>4, <2>1, <3>1
  <2> QED BY <1>8, <2>1, <2>2
<1> DEFINE j == i + m - 1
           q == i + n - 1
<1>12. /\ i \in 2..Len(t) - Len(b) /\ q \in j + 7..Len(t)
       /\ i + Len(b) - 1 = j
       /\ b = SubSeq(t, i, j)
  BY <1>6, <1>7, <1>9
<1>13. \A k \in j + 1..q : t[k] \in LineEnd \union {"N"}
  BY <1>10
<1>14. \A k \in q - 3..q : t[k] = "N"
  BY <1>11
<1> HIDE DEF b, m, j, q
<1>15. IsBulletin(b, t)
  BY <1>1, <1>12, <1>13, <1>14 DEF IsBulletin
<1> QED BY <1>15 DEF b, t

(***************************************************************************)
(* The theorems                                                            *)
(***************************************************************************)
(* Every step leaves the file as it is, and passes on at most one bulletin, *)
(* which is in the file.                                                    *)
LEMMA InventedStep ==
  ASSUME SInv, [Next]_vars PROVE NothingInvented' /\ UNCHANGED file
<1>1. \/ UNCHANGED <<file, out>>
      \/ UNCHANGED file /\ TakeMessage /\ pc = "tail"
  BY DEF Next, Step, Stopped, vars, NextMessage, Done, Search, SearchEnds,
         NotFound, ReadLine, EndLine, ReadBody, ReadMark, BodyEnds, EndMessage,
         EndOfStream, ReadTail, NoLineEnd, TakeMessage
<1>2. CASE UNCHANGED <<file, out>>
  BY <1>2 DEF SInv, NothingInvented
<1>3. CASE UNCHANGED file /\ TakeMessage /\ pc = "tail"
  <2> DEFINE b == SubSeq(ost, 1, Len(ost) - count)
  <2>1. /\ IsBulletin(b, file.text)
        /\ \A k \in 1..Len(out) : IsBulletin(out[k], file.text)
    BY <1>3, TakenIsBulletin DEF SInv, NothingInvented
  <2>2. out' = Append(out, b) /\ out \in Seq(Seq(Char)) /\ b \in Seq(Char)
    BY <1>3, Numbers DEF TakeMessage, SInv, TypeOK
  <2> HIDE DEF b
  <2>3. /\ Len(out') = Len(out) + 1 /\ Len(out) \in Nat /\ out'[Len(out) + 1] = b
        /\ \A k \in 1..Len(out) : out'[k] = out[k]
    BY <2>2
  <2>4. \A k \in 1..Len(out') : IsBulletin(out'[k], file.text)
    BY <2>1, <2>3
  <2> QED BY <1>3, <2>4 DEF NothingInvented
<1> QED BY <1>1, <1>2, <1>3

(* findZCZC() counts no further than ZCZC, and the character it leaves      *)
(* behind is the last one of the file it has read.                          *)
LEMMA SearchStep ==
  ASSUME SInv, [Next]_vars
  PROVE  /\ pc' = "search" /\ ~eofbit' => izc' <= 3
         /\ pc' \in {"search", "line"} => Fresh'
         /\ pc' = "line" => pos' > 1 /\ ch' = file'.text[pos' - 1]
<1> DEFINE Found == /\ pc' = "search" /\ ~eofbit' => izc' <= 3
                    /\ pc' \in {"search", "line"} => Fresh'
                    /\ pc' = "line" => pos' > 1 /\ ch' = file'.text[pos' - 1]
<1> USE DEF SInv, Fresh, stream, mark
<1>1. CASE UNCHANGED vars
  BY <1>1 DEF vars
<1>2. CASE NextMessage \/ NotFound
  BY <1>2 DEF NextMessage, NotFound
<1>3. CASE Search
  <2>1. /\ pos \in 1..Len(file.text) /\ pos' = pos + 1 /\ ch' = file.text[pos]
        /\ UNCHANGED <<eofbit, file, iNNN, rnCount, count, ost>>
        /\ pc = "search" /\ izc \in 0..4 /\ izc <= 3
    BY <1>3, GetTakes DEF Search, TypeOK
  <2>2. pos' - 1 = pos /\ pos' > 1
    BY <2>1
  <2>3. izc' \in 0..4 /\ (pc' = "line" \/ (pc' = "search" /\ izc' # 4))
    BY <1>3, <2>1 DEF Search, ZCZC
  <2> QED BY <2>1, <2>2, <2>3
<1>4. CASE SearchEnds
  BY <1>4 DEF SearchEnds
<1>5. CASE ReadLine
  <2>1. UNCHANGED <<file, iNNN, rnCount, count, ost, pc>> /\ pc = "line"
    BY <1>5 DEF ReadLine
  <2>2. CASE Get
    <3>1. pos \in 1..Len(file.text) /\ pos' = pos + 1 /\ ch' = file.text[pos]
      BY <2>2, GetTakes
    <3>2. pos' - 1 = pos /\ pos' > 1
      BY <3>1
    <3> QED BY <2>1, <3>1, <3>2
  <2>3. CASE GetFails
    BY <2>1, <2>3 DEF GetFails
  <2> QED BY <1>5, <2>2, <2>3 DEF ReadLine
<1>6. \/ UNCHANGED vars \/ NextMessage \/ NotFound \/ Search \/ SearchEnds
      \/ ReadLine \/ pc' \in {"decode", "mark", "tail", "done"}
  BY DEF Next, Step, Stopped, Done, EndLine, ReadBody, ReadMark, BodyEnds,
         EndMessage, EndOfStream, ReadTail, NoLineEnd, TakeMessage
<1> QED BY <1>1, <1>2, <1>3, <1>4, <1>5, <1>6

(* What getMessage() knows of the bulletin it is reading.                   *)
LEMMA MessageStep ==
  ASSUME SInv, [Next]_vars
  PROVE  /\ pc' \in {"mark", "tail"} => IsRead' /\ Erasable'
         /\ pc' = "mark" => Counted'
         /\ pc' = "tail" => Marked'
<1> USE DEF stream, mark
<1>1. CASE UNCHANGED vars
  BY <1>1 DEF vars, SInv, IsRead, Erasable, Counted, Marked
<1>2. CASE EndLine
  <2>1. /\ pc = "line" /\ Fresh /\ pos > 1 /\ ch = file.text[pos - 1]
        /\ UNCHANGED <<file, pos, iNNN, rnCount, count, ost>>
        /\ pc' = IF ch = "\n" THEN "mark" ELSE "decode"
    BY <1>2 DEF EndLine, SInv, Peek
  <2>2. Len(<<>>) = 0 /\ \A k \in 1..0 : FALSE
    OBVIOUS
  <2>3. Erasable' /\ Counted'
    BY <2>1, <2>2 DEF Erasable, Counted, Fresh
  <2>4. ch = "\n" => IsRead'
    <3>1. pos \in 2..pos
      BY <2>1, Numbers
    <3>2. SubSeq(file.text, pos, pos - 1) = <<>>
      BY <3>1, Numbers
    <3> QED BY <2>1, <3>1, <3>2 DEF IsRead, Fresh
  <2> QED BY <2>1, <2>3, <2>4
<1>3. CASE ReadBody
  <2>1. IsRead /\ Erasable /\ Counted /\ pc' = "mark"
    BY <1>3 DEF ReadBody, SInv
  <2> QED BY <1>3, <2>1, ReadStep, CountStep DEF ReadBody
<1>4. CASE ReadMark
  <2>1. IsRead /\ Erasable /\ Counted /\ pc' = "tail"
    BY <1>4 DEF ReadMark, SInv
  <2> QED BY <1>4, <2>1, ReadStep, MarkFound DEF ReadMark
<1>5. CASE ReadTail
  <2>1. IsRead /\ Erasable /\ Marked /\ pc' = "tail"
    BY <1>5 DEF ReadTail, SInv
  <2> QED BY <1>5, <2>1, ReadStep, TailStep DEF ReadTail
<1>6. \/ UNCHANGED vars \/ EndLine \/ ReadBody \/ ReadMark \/ ReadTail
      \/ pc' \in {"decode", "search", "line", "done"}
  BY DEF Next, Step, Stopped, NextMessage, Done, Search, SearchEnds, NotFound,
         ReadLine, BodyEnds, EndMessage, EndOfStream, NoLineEnd, TakeMessage
<1> QED BY <1>1, <1>2, <1>3, <1>4, <1>5, <1>6

(* The invariant of the scanner: between the marks it knows where in the    *)
(* file the bulletin begins, and how much of it belongs to the end mark.    *)
LEMMA ScanInit == Init => SInv
<1> SUFFICES ASSUME Init PROVE SInv
  OBVIOUS
<1>1. file \in Files /\ Len(file.text) \in Nat
  BY FileText DEF Init
<1>2. <<>> \in Seq(Char) /\ <<>> \in Seq(Seq(Char)) /\ Len(<<>>) = 0
  OBVIOUS
<1>3. TypeOK
  <2>1. eofbit \in BOOLEAN /\ failbit \in BOOLEAN
    BY DEF Init
  <2>2. ost \in Seq(Char) /\ Len(ost) = 0 /\ out \in Seq(Seq(Char))
    BY DEF Init
  <2>3. pos \in 1..Len(file.text) + 1 /\ pc = "decode" /\ ch = "X"
    BY <1>1 DEF Init
  <2>4. izc = 0 /\ iNNN = 0 /\ rnCount = 0 /\ count = 0
    BY DEF Init
  <2> QED BY <2>1, <2>2, <2>3, <2>4 DEF TypeOK, Char
<1>4. NothingInvented
  BY <1>2 DEF Init, NothingInvented
<1> QED BY <1>1, <1>3, <1>4 DEF Init, SInv

LEMMA ScanStep == SInv /\ [Next]_vars => SInv'
<1> SUFFICES ASSUME SInv, [Next]_vars PROVE SInv'
  OBVIOUS
<1> QED BY TypeStep, InventedStep, SearchStep, MessageStep DEF SInv

THEOREM ScanInductive == Spec => []SInv
BY ScanInit, ScanStep, PTL DEF Spec

(* The types of the scanner: no counter runs past what has been read.       *)
THEOREM TypeCorrect == Spec => []TypeOK
<1>1. SInv => TypeOK
  BY DEF SInv
<1> QED BY <1>1, ScanInductive, PTL

(* Whatever a file is and wherever it ends, getMessage() passes on pieces   *)
(* of it with an end mark behind, and erases line ends and Ns only.         *)
THEOREM BulletinsAreOfTheFile == Spec => []NothingInvented
<1>1. SInv => NothingInvented
  BY DEF SInv
<1> QED BY <1>1, ScanInductive, PTL
(***************************************************************************)
(* What the counters stand for                                             *)
(***************************************************************************)
(* A line end more among the last characters.                               *)
LEMMA OneLineEnd ==
  ASSUME NEW t, NEW i \in Int, NEW j \in Int, i <= j + 1
  PROVE  /\ Cardinality(LineEndsIn(t, i, j)) \in Nat
         /\ t[j + 1] \in LineEnd =>
              Cardinality(LineEndsIn(t, i, j + 1)) = Cardinality(LineEndsIn(t, i, j)) + 1
         /\ t[j + 1] \notin LineEnd =>
              LineEndsIn(t, i, j + 1) = LineEndsIn(t, i, j)
<1> DEFINE A == LineEndsIn(t, i, j)
           B == LineEndsIn(t, i, j + 1)
<1>1. IsFiniteSet(A)
  <2>1. IsFiniteSet(i..j)
    BY FS_Interval
  <2>2. A \subseteq i..j
    BY DEF LineEndsIn
  <2> QED BY <2>1, <2>2, FS_Subset
<1>2. j + 1 \notin A /\ (t[j + 1] \in LineEnd => B = A \union {j + 1})
  BY DEF LineEndsIn
<1>3. t[j + 1] \notin LineEnd => B = A
  BY DEF LineEndsIn
<1>4. Cardinality(A) \in Nat
  BY <1>1, FS_CardinalityType
<1> HIDE DEF A, B
<1>5. t[j + 1] \in LineEnd => Cardinality(B) = Cardinality(A) + 1
  BY <1>1, <1>2, FS_AddElement
<1> QED BY <1>3, <1>4, <1>5 DEF A, B

LEMMA NoLineEndYet ==
  ASSUME NEW t, NEW i \in Int, NEW j \in Int, j < i
  PROVE  Cardinality(LineEndsIn(t, i, j)) = 0
<1>1. LineEndsIn(t, i, j) = {}
  BY DEF LineEndsIn
<1> QED BY <1>1, FS_EmptySet

(* The counters after one character more.                                   *)
LEMMA CountersStep ==
  ASSUME SInv, pc = "mark", Get, Count, NEW t, t = file.text, CountersFit(t)
  PROVE  CountersFit(t)'
<1>1. /\ pos \in Int /\ count \in Nat /\ iNNN \in Nat /\ rnCount \in Nat
      /\ pos' = pos + 1 /\ ch' = t[pos]
  BY GetTakes, Numbers DEF SInv, TypeOK
<1>2. /\ \A m \in pos - count..pos - 1 : t[m] \in LineEnd \union {"N"}
      /\ \A m \in pos - iNNN..pos - 1 : t[m] = "N"
      /\ rnCount = Cardinality(LineEndsIn(t, pos - count, pos - 1))
  BY DEF CountersFit
<1>3. CASE iNNN' = 0 /\ rnCount' = 0 /\ count' = 0
  <2>1. Cardinality(LineEndsIn(t, pos + 1, pos)) = 0
    BY <1>1, NoLineEndYet
  <2>2. pos' - count' = pos + 1 /\ pos' - iNNN' = pos + 1 /\ pos' - 1 = pos
    BY <1>1, <1>3
  <2>3. \A m \in pos + 1..pos : FALSE
    BY <1>1
  <2> QED BY <1>3, <2>1, <2>2, <2>3 DEF CountersFit
<1> DEFINE i == pos - count
           j == pos - 1
<1>4. i \in Int /\ j \in Int /\ i <= j + 1 /\ j + 1 = pos
  BY <1>1
<1>5. /\ t[pos] \in LineEnd =>
           Cardinality(LineEndsIn(t, i, pos)) = Cardinality(LineEndsIn(t, i, j)) + 1
      /\ t[pos] \notin LineEnd => LineEndsIn(t, i, pos) = LineEndsIn(t, i, j)
  <2> HIDE DEF i, j
  <2> QED BY <1>4, OneLineEnd
<1>6. CASE ch' = "N" /\ count' = count + 1 /\ iNNN' = iNNN + 1 /\ rnCount' = rnCount
  <2>1. pos' - count' = i /\ pos' - 1 = pos /\ pos' - iNNN' = pos - iNNN
    BY <1>1, <1>6
  <2>2. LineEndsIn(t, i, pos) = LineEndsIn(t, i, j)
    BY <1>1, <1>5, <1>6 DEF LineEnd
  <2>3. \A m \in i..pos : m \in i..pos - 1 \/ m = pos
    BY <1>1
  <2>4. \A m \in pos - iNNN..pos : m \in pos - iNNN..pos - 1 \/ m = pos
    BY <1>1
  <2>5. \A m \in i..pos : t[m] \in LineEnd \union {"N"}
    BY <1>1, <1>2, <1>6, <2>3
  <2>6. \A m \in pos - iNNN..pos : t[m] = "N"
    BY <1>1, <1>2, <1>6, <2>4
  <2> QED BY <1>2, <1>6, <2>1, <2>2, <2>5, <2>6 DEF CountersFit
<1>7. CASE ch' \in LineEnd /\ count' = count + 1 /\ iNNN' = 0 /\ rnCount' = rnCount + 1
  <2>1. pos' - count' = i /\ pos' - 1 = pos /\ pos' - iNNN' = pos + 1
    BY <1>1, <1>7
  <2>2. Cardinality(LineEndsIn(t, i, pos)) = rnCount + 1
    BY <1>1, <1>2, <1>5, <1>7
  <2>3. \A m \in i..pos : t[m] \in LineEnd \union {"N"}
    BY <1>1, <1>2, <1>7
  <2>4. \A m \in pos + 1..pos : t[m] = "N"
    BY <1>1
  <2> QED BY <1>7, <2>1, <2>2, <2>3, <2>4 DEF CountersFit
<1> QED BY <1>3, <1>6, <1>7 DEF Count, OfMark

(* What getMessage() takes for the end of a bulletin is an end mark.        *)
LEMMA FoundIsEndMark ==
  ASSUME SInv, pc = "mark", NEW t, t = file.text, CountersFit(t),
         Get, OfMark, iNNN = 3, rnCount > 2
  PROVE  IsEndMark(t, pos - count, pos)
<1>1. /\ pos \in Int /\ count \in Nat /\ rnCount \in Nat /\ t[pos] = "N"
      /\ iNNN + rnCount <= count
  BY GetTakes, Numbers DEF SInv, TypeOK, OfMark, Counted
<1>2. /\ \A m \in pos - count..pos - 1 : t[m] \in LineEnd \union {"N"}
      /\ \A m \in pos - 3..pos - 1 : t[m] = "N"
      /\ rnCount = Cardinality(LineEndsIn(t, pos - count, pos - 1))
  BY DEF CountersFit
<1> DEFINE i == pos - count
           j == pos - 1
<1>3. i \in Int /\ j \in Int /\ i <= j + 1 /\ j + 1 = pos
  BY <1>1
<1>4. t[pos] \notin LineEnd
  BY <1>1 DEF LineEnd
<1>5. LineEndsIn(t, i, pos) = LineEndsIn(t, i, j)
  <2> HIDE DEF i, j
  <2> QED BY <1>3, <1>4, OneLineEnd
<1>6. Cardinality(LineEndsIn(t, i, pos)) > 2
  BY <1>1, <1>2, <1>5
<1>7. \A m \in i..pos : t[m] \in LineEnd \union {"N"}
  BY <1>1, <1>2
<1>8. \A m \in pos - 3..pos : m >= i /\ t[m] = "N"
  BY <1>1, <1>2
<1> QED BY <1>6, <1>7, <1>8 DEF IsEndMark

(* The counters stand for that in every state.                              *)
LEMMA CountersNext ==
  ASSUME SInv, NEW t, t = file.text, pc = "mark" => CountersFit(t), [Next]_vars
  PROVE  pc' = "mark" => CountersFit(t)'
<1> USE DEF stream, mark
<1>1. CASE UNCHANGED vars
  BY <1>1 DEF vars, CountersFit
<1>2. CASE ReadBody
  BY <1>2, CountersStep DEF ReadBody
<1>3. CASE EndLine
  <2>1. pos' = pos /\ count' = 0 /\ iNNN' = 0 /\ rnCount' = 0 /\ pos \in Nat
    BY <1>3, Numbers DEF EndLine, Peek, SInv, Fresh
  <2>2. Cardinality(LineEndsIn(t, pos, pos - 1)) = 0
    BY <2>1, NoLineEndYet
  <2>3. pos' - count' = pos /\ pos' - iNNN' = pos /\ pos' - 1 = pos - 1
    BY <2>1
  <2>4. \A m \in pos..pos - 1 : FALSE
    BY <2>1
  <2> QED BY <2>1, <2>2, <2>3, <2>4 DEF CountersFit
<1>4. UNCHANGED vars \/ ReadBody \/ EndLine \/ pc' # "mark"
  BY DEF Next, Step, Stopped, NextMessage, Done, Search, SearchEnds, NotFound,
         ReadLine, ReadMark, BodyEnds, EndMessage, EndOfStream, ReadTail,
         NoLineEnd, TakeMessage
<1> QED BY <1>1, <1>2, <1>3, <1>4

(***************************************************************************)
(* Within a frame                                                          *)
(***************************************************************************)
Place == [h : Nat, b : Nat, e : Nat, n : Nat, z : Nat]

(* The scanner is in the frame w of its file.                               *)
Within(t, w, s) ==
  /\ t = file.text /\ w \in Place /\ s \in Nat \ {0}
  /\ IsFrame(t, w, s)
  /\ InFrame(t, w, s)

(* The order of the places of a frame.                                      *)
LEMMA Order ==
  ASSUME SInv, NEW t, NEW w, NEW s, Within(t, w, s)
  PROVE  /\ w.h \in Nat /\ w.b \in Nat /\ w.e \in Nat /\ w.n \in Nat /\ w.z \in Nat
         /\ Len(t) \in Nat /\ s \in Nat /\ 0 < s
         /\ s <= w.h /\ w.h + 4 < w.b /\ w.b < w.e
         /\ w.e + 3 <= w.n /\ w.n + 4 <= w.z /\ w.z <= Len(t)
BY Numbers DEF Within, IsFrame, Place

(* As long as there are characters, get() does not fail.                    *)
LEMMA NoFailure ==
  ASSUME SInv, NEW t, NEW w, NEW s, Within(t, w, s), pos <= Len(t)
  PROVE  ~ GetFails /\ ~ eofbit
BY DEF Within, InFrame, GetFails, Ready

(* No beginning of ZCZC is in front of the frame.                           *)
LEMMA NoZCZCBefore ==
  ASSUME NEW t, NEW w \in Place, NEW s \in Nat, IsFrame(t, w, s),
         NEW p \in s..w.h, NEW z \in 1..4, z <= p - s, p = w.h \/ z = 4,
         \A j \in 1..z : t[p - z + j - 1] = ZCZC[j]
  PROVE  FALSE
<1>1. p \in Nat /\ w.h \in Nat /\ p - z \in s..w.h - 1
  BY DEF Place
<1>2. PICK j \in 0..3 : p - z + j < w.h /\ t[p - z + j] # ZCZC[j + 1]
  BY <1>1 DEF IsFrame
<1>3. j + 1 \in 1..z /\ p - z + (j + 1) - 1 = p - z + j
  BY <1>1, <1>2
<1> QED BY <1>2, <1>3

LEMMA SearchKeeps ==
  ASSUME SInv, NEW t, NEW w, NEW s, Within(t, w, s), Search
  PROVE  InFrame(t, w, s)'
<1>1. /\ pos \in s..w.h + 3
      /\ pos <= w.h => /\ izc <= pos - s
                       /\ \A j \in 1..izc : t[pos - izc + j - 1] = ZCZC[j]
      /\ pos >= w.h => izc = pos - w.h
      /\ ~ eofbit /\ ~ failbit
  BY DEF Search, Within, InFrame, SearchFits
<1>2. /\ pos' = pos + 1 /\ ch' = t[pos] /\ UNCHANGED <<eofbit, failbit>>
      /\ izc \in 0..3
  BY GetTakes DEF Search, Within, SInv, TypeOK
<1>3. /\ izc' = IF ch' = ZCZC[izc + 1] THEN izc + 1 ELSE 0
      /\ pc' = IF izc' = 4 THEN "line" ELSE "search"
  <2>1. Len(ZCZC) = 4
    BY DEF ZCZC
  <2> QED BY <2>1 DEF Search
<1>4. /\ w.h \in Nat /\ w.b \in Nat /\ s \in Nat /\ s <= w.h /\ w.h + 4 < w.b
      /\ w \in Place /\ IsFrame(t, w, s)
      /\ \A j \in 1..4 : t[w.h + j - 1] = ZCZC[j]
  BY Order DEF Within, IsFrame
<1>5. CASE pos >= w.h
  <2>1. izc + 1 \in 1..4 /\ w.h + (izc + 1) - 1 = pos
    BY <1>1, <1>2, <1>4, <1>5
  <2>2. izc' = izc + 1
    BY <1>2, <1>3, <1>4, <2>1
  <2>3. CASE izc' = 4
    BY <1>1, <1>2, <1>3, <1>4, <1>5, <2>2, <2>3 DEF InFrame
  <2>4. CASE izc' # 4
    <3>1. SearchFits(t, w, s)'
      BY <1>1, <1>2, <1>4, <1>5, <2>2, <2>4 DEF SearchFits
    <3> QED BY <1>1, <1>2, <1>3, <2>4, <3>1 DEF InFrame
  <2> QED BY <2>3, <2>4
<1>6. CASE pos < w.h
  <2>1. /\ pos + 1 \in s..w.h /\ izc' \in 0..4 /\ izc' <= pos + 1 - s
    BY <1>1, <1>2, <1>3, <1>4, <1>6
  <2>2. \A j \in 1..izc' : t[pos + 1 - izc' + j - 1] = ZCZC[j]
    <3>1. CASE izc' = 0
      BY <3>1
    <3>2. CASE izc' = izc + 1 /\ t[pos] = ZCZC[izc + 1]
      <4> SUFFICES ASSUME NEW j \in 1..izc + 1
                   PROVE  t[pos - izc + j - 1] = ZCZC[j]
        <5>1. pos + 1 - (izc + 1) = pos - izc
          BY <1>1, <1>2, <1>4
        <5> QED BY <3>2, <5>1
      <4>1. CASE j = izc + 1
        <5>1. pos - izc + j - 1 = pos
          BY <1>1, <1>2, <1>4, <4>1
        <5> QED BY <3>2, <4>1, <5>1
      <4>2. CASE j # izc + 1
        <5>1. j \in 1..izc /\ pos <= w.h
          BY <1>1, <1>2, <1>4, <1>6, <4>2
        <5> QED BY <1>1, <5>1
      <4> QED BY <4>1, <4>2
    <3> QED BY <1>2, <1>3, <3>1, <3>2
  <2>3. izc' # 4 /\ (pos + 1 = w.h => izc' = 0)
    <3> DEFINE c == izc'
               p == pos + 1
    <3>1. p \in s..w.h /\ c \in 0..4 /\ c <= p - s
      BY <1>1, <1>4, <2>1
    <3>2. \A j \in 1..c : t[p - c + j - 1] = ZCZC[j]
      BY <1>1, <1>4, <2>1, <2>2
    <3> HIDE DEF c, p
    <3>3. ~ (c \in 1..4 /\ (p = w.h \/ c = 4))
      BY <1>4, <3>1, <3>2, NoZCZCBefore
    <3>4. c # 4 /\ (p = w.h => c = 0)
      BY <3>1, <3>3
    <3> QED BY <3>4 DEF c, p
  <2>4. SearchFits(t, w, s)'
    <3>1. pos' \in s..w.h + 3 /\ pos' <= w.h /\ (pos' >= w.h => izc' = pos' - w.h)
      BY <1>2, <1>4, <2>1, <2>3
    <3>2. izc' <= pos' - s
      BY <1>1, <1>2, <1>4, <2>1
    <3>3. ASSUME NEW j \in 1..izc' PROVE t[pos' - izc' + j - 1] = ZCZC[j]
      <4>1. pos' - izc' + j - 1 = pos + 1 - izc' + j - 1
        BY <1>1, <1>2, <1>4, <2>1
      <4> QED BY <2>2, <4>1
    <3> QED BY <3>1, <3>2, <3>3 DEF SearchFits
  <2> QED BY <1>1, <1>2, <1>3, <2>3, <2>4 DEF InFrame
<1> QED BY <1>1, <1>4, <1>5, <1>6

(* The line of ZCZC ends where the bulletin begins.                         *)
LEMMA LineKeeps ==
  ASSUME SInv, NEW t, NEW w, NEW s, Within(t, w, s), ReadLine \/ EndLine
  PROVE  InFrame(t, w, s)'
<1>1. /\ pos \in w.h + 4..w.b /\ ~ eofbit /\ ~ failbit /\ pc = "line"
      /\ pos > 1 /\ ch = t[pos - 1] /\ Fresh
  BY DEF ReadLine, EndLine, Within, InFrame, SInv
<1>2. /\ w.h \in Nat /\ w.b \in Nat /\ w.e \in Nat /\ w.n \in Nat
      /\ w.b < w.e /\ w.e + 3 <= w.n /\ pos <= Len(t) /\ w.b <= Len(t)
      /\ Len(t) \in Nat /\ 0 < w.b
  <2>1. w.h \in Nat /\ w.b \in Nat
    BY Order
  <2>2. pos \in Nat /\ pos <= w.b
    BY <1>1, <2>1
  <2>3. /\ w.e \in Nat /\ w.n \in Nat /\ w.z \in Nat /\ w.b < w.e /\ w.e + 3 <= w.n
        /\ w.n + 4 <= w.z /\ w.z <= Len(t) /\ Len(t) \in Nat /\ w.h + 4 < w.b
    BY Order
  <2> QED BY <2>1, <2>2, <2>3
<1>3. ~ GetFails /\ t \in Seq(Char) /\ t = file.text /\ Ready
  BY <1>1, <1>2, NoFailure, Numbers DEF Within, Ready
<1>4. /\ \A m \in w.h + 4..w.b - 1 : t[m] \in ValidCh
      /\ t[w.b - 1] = "\n" /\ t[w.b] \notin ValidCh
  BY DEF Within, IsFrame
<1>5. CASE ReadLine
  <2>1. /\ pos' = pos + 1 /\ t[pos] \in ValidCh /\ pc' = "line"
        /\ UNCHANGED <<eofbit, failbit>>
    BY <1>1, <1>3, <1>5, GetTakes DEF ReadLine
  <2>2. pos' \in w.h + 4..w.b
    BY <1>1, <1>2, <1>4, <2>1
  <2> QED BY <1>1, <2>1, <2>2 DEF InFrame
<1>6. CASE EndLine
  <2>1. /\ t[pos] \notin ValidCh /\ pos' = pos /\ ~ eofbit' /\ ~ failbit'
        /\ UNCHANGED ost /\ pc' = IF ch = "\n" THEN "mark" ELSE "decode"
    BY <1>3, <1>6 DEF EndLine, Peek, mark
  <2>2. pos = w.b
    BY <1>1, <1>2, <1>4, <2>1
  <2>3. pc' = "mark"
    BY <1>1, <1>4, <2>1, <2>2
  <2>4. ost' = SubSeq(t, w.b, pos' - 1)
    <3>1. ost' = <<>>
      BY <1>1, <2>1 DEF Fresh
    <3>2. SubSeq(t, w.b, w.b - 1) = <<>>
      BY <1>2, <1>3
    <3> QED BY <2>1, <2>2, <3>1, <3>2
  <2>5. pos' \in w.b..w.n + 3 /\ ~ pos' \in w.e..w.n /\ ~ pos' > w.n
    BY <1>2, <2>1, <2>2
  <2> QED BY <2>1, <2>3, <2>4, <2>5 DEF InFrame, BodyFits
<1> QED BY <1>5, <1>6

(* The bulletin is read up to NNNN: no end mark is found before.            *)
LEMMA BodyKeeps ==
  ASSUME SInv, NEW t, NEW w, NEW s, Within(t, w, s), CountersFit(t),
         ReadBody \/ ReadMark
  PROVE  InFrame(t, w, s)'
<1>14. /\ pc = "mark" /\ ~ eofbit /\ ~ failbit /\ Get /\ ost' = Append(ost, ch')
       /\ ost = SubSeq(t, w.b, pos - 1)
  BY DEF ReadBody, ReadMark, Within, InFrame, BodyFits
<1>1. /\ pos \in w.b..w.n + 3
      /\ pos \in w.e..w.n => iNNN = 0 /\ rnCount = pos - w.e /\ count = pos - w.e
      /\ pos > w.n =>
           iNNN = pos - w.n /\ rnCount = w.n - w.e /\ count = pos - w.e
  BY DEF ReadBody, ReadMark, Within, InFrame, BodyFits
<1>2. /\ w.b \in Nat /\ w.e \in Nat /\ w.n \in Nat /\ w.z \in Nat /\ Len(t) \in Nat
      /\ 0 < w.b /\ w.b < w.e /\ w.e + 3 <= w.n /\ w.n + 4 <= w.z /\ w.z <= Len(t)
  <2>1. /\ w.h \in Nat /\ w.b \in Nat /\ w.h + 4 < w.b
    BY Order
  <2>2. 0 < w.b
    BY <2>1
  <2> QED BY <2>2, Order
<1>12. t \in Seq(Char) /\ t = file.text
  BY Numbers DEF Within
<1>3. /\ pos \in 1..Len(t) /\ pos' = pos + 1 /\ ch' = t[pos]
      /\ UNCHANGED <<eofbit, failbit>>
  BY <1>12, <1>14, GetTakes
<1>13. /\ pos \in Nat /\ w.b <= pos /\ pos <= w.n + 3 /\ pos' = pos + 1
       /\ iNNN \in 0..4 /\ rnCount \in Nat /\ count \in Nat
  <2>1. iNNN \in 0..4 /\ rnCount \in Nat /\ count \in Nat
    BY Numbers
  <2> QED BY <1>1, <1>2, <1>3, <2>1
<1>15. pos \in Nat /\ w.b \in Nat /\ w.e \in Nat /\ w.n \in Nat /\ pos' = pos + 1
  BY <1>2, <1>13
<1>4. ost' = SubSeq(t, w.b, pos' - 1)
  <2>1. ost' = SubSeq(t, w.b, pos)
    <3>1. w.b \in Nat \ {0} /\ pos \in 1..Len(t) /\ w.b <= pos
      BY <1>2, <1>3, <1>13
    <3>2. Append(SubSeq(t, w.b, pos - 1), t[pos]) = SubSeq(t, w.b, pos)
      BY <1>12, <3>1, PieceGrows
    <3> QED BY <1>3, <1>14, <3>2
  <2>2. pos' - 1 = pos
    BY <1>3
  <2> QED BY <2>1, <2>2
<1>5. pos - count >= w.b
  <2>1. Len(ost) = pos - w.b
    <3>1. w.b \in Nat \ {0} /\ pos - 1 \in 0..Len(t) /\ w.b <= pos - 1 + 1
      BY <1>2, <1>3, <1>13
    <3>2. Len(SubSeq(t, w.b, pos - 1)) = pos - 1 - w.b + 1
      BY <1>12, <3>1, PieceIndex
    <3>3. pos - 1 - w.b + 1 = pos - w.b
      BY <1>15
    <3> QED BY <1>14, <3>2, <3>3
  <2>2. count <= Len(ost)
    BY Numbers
  <2> QED BY <1>2, <1>3, <1>13, <2>1, <2>2
<1>6. /\ t[w.e - 1] \notin LineEnd \union {"N"}
      /\ \A i, p \in w.b..w.e - 1 : ~ IsEndMark(t, i, p)
      /\ \A m \in w.e..w.n - 1 : t[m] \in LineEnd
      /\ \A m \in w.n..w.n + 3 : t[m] = "N"
  BY DEF Within, IsFrame
<1>7. CASE pos < w.e
  <2>1. ~ ReadMark
    <3>1. ASSUME ReadMark PROVE IsEndMark(t, pos - count, pos)
      BY <1>12, <1>14, <3>1, FoundIsEndMark DEF ReadMark
    <3>2. pos - count \in w.b..w.e - 1 /\ pos \in w.b..w.e - 1
      BY <1>2, <1>13, <1>5, <1>7
    <3> QED BY <1>6, <3>1, <3>2
  <2>2. Count /\ pc' = "mark"
    BY <1>14, <2>1 DEF ReadBody
  <2>3. pos' \in w.b..w.n + 3 /\ ~ pos' > w.n /\ (pos' \in w.e..w.n => pos' = w.e)
    BY <1>1, <1>2, <1>3, <1>7
  <2>4. pos' = w.e => iNNN' = 0 /\ rnCount' = 0 /\ count' = 0
    <3>1. pos' = w.e => ch' \notin LineEnd /\ ch' # "N"
      <4>1. pos' = w.e => pos = w.e - 1
        BY <1>2, <1>3
      <4> QED BY <1>3, <1>6, <4>1
    <3> QED BY <2>2, <3>1 DEF Count, OfMark
  <2>5. pos' \in w.e..w.n =>
          iNNN' = 0 /\ rnCount' = pos' - w.e /\ count' = pos' - w.e
    BY <1>2, <2>3, <2>4
  <2>6. BodyFits(t, w)'
    BY <1>4, <2>3, <2>5 DEF BodyFits
  <2> QED BY <1>14, <1>3, <2>2, <2>6 DEF InFrame
<1>8. CASE pos >= w.e /\ pos < w.n
  <2>1. pos \in w.e..w.n - 1 /\ pos \in w.e..w.n
    BY <1>2, <1>3, <1>8
  <2>2. ch' \in LineEnd /\ ~ OfMark
    BY <1>3, <1>6, <2>1 DEF LineEnd, OfMark
  <2>3. Count /\ pc' = "mark"
    BY <1>14, <2>2 DEF ReadBody, ReadMark
  <2>4. iNNN' = 0 /\ rnCount' = rnCount + 1 /\ count' = count + 1
    BY <2>2, <2>3 DEF Count
  <2>5. /\ pos' \in w.b..w.n + 3 /\ ~ pos' > w.n
        /\ rnCount' = pos' - w.e /\ count' = pos' - w.e
    <3>1. pos' \in w.b..w.n + 3 /\ ~ pos' > w.n
      BY <1>2, <1>13, <1>8
    <3>2. rnCount = pos - w.e /\ count = pos - w.e
      BY <1>1, <2>1
    <3>3. rnCount' = pos' - w.e /\ count' = pos' - w.e
      BY <1>2, <1>13, <2>4, <3>2
    <3> QED BY <3>1, <3>3
  <2>6. BodyFits(t, w)'
    BY <1>4, <2>4, <2>5 DEF BodyFits
  <2> QED BY <1>14, <1>3, <2>3, <2>6 DEF InFrame
<1>9. CASE pos >= w.n /\ pos < w.n + 3
  <2>1. pos \in w.n..w.n + 3 /\ iNNN = pos - w.n /\ iNNN < 3
        /\ rnCount = w.n - w.e /\ count = pos - w.e
    BY <1>1, <1>2, <1>3, <1>9
  <2>2. OfMark /\ ~ ReadMark
    BY <1>3, <1>6, <2>1 DEF OfMark, ReadMark
  <2>3. Count /\ pc' = "mark"
    BY <1>14, <2>2 DEF ReadBody
  <2>4. iNNN' = iNNN + 1 /\ rnCount' = rnCount /\ count' = count + 1
    BY <2>2, <2>3 DEF Count
  <2>5. /\ pos' \in w.b..w.n + 3 /\ ~ pos' \in w.e..w.n
        /\ iNNN' = pos' - w.n /\ rnCount' = w.n - w.e /\ count' = pos' - w.e
    <3>1. pos' \in w.b..w.n + 3 /\ ~ pos' \in w.e..w.n
      BY <1>2, <1>13, <1>9
    <3>2. iNNN' = pos' - w.n /\ rnCount' = w.n - w.e
      BY <1>15, <2>1, <2>4
    <3>3. count' = pos' - w.e
      BY <1>15, <2>1, <2>4
    <3> QED BY <3>1, <3>2, <3>3
  <2>6. BodyFits(t, w)'
    BY <1>4, <2>5 DEF BodyFits
  <2> QED BY <1>14, <1>3, <2>3, <2>6 DEF InFrame
<1>10. CASE pos = w.n + 3
  <2>1. pos \in w.n..w.n + 3 /\ iNNN = 3 /\ rnCount = w.n - w.e /\ rnCount > 2
        /\ count = pos - w.e
    BY <1>1, <1>2, <1>3, <1>10
  <2>2. OfMark
    BY <1>3, <1>6, <2>1 DEF OfMark
  <2>3. ~ ReadBody
    <3>1. Count => iNNN' = 4 /\ rnCount' > 2
      BY <2>1, <2>2 DEF Count
    <3> QED BY <3>1 DEF ReadBody
  <2>4. pc' = "tail" /\ rnCount' = 0 /\ count' = count + 1
    BY <1>14, <2>3 DEF ReadMark
  <2>5. pos' \in w.n + 4..w.z + 1 /\ rnCount' = pos' - w.n - 4 /\ count' = pos' - w.e
    <3>1. pos' \in w.n + 4..w.z + 1
      BY <1>2, <1>13, <1>10
    <3>2. rnCount' = pos' - w.n - 4
      BY <1>2, <1>13, <1>10, <2>4
    <3>3. count' = pos' - w.e
      BY <1>15, <2>1, <2>4
    <3> QED BY <3>1, <3>2, <3>3
  <2>6. ch' = t[pos' - 1]
    <3>1. pos' - 1 = pos
      BY <1>3
    <3> QED BY <1>3, <3>1
  <2>7. TailFits(t, w)'
    BY <1>4, <2>5, <2>6 DEF TailFits
  <2> QED BY <1>14, <1>3, <2>4, <2>7 DEF InFrame
<1>11. pos < w.e \/ (pos >= w.e /\ pos < w.n) \/ (pos >= w.n /\ pos < w.n + 3)
       \/ pos = w.n + 3
  BY <1>2, <1>13
<1> QED BY <1>7, <1>8, <1>9, <1>10, <1>11

(* In the end mark, behind NNNN.                                            *)
LEMMA InTail ==
  ASSUME SInv, NEW t, NEW w, NEW s, Within(t, w, s), pc = "tail"
  PROVE  /\ pos \in Nat /\ w.n + 4 <= pos /\ pos <= w.z + 1
         /\ pos <= w.z => t[pos] \in LineEnd
         /\ pos = w.z + 1 => MarkIsWhole \/ (pos > Len(t) /\ rnCount > 0)
         /\ MarkIsWhole => pos = w.z + 1
         /\ rnCount > 0 \/ pos = w.n + 4
<1>1. /\ pos \in w.n + 4..w.z + 1 /\ rnCount = pos - w.n - 4 /\ ch = t[pos - 1]
  BY DEF Within, InFrame, TailFits
<1>2. w.n \in Nat /\ w.z \in Nat /\ w.n + 4 <= w.z /\ Len(t) \in Nat
  BY Order
<1>3. /\ \A m \in w.n + 4..w.z - 1 : t[m] = "\r"
      /\ t[w.z] = "\n" \/ (w.z = Len(t) /\ t[w.z] = "\r")
  BY DEF Within, IsFrame
<1>4. pos \in Nat /\ w.n + 4 <= pos /\ pos <= w.z + 1
  BY <1>1, <1>2
<1>5. pos <= w.z => t[pos] \in LineEnd
  <2>1. pos < w.z => pos \in w.n + 4..w.z - 1
    BY <1>2, <1>4
  <2>2. pos <= w.z => pos < w.z \/ pos = w.z
    BY <1>2, <1>4
  <2> QED BY <1>3, <2>1, <2>2 DEF LineEnd
<1>6. rnCount > 0 \/ pos = w.n + 4
  BY <1>1, <1>2, <1>4
<1>7. pos = w.z + 1 => MarkIsWhole \/ (pos > Len(t) /\ rnCount > 0)
  <2>1. pos = w.z + 1 => pos - 1 = w.z /\ pos # w.n + 4
    BY <1>2
  <2>2. w.z = Len(t) /\ pos = w.z + 1 => pos > Len(t)
    BY <1>2
  <2> QED BY <1>1, <1>3, <1>6, <2>1, <2>2 DEF MarkIsWhole
<1>8. MarkIsWhole => pos = w.z + 1
  <2> SUFFICES ASSUME ch = "\n", rnCount > 0 PROVE pos = w.z + 1
    BY DEF MarkIsWhole
  <2>1. pos > w.n + 4
    BY <1>1, <1>2, <1>4
  <2>2. ~ pos - 1 \in w.n + 4..w.z - 1
    BY <1>1, <1>3
  <2> QED BY <1>2, <1>4, <2>1, <2>2
<1> QED BY <1>4, <1>5, <1>6, <1>7, <1>8

(* The line ends behind NNNN are read to the last one.                      *)
LEMMA TailKeeps ==
  ASSUME SInv, NEW t, NEW w, NEW s, Within(t, w, s), ReadTail
  PROVE  InFrame(t, w, s)'
<1>1. /\ pc = "tail" /\ ~ eofbit /\ ~ failbit /\ Get /\ ost' = Append(ost, ch')
      /\ rnCount' = rnCount + 1 /\ count' = count + 1 /\ pc' = "tail" /\ ~ MarkIsWhole
      /\ ost = SubSeq(t, w.b, pos - 1)
  BY DEF ReadTail, Within, InFrame, TailFits
<1>2. rnCount = pos - w.n - 4 /\ count = pos - w.e
  BY <1>1 DEF Within, InFrame, TailFits
<1>3. t \in Seq(Char) /\ t = file.text
  BY Numbers DEF Within
<1>4. /\ pos \in 1..Len(t) /\ pos' = pos + 1 /\ ch' = t[pos]
      /\ UNCHANGED <<eofbit, failbit>>
  BY <1>1, <1>3, GetTakes
<1>5. pos \in Nat /\ w.n + 4 <= pos /\ pos <= w.z + 1 /\ ~ pos = w.z + 1
  <2>1. pos \in Nat /\ Len(t) \in Nat /\ ~ pos > Len(t)
    BY <1>3, <1>4
  <2> QED BY <1>1, <2>1, InTail
<1>6. /\ w.b \in Nat /\ w.e \in Nat /\ w.n \in Nat /\ w.z \in Nat
      /\ w.h \in Nat /\ w.h + 4 < w.b /\ w.b < w.e /\ w.e + 3 <= w.n
  BY Order
<1>7. pos' \in w.n + 4..w.z + 1
  BY <1>4, <1>5, <1>6
<1>14. /\ pos \in Nat /\ w.n \in Nat /\ w.e \in Nat /\ pos' = pos + 1
       /\ rnCount' = rnCount + 1 /\ count' = count + 1
  BY <1>1, <1>4, <1>5, <1>6
<1>8. rnCount' = pos' - w.n - 4
  BY <1>2, <1>14
<1>9. count' = pos' - w.e
  BY <1>2, <1>14
<1>10. pos' - 1 = pos
  BY <1>4, <1>5
<1>11. w.b \in Nat \ {0} /\ w.b <= pos
  BY <1>5, <1>6
<1>12. ost' = SubSeq(t, w.b, pos' - 1)
  <2>1. Append(SubSeq(t, w.b, pos - 1), t[pos]) = SubSeq(t, w.b, pos)
    BY <1>3, <1>4, <1>11, PieceGrows
  <2> QED BY <1>1, <1>4, <1>10, <2>1
<1>13. TailFits(t, w)'
  BY <1>4, <1>7, <1>8, <1>9, <1>10, <1>12 DEF TailFits
<1> QED BY <1>1, <1>4, <1>13 DEF InFrame

(* The bulletin of the frame is passed on.                                  *)
Passes(t, w) ==
  /\ pc' = "decode" /\ pos' = w.z + 1
  /\ out' = Append(out, SubSeq(t, w.b, w.e - 1))
  /\ w.z < Len(t) => ~ eofbit' /\ ~ failbit'

LEMMA TailPasses ==
  ASSUME SInv, NEW t, NEW w, NEW s, Within(t, w, s), EndMessage \/ EndOfStream
  PROVE  Passes(t, w)
<1>1. pc = "tail" /\ ~ failbit /\ TakeMessage /\ ost = SubSeq(t, w.b, pos - 1)
      /\ t = file.text
  BY DEF EndMessage, EndOfStream, Within, InFrame, TailFits
<1>2. count = pos - w.e
  BY <1>1 DEF Within, InFrame, TailFits
<1>3. t \in Seq(Char) /\ Len(ost) \in Nat /\ pos \in 1..Len(t) + 1
  BY Numbers DEF Within
<1>4. /\ w.b \in Nat /\ w.e \in Nat /\ w.n \in Nat /\ w.z \in Nat /\ Len(t) \in Nat
      /\ w.h \in Nat /\ w.h + 4 < w.b /\ w.b < w.e /\ w.e + 3 <= w.n
      /\ w.z <= Len(t) /\ w.n + 4 <= w.z
  BY Order
<1>5. /\ pos \in Nat /\ pos <= w.z + 1 /\ w.n + 4 <= pos
      /\ pos = w.z + 1 => MarkIsWhole \/ (pos > Len(t) /\ rnCount > 0)
      /\ MarkIsWhole => pos = w.z + 1
  BY <1>1, InTail
<1>6. pos = w.z + 1
  <2>1. CASE EndMessage
    BY <1>5, <2>1 DEF EndMessage
  <2>2. CASE EndOfStream
    <3>1. pos > Len(t)
      BY <1>1, <1>3, <1>4, <1>5, <2>2 DEF EndOfStream, GetFails, Ready
    <3> QED BY <1>4, <1>5, <3>1
  <2> QED BY <2>1, <2>2
<1>7. pos' = pos /\ (w.z < Len(t) => ~ eofbit' /\ ~ failbit')
  <2>1. CASE EndMessage
    BY <2>1 DEF EndMessage, Peek
  <2>2. CASE EndOfStream
    <3>1. ~ w.z < Len(t)
      BY <1>1, <1>4, <1>6, <2>2 DEF EndOfStream, GetFails, Ready
    <3> QED BY <2>2, <3>1 DEF EndOfStream, GetFails
  <2> QED BY <2>1, <2>2
<1>13. pos \in Nat /\ w.b \in Nat /\ w.e \in Nat /\ w.b < w.e /\ w.e <= pos
  BY <1>4, <1>5
<1>8. w.b \in Nat \ {0} /\ pos - 1 \in 0..Len(t) /\ w.b <= pos - 1 + 1
  <2>1. w.b # 0
    BY <1>4
  <2>2. pos - 1 \in 0..Len(t)
    BY <1>3, <1>4, <1>13
  <2> QED BY <1>13, <2>1, <2>2
<1>9. Len(ost) - count = w.e - w.b
  <2>1. Len(SubSeq(t, w.b, pos - 1)) = pos - 1 - w.b + 1
    BY <1>3, <1>8, PieceIndex
  <2>3. Len(ost) = pos - 1 - w.b + 1
    BY <1>1, <2>1
  <2> QED BY <1>2, <1>13, <2>3
<1>10. w.e - w.b \in 0..pos - 1 - w.b + 1 /\ w.b + (w.e - w.b) - 1 = w.e - 1
  BY <1>13
<1>11. SubSeq(SubSeq(t, w.b, pos - 1), 1, w.e - w.b) = SubSeq(t, w.b, w.e - 1)
  <2> DEFINE k == w.e - w.b
             j == pos - 1
  <2>1. k \in 0..j - w.b + 1 /\ j \in 0..Len(t) /\ w.b <= j + 1 /\ w.b \in Nat \ {0}
    BY <1>8, <1>10
  <2> HIDE DEF j, k
  <2>2. SubSeq(SubSeq(t, w.b, j), 1, k) = SubSeq(t, w.b, w.b + k - 1)
    BY <1>3, <2>1, PieceOfPiece
  <2> QED BY <1>10, <2>2 DEF j, k
<1>12. out' = Append(out, SubSeq(t, w.b, w.e - 1))
  BY <1>1, <1>9, <1>11 DEF TakeMessage
<1> QED BY <1>1, <1>6, <1>7, <1>12 DEF Passes, TakeMessage

(* Within a frame the scanner gets on, or passes on its bulletin.           *)
LEMMA FrameStep ==
  ASSUME SInv, NEW t, NEW w, NEW s, Within(t, w, s),
         pc = "mark" => CountersFit(t), [Next]_vars
  PROVE  (UNCHANGED out /\ InFrame(t, w, s)') \/ Passes(t, w)
<1>1. InFrame(t, w, s) /\ ~ eofbit /\ ~ failbit /\ pc # "done"
  BY DEF Within, InFrame
<1>2. /\ s \in Nat /\ w.h \in Nat /\ w.b \in Nat /\ w.e \in Nat /\ w.n \in Nat
      /\ w.z \in Nat /\ Len(t) \in Nat /\ s <= w.h /\ w.h + 4 < w.b
      /\ w.b < w.e /\ w.e + 3 <= w.n /\ w.n + 4 <= w.z /\ w.z <= Len(t)
  BY Order
<1>3. CASE UNCHANGED vars
  BY <1>1, <1>3 DEF vars, stream, mark, InFrame, SearchFits, BodyFits, TailFits
<1>4. CASE NextMessage
  <2>1. /\ pos' = s /\ izc' = 0 /\ pc' = "search"
        /\ UNCHANGED <<out, eofbit, failbit>>
    BY <1>1, <1>4 DEF NextMessage, stream, InFrame
  <2>2. pos' \in s..w.h + 3 /\ izc' <= pos' - s /\ (pos' >= w.h => izc' = pos' - w.h)
    BY <1>2, <2>1
  <2>3. \A j \in 1..izc' : FALSE
    BY <2>1
  <2>4. SearchFits(t, w, s)'
    BY <2>2, <2>3 DEF SearchFits
  <2> QED BY <1>1, <2>1, <2>4 DEF InFrame
<1>5. CASE Search
  BY <1>5, SearchKeeps DEF Search
<1>6. CASE ReadLine \/ EndLine
  BY <1>6, LineKeeps DEF ReadLine, EndLine
<1>7. CASE ReadBody \/ ReadMark
  BY <1>7, BodyKeeps DEF ReadBody, ReadMark
<1>8. CASE ReadTail
  BY <1>8, TailKeeps DEF ReadTail
<1>9. CASE EndMessage \/ EndOfStream
  BY <1>9, TailPasses
<1>10. CASE Done \/ NotFound
  BY <1>1, <1>10 DEF Done, NotFound
<1>11. CASE SearchEnds
  <2>1. pos \in s..w.h + 3
    BY <1>1, <1>11 DEF SearchEnds, InFrame, SearchFits
  <2>3. pos \in Nat /\ pos <= w.h + 3
    BY <1>2, <2>1
  <2>4. w.h + 3 <= Len(t) /\ Len(t) \in Nat /\ w.h \in Nat
    BY <1>2
  <2>2. pos <= Len(t)
    BY <2>3, <2>4
  <2> QED BY <1>11, <2>2, NoFailure DEF SearchEnds
<1>12. CASE BodyEnds
  <2>1. pos \in w.b..w.n + 3
    BY <1>1, <1>12 DEF BodyEnds, InFrame, BodyFits
  <2>3. pos \in Nat /\ pos <= w.n + 3
    BY <1>2, <2>1
  <2>2. pos <= Len(t)
    BY <1>2, <2>3
  <2> QED BY <1>12, <2>2, NoFailure DEF BodyEnds
<1>13. CASE NoLineEnd
  <2>1. /\ pos \in Nat /\ pos <= w.z + 1
        /\ pos <= w.z => t[pos] \in LineEnd
        /\ pos = w.z + 1 => MarkIsWhole \/ (pos > Len(t) /\ rnCount > 0)
    BY <1>13, InTail DEF NoLineEnd
  <2>2. CASE Get /\ ch' \notin LineEnd
    <3>1. t = file.text /\ pos \in 1..Len(t) /\ ch' = t[pos]
      BY <2>2, GetTakes DEF Within
    <3>2. pos = w.z + 1
      BY <1>2, <2>1, <2>2, <3>1
    <3>3. ~ pos > Len(t)
      BY <1>2, <3>1
    <3> QED BY <1>13, <2>1, <3>2, <3>3 DEF NoLineEnd
  <2>3. CASE GetFails /\ rnCount = 0
    <3>1. ~ pos <= Len(t)
      BY <2>3, NoFailure
    <3>2. pos = w.z + 1
      BY <1>2, <2>1, <3>1
    <3> QED BY <1>13, <2>1, <2>3, <3>2 DEF NoLineEnd
  <2> QED BY <1>13, <2>2, <2>3 DEF NoLineEnd
<1>14. CASE Stopped
  BY <1>1, <1>14 DEF Stopped
<1> QED
  BY <1>3, <1>4, <1>5, <1>6, <1>7, <1>8, <1>9, <1>10, <1>11, <1>12, <1>13, <1>14
     DEF Next, Step

(***************************************************************************)
(* Behind the last frame                                                   *)
(***************************************************************************)
(* No bulletin ends from s on.                                              *)
NoneEnds(t, s) ==
  \A i, p \in s..Len(t) - 1 : IsEndMark(t, i, p) => t[p + 1] \notin LineEnd

(* A step behind the last frame, but for what getMessage() may find there.  *)
LEMMA NoneTaken ==
  ASSUME SInv, NEW t, t = file.text, NEW s \in Nat \ {0}, NoneEnds(t, s),
         BehindFrames(t, s), pc = "tail", rnCount > 0
  PROVE  FALSE
<1>1. /\ pos \in 1..Len(t) + 1 /\ Len(t) \in Nat /\ rnCount \in Nat
  BY Numbers
<1>2. PICK i \in s..pos : IsEndMark(t, i, pos - 1 - rnCount)
  BY DEF BehindFrames
<1> DEFINE p == pos - 1 - rnCount
<1>3. p - 3 \in p - 3..p /\ p \in Int
  BY <1>1
<1>4. p - 3 >= i
  BY <1>2, <1>3 DEF IsEndMark
<1>5. i \in s..Len(t) - 1 /\ p \in s..Len(t) - 1
  BY <1>1, <1>2, <1>3, <1>4
<1>6. p + 1 \in pos - rnCount..pos - 1
  BY <1>1
<1>7. t[p + 1] \in LineEnd
  BY <1>6 DEF BehindFrames
<1> QED BY <1>2, <1>5, <1>7 DEF NoneEnds

LEMMA BehindStep ==
  ASSUME SInv, NEW t, t = file.text, NEW s \in Nat \ {0}, NoneEnds(t, s),
         BehindFrames(t, s), pc = "mark" => CountersFit(t), [Next]_vars
  PROVE  UNCHANGED out /\ BehindFrames(t, s)'
<1> USE DEF stream, mark
<1>1. /\ pos \in Nat /\ s \in Nat /\ pos >= s /\ Len(ost) \in Nat
      /\ rnCount \in Nat /\ count \in Nat /\ count <= Len(ost)
  BY Numbers DEF BehindFrames
<1>2. CASE UNCHANGED vars
  BY <1>2 DEF vars, BehindFrames
<1>3. CASE ReadBody
  <2>1. pc = "mark" /\ pc' = "mark" /\ UNCHANGED out /\ pos' = pos + 1
        /\ Len(ost') = Len(ost) + 1
    BY <1>3, GetTakes, CharMore DEF ReadBody
  <2>2. pos' >= s /\ Len(ost') <= pos' - s
    BY <1>1, <2>1 DEF BehindFrames
  <2> QED BY <2>1, <2>2 DEF BehindFrames
<1>4. CASE ReadMark
  <2>1. /\ pc = "mark" /\ pc' = "tail" /\ UNCHANGED out /\ pos' = pos + 1
        /\ rnCount' = 0
    BY <1>4, GetTakes DEF ReadMark
  <2>2. IsEndMark(t, pos - count, pos)
    BY <1>4, FoundIsEndMark DEF ReadMark
  <2>3. Len(ost) <= pos - s
    BY <2>1 DEF BehindFrames
  <2>4. pos - count \in s..pos + 1 /\ pos' - 1 - rnCount' = pos /\ pos' >= s
    BY <1>1, <2>1, <2>3
  <2>5. \E i \in s..pos' : IsEndMark(t, i, pos' - 1 - rnCount')
    BY <2>1, <2>2, <2>4
  <2>6. \A m \in pos' - rnCount'..pos' - 1 : FALSE
    BY <1>1, <2>1
  <2> QED BY <2>1, <2>4, <2>5, <2>6 DEF BehindFrames
<1>5. CASE ReadTail
  <2>1. /\ pc = "tail" /\ pc' = "tail" /\ UNCHANGED out /\ pos' = pos + 1
        /\ ch' = t[pos] /\ ch' \in LineEnd /\ rnCount' = rnCount + 1
    BY <1>5, GetTakes DEF ReadTail
  <2>2. PICK i \in s..pos : IsEndMark(t, i, pos - 1 - rnCount)
    BY <2>1 DEF BehindFrames
  <2>3. /\ pos' - 1 - rnCount' = pos - 1 - rnCount /\ pos' - rnCount' = pos - rnCount
        /\ pos' - 1 = pos /\ pos' >= s /\ i \in s..pos'
    BY <1>1, <2>1
  <2>4. \A m \in pos - rnCount..pos : m \in pos - rnCount..pos - 1 \/ m = pos
    BY <1>1
  <2>5. \A m \in pos - rnCount..pos : t[m] \in LineEnd
    BY <2>1, <2>4 DEF BehindFrames
  <2> QED BY <2>1, <2>2, <2>3, <2>5 DEF BehindFrames
<1>6. CASE EndMessage \/ EndOfStream
  BY <1>6, NoneTaken DEF EndMessage, EndOfStream, MarkIsWhole
<1>7. CASE EndLine
  <2>1. Len(ost') = 0 /\ pos' = pos /\ UNCHANGED out /\ pc' # "tail"
    <3>1. Len(<<>>) = 0
      OBVIOUS
    <3> QED BY <1>7, <3>1 DEF EndLine, Peek, SInv, Fresh
  <2> QED BY <1>1, <2>1 DEF BehindFrames
<1>8. CASE /\ UNCHANGED out /\ pc' \notin {"mark", "tail"}
           /\ pos' = pos \/ pos' = pos + 1
  <2>1. pos' >= s
    BY <1>1, <1>8
  <2> QED BY <1>8, <2>1 DEF BehindFrames
<1>9. CASE Search \/ ReadLine \/ NoLineEnd
  <2>1. pos' = pos \/ pos' = pos + 1
    BY <1>9 DEF Search, ReadLine, NoLineEnd, Get, GetFails
  <2>2. UNCHANGED out /\ pc' \notin {"mark", "tail"}
    BY <1>9 DEF Search, ReadLine, NoLineEnd
  <2> QED BY <1>8, <2>1, <2>2
<1>10. CASE \/ NextMessage \/ Done \/ SearchEnds \/ NotFound \/ BodyEnds
  <2>1. pos' = pos /\ UNCHANGED out /\ pc' \notin {"mark", "tail"}
    BY <1>10 DEF NextMessage, Done, SearchEnds, NotFound, BodyEnds, GetFails
  <2> QED BY <1>8, <2>1
<1> QED
  BY <1>2, <1>3, <1>4, <1>5, <1>6, <1>7, <1>9, <1>10 DEF Next, Step, Stopped

(***************************************************************************)
(* Files of framed bulletins                                               *)
(***************************************************************************)
(* What IsFramed says of each frame, and of the rest behind them.           *)
LEMMA Framed ==
  ASSUME NEW f \in Files, IsFramed(f)
  PROVE  /\ Len(f.frames) \in Nat /\ Len(f.bulletins) = Len(f.frames)
         /\ \A k \in 1..Len(f.frames) :
              /\ f.frames[k] \in Place
              /\ IsFrame(f.text, f.frames[k], Begin(f, k))
              /\ f.bulletins[k] = SubSeq(f.text, f.frames[k].b, f.frames[k].e - 1)
              /\ Begin(f, k + 1) = f.frames[k].z + 1
         /\ \A k \in 1..Len(f.frames) + 1 : Begin(f, k) \in Nat \ {0}
         /\ Begin(f, 1) = 1
         /\ NoneEnds(f.text, Begin(f, Len(f.frames) + 1))
<1>1. f.frames \in Seq(Place)
  BY DEF IsFramed, Place
<1> HIDE DEF Place
<1>2. Len(f.frames) \in Nat /\ \A k \in 1..Len(f.frames) : f.frames[k] \in Place
  BY <1>1
<1>3. \A k \in 1..Len(f.frames) : Begin(f, k + 1) = f.frames[k].z + 1
  <2> TAKE k \in 1..Len(f.frames)
  <2>1. k + 1 # 1 /\ k + 1 - 1 = k
    OBVIOUS
  <2> QED BY <2>1 DEF Begin
<1>4. ASSUME NEW k \in 1..Len(f.frames) + 1 PROVE Begin(f, k) \in Nat \ {0}
  <2>1. CASE k = 1
    BY <2>1 DEF Begin
  <2>2. CASE k # 1
    <3>1. k - 1 \in 1..Len(f.frames)
      BY <1>2, <2>2
    <3>2. f.frames[k - 1].z \in Nat
      BY <1>2, <3>1 DEF Place
    <3> QED BY <2>2, <3>2 DEF Begin
  <2> QED BY <2>1, <2>2
<1>5. NoneEnds(f.text, Begin(f, Len(f.frames) + 1))
  BY DEF IsFramed, NoneEnds
<1>6. Begin(f, 1) = 1
  BY DEF Begin
<1>7. /\ Len(f.bulletins) = Len(f.frames)
      /\ \A k \in 1..Len(f.frames) :
           /\ IsFrame(f.text, f.frames[k], Begin(f, k))
           /\ f.bulletins[k] = SubSeq(f.text, f.frames[k].b, f.frames[k].e - 1)
  BY DEF IsFramed
<1> QED BY <1>2, <1>3, <1>4, <1>5, <1>6, <1>7

(* A frame ends behind the place it is looked for from.                     *)
LEMMA FrameAhead ==
  ASSUME NEW t, NEW w \in Place, NEW s \in Nat, IsFrame(t, w, s)
  PROVE  s < w.z /\ w.z <= Len(t)
<1>1. w.h \in Nat /\ w.b \in Nat /\ w.e \in Nat /\ w.n \in Nat /\ w.z \in Nat
  BY DEF Place
<1>2. /\ s <= w.h /\ w.h + 4 < w.b /\ w.b < w.e
      /\ w.e + 3 <= w.n /\ w.n + 4 <= w.z /\ w.z <= Len(t)
  BY DEF IsFrame
<1>3. s < w.e
  BY <1>1, <1>2
<1> QED BY <1>1, <1>2, <1>3

(* The bulletins of the frames the scanner has passed are passed on.        *)
LEMMA ExtractStep ==
  ASSUME SInv, NEW f \in Files, f = file, IsFramed(f), Extracting(f),
         pc = "mark" => CountersFit(f.text), [Next]_vars
  PROVE  Extracting(f)'
<1> DEFINE t == f.text
           l == Len(out)
           K == Len(f.frames)
<1>1. /\ l \in Nat /\ l <= K /\ K \in Nat /\ out \in Seq(Seq(Char))
      /\ \A j \in 1..l : out[j] = f.bulletins[j]
  BY Framed DEF Extracting, SInv, TypeOK
<1>2. ASSUME UNCHANGED out, l < K, InFrame(t, f.frames[l + 1], Begin(f, l + 1))'
      PROVE  Extracting(f)'
  BY <1>1, <1>2 DEF Extracting
<1>3. ASSUME UNCHANGED out, l = K, BehindFrames(t, Begin(f, l + 1))'
      PROVE  Extracting(f)'
  BY <1>1, <1>3 DEF Extracting
<1>4. CASE l < K
  <2>1. PICK k \in 1..K : k = l + 1
    BY <1>1, <1>4
  <2>2. PICK w \in Place, s \in Nat \ {0} : w = f.frames[k] /\ s = Begin(f, k)
    BY <1>1, <2>1, Framed
  <2>3. Within(t, w, s)
    BY <1>4, <2>1, <2>2, Framed DEF Within, Extracting
  <2>4. (UNCHANGED out /\ InFrame(t, w, s)') \/ Passes(t, w)
    BY <2>3, FrameStep
  <2>5. CASE UNCHANGED out /\ InFrame(t, w, s)'
    BY <1>2, <1>4, <2>1, <2>2, <2>5
  <2>6. CASE Passes(t, w)
    <3> DEFINE b == SubSeq(t, w.b, w.e - 1)
    <3>1. pc' = "decode" /\ pos' = w.z + 1 /\ out' = Append(out, b)
      BY <2>6 DEF Passes
    <3>2. b = f.bulletins[k] /\ b \in Seq(Char)
      <4>1. b = f.bulletins[k]
        BY <2>1, <2>2, Framed
      <4>2. f.bulletins \in Seq(Seq(Char)) /\ Len(f.bulletins) = K
        BY FilesAssumption, Framed
      <4> HIDE DEF b
      <4> QED BY <2>1, <4>1, <4>2
    <3> HIDE DEF b
    <3>3. /\ Len(out') = k /\ out'[k] = b
          /\ \A j \in 1..l : out'[j] = out[j]
      BY <1>1, <2>1, <3>1, <3>2
    <3>4. \A j \in 1..k : out'[j] = f.bulletins[j]
      BY <1>1, <2>1, <3>2, <3>3
    <3>5. Begin(f, k + 1) = pos' /\ pos' \in Nat
      BY <2>1, <2>2, <3>1, Framed DEF Place
    <3>6. CASE k < K
      <4>1. PICK m \in 1..K : m = k + 1
        BY <1>1, <2>1, <3>6
      <4>2. PICK v \in Place, q \in Nat : v = f.frames[m] /\ q = Begin(f, m)
        BY <1>1, <4>1, <3>5, Framed
      <4>3. IsFrame(t, v, q)
        BY <4>1, <4>2, Framed
      <4>4. w.z < Len(t)
        <5>1. q < v.z /\ v.z <= Len(t)
          BY <4>2, <4>3, FrameAhead
        <5>2. v.z \in Nat /\ w.z \in Nat /\ q = w.z + 1 /\ Len(t) \in Nat
          BY <2>2, <3>1, <3>5, <4>1, <4>2, FileText DEF Place
        <5> QED BY <5>1, <5>2
      <4>5. InFrame(t, v, q)'
        BY <2>6, <3>1, <3>5, <4>1, <4>2, <4>4 DEF Passes, InFrame
      <4> QED BY <1>1, <3>3, <3>4, <3>6, <4>1, <4>2, <4>5 DEF Extracting
    <3>7. CASE k = K
      <4>1. PICK q \in Nat : q = Begin(f, k + 1)
        BY <3>5
      <4>2. BehindFrames(t, q)'
        BY <3>1, <3>5, <4>1 DEF BehindFrames
      <4> QED BY <1>1, <3>3, <3>4, <3>7, <4>1, <4>2 DEF Extracting
    <3> QED BY <2>1, <3>6, <3>7
  <2> QED BY <2>4, <2>5, <2>6
<1>5. CASE l = K
  <2>4. Begin(f, K + 1) \in Nat \ {0}
    <3>1. K + 1 \in 1..K + 1
      BY <1>1
    <3> QED BY <3>1, Framed
  <2>1. PICK s \in Nat \ {0} : s = Begin(f, l + 1)
    BY <1>5, <2>4
  <2>2. NoneEnds(t, s) /\ BehindFrames(t, s)
    BY <1>5, <2>1, Framed DEF Extracting
  <2>3. UNCHANGED out /\ BehindFrames(t, s)'
    BY <2>2, BehindStep
  <2> QED BY <1>3, <1>5, <2>1, <2>3
<1> QED BY <1>1, <1>4, <1>5

(* The invariant behind AllExtracted: of files of framed bulletins the      *)
(* scanner has passed on those it has passed, and is where it should be in  *)
(* the next one, with its counters as far as they should be.                *)
THEOREM ExtractInductive == AllFramed /\ Spec => []EInv
<1> SUFFICES ASSUME AllFramed PROVE Spec => []EInv
  BY DEF AllFramed
<1>1. Init => EInv
  <2> SUFFICES ASSUME Init PROVE EInv
    OBVIOUS
  <2>1. PICK f \in Files : f = file
    BY DEF Init
  <2>2. IsFramed(f)
    BY DEF AllFramed
  <2>3. /\ pc = "decode" /\ pos = 1 /\ ~ eofbit /\ ~ failbit /\ Len(out) = 0
    BY DEF Init
  <2>4. InFrame(f.text, f.frames[Len(out) + 1], Begin(f, 1))
    BY <2>2, <2>3, Framed DEF InFrame
  <2>5. BehindFrames(f.text, Begin(f, 1))
    BY <2>2, <2>3, Framed DEF BehindFrames
  <2>6. Len(f.frames) \in Nat
    BY <2>2, Framed
  <2>7. Extracting(f)
    BY <2>3, <2>4, <2>5, <2>6 DEF Extracting
  <2> QED BY <2>1, <2>3, <2>7, ScanInit DEF EInv
<1>2. EInv /\ [Next]_vars => EInv'
  <2> SUFFICES ASSUME EInv, [Next]_vars PROVE EInv'
    OBVIOUS
  <2>1. PICK f \in Files : f = file
    BY DEF EInv, SInv
  <2>2. SInv /\ IsFramed(f) /\ Extracting(f) /\ (pc = "mark" => CountersFit(f.text))
    BY <2>1 DEF EInv, AllFramed
  <2>3. SInv' /\ file' = f
    BY <2>1, <2>2, ScanStep, InventedStep
  <2>4. Extracting(f)'
    BY <2>1, <2>2, ExtractStep
  <2>5. pc' = "mark" => CountersFit(f.text)'
    BY <2>1, <2>2, CountersNext
  <2> QED BY <2>3, <2>4, <2>5 DEF EInv
<1> QED BY <1>1, <1>2, PTL DEF Spec

(* Of files of framed bulletins, whole or cut short behind any character,   *)
(* getMessage() passes on exactly those whose end mark is there, each as it *)
(* was written, in their order.                                             *)
THEOREM BulletinsComeOut == AllFramed /\ Spec => []AllExtracted
<1> SUFFICES ASSUME AllFramed PROVE Spec => []AllExtracted
  BY DEF AllFramed
<1>1. EInv => AllExtracted
  <2> SUFFICES ASSUME EInv, pc = "done" PROVE out = file.bulletins
    BY DEF AllExtracted
  <2>1. PICK f \in Files : f = file
    BY DEF EInv, SInv
  <2>2. /\ Len(f.frames) \in Nat /\ Len(f.bulletins) = Len(f.frames)
        /\ f.bulletins \in Seq(Seq(Char)) /\ out \in Seq(Seq(Char))
    BY <2>1, FilesAssumption, Framed DEF AllFramed, EInv, SInv, TypeOK
  <2>3. /\ Len(out) = Len(f.frames)
        /\ \A j \in 1..Len(out) : out[j] = f.bulletins[j]
    BY <2>1, <2>2 DEF EInv, Extracting, InFrame
  <2> DEFINE b == f.bulletins
             S == Seq(Char)
  <2>4. /\ b \in Seq(S) /\ out \in Seq(S) /\ Len(out) = Len(b)
        /\ \A j \in 1..Len(out) : out[j] = b[j]
    BY <2>2, <2>3
  <2> HIDE DEF b, S
  <2>5. out = b
    BY <2>4
  <2> QED BY <2>1, <2>5 DEF b
<1>2. AllFramed /\ Spec => []EInv
  BY ExtractInductive
<1> QED BY <1>1, <1>2, PTL
==============================================================================
