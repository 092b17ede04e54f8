---------------------------- MODULE BrowsingProofs ----------------------------
(***************************************************************************)
(* That a list of the browser shows what its address asks for, and the     *)
(* windows that the service cuts out of the reader's pages are those asked *)
(* for, for every table, every way a list is read, every page size up to   *)
(* the reader's, and whatever users and commands do meanwhile.             *)
(*                                                                         *)
(* Neither is inductive.  An answer may be shown because every request     *)
(* under way is for the query in the address (Shaped).  A window is right  *)
(* because each page is that of its number, because what it took of the    *)
(* first page, when it asks for a second, is all that page had left        *)
(* (WindowRight), and because the pages of a list read to its end add up   *)
(* (PagesRight); all of it as long as the table did not change since the   *)
(* request was sent.  The first part of the module is about cuts of        *)
(* sequences, which those arguments come down to.                          *)
(***************************************************************************)
EXTENDS Browsing, SequenceTheorems, FiniteSetTheorems, TLAPS

(* The fields of a request.                                                *)
CallFields == {"query", "page", "total", "first", "rows", "resolved", "untouched"}

(* What a command, a user or the service never changes of the shape of     *)
(* things: every request under way is for the query in the address.        *)
Shaped ==
  /\ list \in Lists /\ stored \in Tables
  /\ DOMAIN query = {"search", "order", "size", "token"}
  /\ query.size \in 1..ReaderPageSize
  /\ \A c \in calls : DOMAIN c = CallFields /\ c.query = query

(* The offset at which a page of the reader starts.                        *)
StartOf(page) == (page - 1) * ReaderPageSize

(* What is read of a list that did not change is what it holds.            *)
ReadRight(c) ==
  /\ c.page \in Nat
  /\ c.page # 0 \/ c.total # Unread => Decodes(c.query)
  /\ c.total # Unread => c.total = Len(Listed(c.query))

(* Read all at once: all of it.                                            *)
WholeRight(c) == c.rows = <<>> /\ (c.first # Unread => c.first = Listed(c.query))

(* The reader's page of this number.                                       *)
PageRight(c) ==
  c.first # Unread => c.page # 0 /\ c.first = Cut(Listed(c.query), StartOf(c.page), ReaderPageSize)

(* Page after page: all rows before the page to be read.                   *)
PagesRight(c) ==
  LET start == StartOf(PageNumber(c))
  IN start <= Len(Listed(c.query)) /\ c.rows = Cut(Listed(c.query), 0, start)

(* A window: in a second page, all that the first had from its offset on.  *)
WindowRight(c) ==
  LET n == Len(c.rows)
  IN /\ c.page \in {0, FirstPage(c), FirstPage(c) + 1}
     /\ c.page # 0 /\ c.page = FirstPage(c) + 1 =>
          /\ n \in Nat /\ n < c.query.size /\ n <= ReaderPageSize
          /\ c.rows = Cut(Listed(c.query), Offset(c.query), n)
          /\ Offset(c.query) + n = FirstPage(c) * ReaderPageSize
          /\ Offset(c.query) + n < Len(Listed(c.query))

(* What a request has read is right.                                       *)
Right(c) ==
  /\ ReadRight(c)
  /\ CASE list.read = "whole"  -> WholeRight(c)
       [] list.read = "pages"  -> PageRight(c) /\ PagesRight(c)
       [] list.read = "window" -> PageRight(c) /\ WindowRight(c)

(* The inductive invariant.                                                *)
BrowseInv == Shaped /\ ShownAnswersQuery /\ \A c \in calls : c.untouched => Right(c)

-----------------------------------------------------------------------------
(* Cuts of a list                                                          *)

(* How long a cut is, and what is in it: in a form to be cited for given   *)
(* sequences and lengths.                                                  *)
IsCut(X, s, len, o, n, t, l) ==
  s \in Seq(X) /\ len = Len(s) /\ o \in Nat /\ n \in Nat /\ t = Cut(s, o, n) /\ l = Len(t) =>
    /\ t \in Seq(X) /\ l \in Nat
    /\ \A i \in 1..l : t[i] = s[o + i]
    /\ o + n <= len => l = n
    /\ o <= len /\ len <= o + n => l = len - o
    /\ len <= o => l = 0

(* It holds of every cut.                                                  *)
LEMMA CutProperties == \A X, s, len, o, n, t, l : IsCut(X, s, len, o, n, t, l)
<1> TAKE X, s, len, o, n, t, l
<1> SUFFICES ASSUME s \in Seq(X), len = Len(s), o \in Nat, n \in Nat, t = Cut(s, o, n), l = Len(t)
             PROVE  /\ t \in Seq(X) /\ l \in Nat
                    /\ \A i \in 1..l : t[i] = s[o + i]
                    /\ o + n <= len => l = n
                    /\ o <= len /\ len <= o + n => l = len - o
                    /\ len <= o => l = 0
  BY DEF IsCut
<1>1. len \in Nat
  BY LenProperties
<1>2. PICK last : last = Lesser(o + n, len)
  OBVIOUS
<1>3. last \in Nat /\ last <= len /\ ((o + n < len /\ last = o + n) \/ (len <= o + n /\ last = len))
  BY <1>1, <1>2 DEF Lesser
<1>4. t = SubSeq(s, o + 1, last)
  BY <1>2 DEF Cut
<1>5. \A i \in (o + 1)..last : s[i] \in X
  <2>1. s \in [1..len -> X]
    BY LenProperties
  <2> QED
    BY <1>1, <1>3, <2>1
<1>6. /\ t \in Seq(X) /\ l = IF o + 1 <= last THEN last - (o + 1) + 1 ELSE 0
      /\ \A i \in 1..(last - (o + 1) + 1) : t[i] = s[o + 1 + i - 1]
  BY <1>3, <1>4, <1>5, SubSeqProperties
<1>7. l \in Nat /\ ((o + 1 <= last /\ l = last - o) \/ (last <= o /\ l = 0))
  BY <1>3, <1>6
<1>8. \A i \in 1..l : t[i] = s[o + i]
  <2> SUFFICES ASSUME NEW i \in 1..l PROVE t[i] = s[o + i]
    OBVIOUS
  <2>1. i \in 1..(last - (o + 1) + 1) /\ o + 1 + i - 1 = o + i
    BY <1>3, <1>7
  <2> QED
    BY <1>6, <2>1
<1>9. /\ o + n <= len => l = n
      /\ o <= len /\ len <= o + n => l = len - o
      /\ len <= o => l = 0
  BY <1>1, <1>3, <1>7
<1> QED
  BY <1>1, <1>6, <1>7, <1>8, <1>9

(* A cut within a cut.                                                     *)
IsCutOfCut(X, s, o, n, p, m) ==
  s \in Seq(X) /\ o \in Nat /\ n \in Nat /\ p \in Nat /\ m \in Nat =>
    Cut(Cut(s, o, n), p, m) = Cut(s, o + p, IF n <= p THEN 0 ELSE Lesser(m, n - p))

(* It is a cut of the list.                                                *)
LEMMA CutOfCut == \A X, s, o, n, p, m : IsCutOfCut(X, s, o, n, p, m)
<1> TAKE X, s, o, n, p, m
<1> SUFFICES ASSUME s \in Seq(X), o \in Nat, n \in Nat, p \in Nat, m \in Nat
             PROVE  Cut(Cut(s, o, n), p, m) = Cut(s, o + p, IF n <= p THEN 0 ELSE Lesser(m, n - p))
  BY DEF IsCutOfCut
<1>1. PICK len \in Nat : len = Len(s)
  BY LenProperties
<1>2. PICK k : k = IF n <= p THEN 0 ELSE Lesser(m, n - p)
  OBVIOUS
<1>3. /\ (n <= p /\ k = 0) \/ (p < n /\ m <= n - p /\ k = m) \/ (p < n /\ n - p < m /\ k = n - p)
      /\ k \in Nat /\ o + p \in Nat
  BY <1>2 DEF Lesser
<1>4. PICK t, lt : t = Cut(s, o, n) /\ lt = Len(t)
  OBVIOUS
<1>5. PICK u, lu : u = Cut(t, p, m) /\ lu = Len(u)
  OBVIOUS
<1>6. PICK w, lw : w = Cut(s, o + p, k) /\ lw = Len(w)
  OBVIOUS
<1>7. /\ t \in Seq(X) /\ lt \in Nat /\ \A i \in 1..lt : t[i] = s[o + i]
      /\ o + n <= len => lt = n
      /\ o <= len /\ len <= o + n => lt = len - o
      /\ len <= o => lt = 0
  <2>1. IsCut(X, s, len, o, n, t, lt)
    BY CutProperties
  <2> QED
    BY <1>1, <1>4, <2>1 DEF IsCut
<1>8. /\ u \in Seq(X) /\ lu \in Nat /\ \A i \in 1..lu : u[i] = t[p + i]
      /\ p + m <= lt => lu = m
      /\ p <= lt /\ lt <= p + m => lu = lt - p
      /\ lt <= p => lu = 0
  <2>1. IsCut(X, t, lt, p, m, u, lu)
    BY CutProperties
  <2> QED
    BY <1>4, <1>5, <1>7, <2>1 DEF IsCut
<1>9. /\ w \in Seq(X) /\ lw \in Nat /\ \A i \in 1..lw : w[i] = s[o + p + i]
      /\ o + p + k <= len => lw = k
      /\ o + p <= len /\ len <= o + p + k => lw = len - (o + p)
      /\ len <= o + p => lw = 0
  <2>1. IsCut(X, s, len, o + p, k, w, lw)
    BY CutProperties
  <2> QED
    BY <1>1, <1>3, <1>6, <2>1 DEF IsCut
<1>10. lu = lw /\ (lu > 0 => p + lu <= lt)
  <2>1. /\ lt \in Nat /\ lu \in Nat /\ lw \in Nat
        /\ o + n <= len => lt = n
        /\ o <= len /\ len <= o + n => lt = len - o
        /\ len <= o => lt = 0
        /\ p + m <= lt => lu = m
        /\ p <= lt /\ lt <= p + m => lu = lt - p
        /\ lt <= p => lu = 0
        /\ o + p + k <= len => lw = k
        /\ o + p <= len /\ len <= o + p + k => lw = len - (o + p)
        /\ len <= o + p => lw = 0
    BY <1>7, <1>8, <1>9
  <2>2. CASE len <= o
    BY <1>3, <2>1, <2>2
  <2>3. CASE o + n <= len
    BY <1>3, <2>1, <2>3
  <2>4. CASE o <= len /\ len <= o + n
    BY <1>3, <2>1, <2>4
  <2> QED
    BY <2>2, <2>3, <2>4
<1>11. \A i \in 1..lu : p + i \in 1..lt /\ o + (p + i) = o + p + i
  BY <1>7, <1>8, <1>10
<1>12. \A i \in 1..lu : u[i] = w[i]
  BY <1>7, <1>8, <1>9, <1>10, <1>11
<1>13. u = w
  BY <1>5, <1>6, <1>8, <1>9, <1>10, <1>12, SeqEqual
<1> QED
  BY <1>2, <1>4, <1>5, <1>6, <1>13

(* Two cuts, of which the second begins where the first ends.              *)
Adjoin(X, s, o, n, m) ==
  s \in Seq(X) /\ o \in Nat /\ n \in Nat /\ m \in Nat /\ o + n <= Len(s) =>
    Cut(s, o, n) \o Cut(s, o + n, m) = Cut(s, o, n + m)

(* They are one.                                                           *)
LEMMA AdjacentCuts == \A X, s, o, n, m : Adjoin(X, s, o, n, m)
<1> TAKE X, s, o, n, m
<1> SUFFICES ASSUME s \in Seq(X), o \in Nat, n \in Nat, m \in Nat, o + n <= Len(s)
             PROVE  Cut(s, o, n) \o Cut(s, o + n, m) = Cut(s, o, n + m)
  BY DEF Adjoin
<1>1. PICK len \in Nat : len = Len(s) /\ o + n <= len
  BY LenProperties
<1>2. PICK a, la : a = Cut(s, o, n) /\ la = Len(a)
  OBVIOUS
<1>3. PICK b, lb : b = Cut(s, o + n, m) /\ lb = Len(b)
  OBVIOUS
<1>4. PICK c, lc : c = Cut(s, o, n + m) /\ lc = Len(c)
  OBVIOUS
<1>5. o + n \in Nat /\ n + m \in Nat
  OBVIOUS
<1>6. a \in Seq(X) /\ la \in Nat /\ (\A i \in 1..la : a[i] = s[o + i]) /\ (o + n <= len => la = n)
  <2>1. IsCut(X, s, len, o, n, a, la)
    BY CutProperties
  <2> QED
    BY <1>1, <1>2, <2>1 DEF IsCut
<1>7. /\ b \in Seq(X) /\ lb \in Nat /\ \A i \in 1..lb : b[i] = s[o + n + i]
      /\ o + n + m <= len => lb = m
      /\ o + n <= len /\ len <= o + n + m => lb = len - (o + n)
  <2>1. IsCut(X, s, len, o + n, m, b, lb)
    BY CutProperties
  <2> QED
    BY <1>1, <1>3, <1>5, <2>1 DEF IsCut
<1>8. /\ c \in Seq(X) /\ lc \in Nat /\ \A i \in 1..lc : c[i] = s[o + i]
      /\ o + (n + m) <= len => lc = n + m
      /\ o <= len /\ len <= o + (n + m) => lc = len - o
  <2>1. IsCut(X, s, len, o, n + m, c, lc)
    BY CutProperties
  <2> QED
    BY <1>1, <1>4, <1>5, <2>1 DEF IsCut
<1>9. n + lb = lc
  <2>1. /\ lb \in Nat /\ lc \in Nat
        /\ o + n + m <= len => lb = m
        /\ o + n <= len /\ len <= o + n + m => lb = len - (o + n)
        /\ o + (n + m) <= len => lc = n + m
        /\ o <= len /\ len <= o + (n + m) => lc = len - o
        /\ o + n <= len
    BY <1>1, <1>7, <1>8
  <2> QED
    BY <2>1
<1>10. PICK d : d = a \o b
  OBVIOUS
<1>11. /\ d \in Seq(X) /\ Len(d) = lc
       /\ \A i \in 1..lc : d[i] = IF i <= n THEN a[i] ELSE b[i - n]
  <2>1. la = n
    BY <1>1, <1>6
  <2>2. /\ d \in Seq(X) /\ Len(d) = la + lb
        /\ \A i \in 1..(la + lb) : d[i] = IF i <= la THEN a[i] ELSE b[i - la]
    BY <1>2, <1>3, <1>6, <1>7, <1>10, ConcatProperties
  <2> QED
    BY <1>9, <2>1, <2>2
<1>12. ASSUME NEW i \in 1..lc
       PROVE  d[i] = c[i]
  <2>1. CASE i <= n
    <3>1. i \in 1..la
      BY <1>1, <1>6, <2>1
    <3> QED
      BY <1>6, <1>8, <1>11, <2>1, <3>1
  <2>2. CASE ~(i <= n)
    <3>1. i - n \in 1..lb /\ o + n + (i - n) = o + i
      BY <1>7, <1>8, <1>9, <2>2
    <3> QED
      BY <1>7, <1>8, <1>11, <2>2, <3>1
  <2> QED
    BY <2>1, <2>2
<1>13. d = c
  BY <1>4, <1>8, <1>11, <1>12, SeqEqual
<1> QED
  BY <1>2, <1>3, <1>4, <1>10, <1>13

(* A cut from the start of enough rows is the list.                        *)
LEMMA CutOfAll ==
  ASSUME NEW X, NEW s \in Seq(X), NEW n \in Nat, Len(s) <= n
  PROVE  Cut(s, 0, n) = s
<1>1. PICK len : len = Len(s) /\ len <= n
  OBVIOUS
<1>2. PICK c, l : c = Cut(s, 0, n) /\ l = Len(c)
  OBVIOUS
<1>3. /\ c \in Seq(X) /\ len \in Nat /\ \A i \in 1..l : c[i] = s[0 + i]
      /\ 0 <= len /\ len <= 0 + n => l = len - 0
  <2>1. IsCut(X, s, len, 0, n, c, l)
    BY CutProperties
  <2> QED
    BY <1>1, <1>2, <2>1 DEF IsCut
<1>4. l = len /\ \A i \in 1..l : c[i] = s[i]
  BY <1>1, <1>3
<1> QED
  BY <1>1, <1>2, <1>3, <1>4, SeqEqual

(* The rows of a query are finitely many.                                  *)
LEMMA ListedIsSeq ==
  ASSUME stored \in Tables, NEW q
  PROVE  \E X : Listed(q) \in Seq(X)
<1> DEFINE rows == stored \cap MatchesOf[q.search]
           before(m) == {n \in rows : IF Ranked(q) THEN n > m ELSE n < m}
           row(i) == CHOOSE m \in rows : Cardinality(before(m)) = i - 1
           X == {row(i) : i \in 1..Cardinality(rows)}
<1>1. Cardinality(rows) \in Nat
  BY BrowsingAssumption, FS_Subset, FS_CardinalityType
<1>2. InOrder(rows, Ranked(q)) = [i \in 1..Cardinality(rows) |-> row(i)]
  BY DEF InOrder
<1> HIDE DEF rows
<1>3. [i \in 1..Cardinality(rows) |-> row(i)] \in [1..Cardinality(rows) -> X]
  OBVIOUS
<1>4. [i \in 1..Cardinality(rows) |-> row(i)] \in Seq(X)
  <2> HIDE DEF X, row
  <2> QED
    BY <1>1, <1>3
<1>5. Listed(q) = InOrder(rows, Ranked(q))
  BY DEF Listed, rows
<1> QED
  BY <1>2, <1>4, <1>5

(* A cut that goes on to the end, or as far as another.                    *)
IsWhole(X, s, o, n, m) ==
  /\ s \in Seq(X) /\ o \in Nat /\ n \in Nat /\ m \in Nat /\ n <= m
  /\ Len(s) <= o + Len(Cut(s, o, n)) \/ n = m
  => Cut(s, o, n) = Cut(s, o, m)

(* It has all that the other has.                                          *)
LEMMA LongerCut == \A X, s, o, n, m : IsWhole(X, s, o, n, m)
<1> TAKE X, s, o, n, m
<1> SUFFICES ASSUME s \in Seq(X), o \in Nat, n \in Nat, m \in Nat, n <= m,
                    Len(s) <= o + Len(Cut(s, o, n)) \/ n = m
             PROVE  Cut(s, o, n) = Cut(s, o, m)
  BY DEF IsWhole
<1>1. PICK len \in Nat : len = Len(s)
  BY LenProperties
<1>2. PICK a, la : a = Cut(s, o, n) /\ la = Len(a)
  OBVIOUS
<1>3. PICK b, lb : b = Cut(s, o, m) /\ lb = Len(b)
  OBVIOUS
<1>4. /\ a \in Seq(X) /\ la \in Nat /\ \A i \in 1..la : a[i] = s[o + i]
      /\ o + n <= len => la = n
      /\ o <= len /\ len <= o + n => la = len - o
      /\ len <= o => la = 0
  <2>1. IsCut(X, s, len, o, n, a, la)
    BY CutProperties
  <2> QED
    BY <1>1, <1>2, <2>1 DEF IsCut
<1>5. /\ b \in Seq(X) /\ lb \in Nat /\ \A i \in 1..lb : b[i] = s[o + i]
      /\ o + m <= len => lb = m
      /\ o <= len /\ len <= o + m => lb = len - o
      /\ len <= o => lb = 0
  <2>1. IsCut(X, s, len, o, m, b, lb)
    BY CutProperties
  <2> QED
    BY <1>1, <1>3, <2>1 DEF IsCut
<1>6. la = lb
  <2>1. len <= o + la \/ n = m
    BY <1>1, <1>2
  <2>2. CASE n = m
    BY <1>2, <1>3, <2>2
  <2>3. CASE len <= o + la
    <3>1. /\ la \in Nat /\ lb \in Nat
          /\ o + n <= len => la = n
          /\ o <= len /\ len <= o + n => la = len - o
          /\ len <= o => la = 0
          /\ o + m <= len => lb = m
          /\ o <= len /\ len <= o + m => lb = len - o
          /\ len <= o => lb = 0
      BY <1>4, <1>5
    <3> QED
      BY <2>3, <3>1
  <2> QED
    BY <2>1, <2>2, <2>3
<1>7. \A i \in 1..la : a[i] = b[i]
  BY <1>4, <1>5, <1>6
<1> QED
  BY <1>2, <1>3, <1>4, <1>5, <1>6, <1>7, SeqEqual

-----------------------------------------------------------------------------
(* Pages and offsets                                                       *)

(* A token that decodes says where its rows begin.                         *)
LEMMA OffsetIsNat == ASSUME NEW q, Decodes(q) PROVE Offset(q) \in Nat
  BY DEF Decodes, Offset

(* A number is its quotient, times the divisor, and its remainder.         *)
LEMMA Division == \A o, r \in Int : r > 0 => o = (o \div r) * r + (o % r)
  OBVIOUS

(* The first page that is read is the one the offset is in.                *)
LEMMA FirstPageHolds ==
  ASSUME NEW o \in Nat, NEW r \in Nat \ {0}, r = ReaderPageSize
  PROVE  /\ (o \div r) + 1 \in Nat /\ (o \div r) + 1 # 0 /\ o % r \in Nat /\ o % r < r /\ r \in Nat
         /\ StartOf((o \div r) + 1) + (o % r) = o
         /\ StartOf((o \div r) + 1) + r = ((o \div r) + 1) * r
         /\ StartOf((o \div r) + 1) \in Nat
<1>1. r \in Nat \ {0}
  OBVIOUS
<1>2. o \div r \in Nat /\ o % r \in Nat /\ o % r < r
  BY <1>1
<1>3. o = (o \div r) * r + (o % r)
  <2>1. o \in Int /\ r \in Int /\ r > 0
    OBVIOUS
  <2> QED
    BY <2>1, Division
<1>4. PICK d \in Nat : d = o \div r
  BY <1>2
<1>5. StartOf(d + 1) = d * r /\ d * r \in Nat /\ d * r + r = (d + 1) * r
  BY <1>1, <1>4 DEF StartOf
<1> QED
  BY <1>1, <1>2, <1>3, <1>4, <1>5

-----------------------------------------------------------------------------
(* Requests                                                                *)

(* The rows of a query are the same until the table changes.               *)
LEMMA ListedSame == ASSUME UNCHANGED <<list, stored>>, NEW q PROVE Listed(q)' = Listed(q)
  BY Zenon DEF Listed, Ranked

(* And what was read right stays right.                                    *)
LEMMA RightSame == ASSUME UNCHANGED <<list, stored>>, NEW c, Right(c) PROVE Right(c)'
<1>1. Listed(c.query)' = Listed(c.query)
  BY ListedSame
<1> QED
  BY <1>1 DEF Right, ReadRight, WholeRight, PageRight, PagesRight, WindowRight, FirstPage, PageNumber

(* A list is read in one of three ways.                                    *)
LEMMA ThreeWays == ASSUME list \in Lists PROVE list.read \in {"window", "pages", "whole"}
  BY DEF Lists, ListVoices, ListCharacters, ListDialogues, ListDialogueLines, ListCharacterSounds,
     ListDialogueTransitions, ListRaces, ListKits, ListReadableItems, ListCharacterClasses,
     ListExtractionRuns, ListIdentifierDefinitions

(* What a window takes of its first page: all it asks for, or all up to    *)
(* the end of that page.                                                   *)
LEMMA InOnePage ==
  ASSUME Shaped, list.read = "window", NEW c \in calls, Decodes(c.query),
         c.first = Cut(Listed(c.query), StartOf(FirstPage(c)), ReaderPageSize)
  PROVE  \E k \in Nat :
           /\ InPage(c) = Cut(Listed(c.query), Offset(c.query), k)
           /\ \/ k = c.query.size
              \/ k < c.query.size /\ Offset(c.query) + k = FirstPage(c) * ReaderPageSize
<1>1. PICK r \in Nat \ {0} : r = ReaderPageSize
  BY BrowsingAssumption
<1>2. PICK o \in Nat : o = Offset(c.query)
  BY OffsetIsNat
<1>3. PICK f, p, start : f = FirstPage(c) /\ p = o % r /\ start = StartOf(f)
  OBVIOUS
<1>4. f = (o \div r) + 1
  BY <1>1, <1>2, <1>3 DEF FirstPage
<1>5. p \in Nat /\ p < r /\ start + p = o /\ start + r = f * r /\ start \in Nat
  <2>1. /\ (o % r) \in Nat /\ (o % r) < r /\ StartOf((o \div r) + 1) + (o % r) = o
        /\ StartOf((o \div r) + 1) + r = ((o \div r) + 1) * r /\ StartOf((o \div r) + 1) \in Nat
    BY <1>1, FirstPageHolds
  <2> QED
    BY <1>3, <1>4, <2>1
<1>6. PICK size \in 1..r : size = c.query.size
  BY <1>1 DEF Shaped
<1>7. PICK k : k = Lesser(size, r - p)
  OBVIOUS
<1>8. k \in Nat /\ ((k = size) \/ (k < size /\ k = r - p))
  BY <1>5, <1>6, <1>7 DEF Lesser
<1>9. PICK X : Listed(c.query) \in Seq(X)
  BY ListedIsSeq DEF Shaped
<1>10. PICK all : all = Listed(c.query)
  OBVIOUS
<1>11. InPage(c) = Cut(all, o, k)
  <2>1. Cut(Cut(all, start, r), p, size) = Cut(all, start + p, IF r <= p THEN 0 ELSE Lesser(size, r - p))
    <3>1. all \in Seq(X) /\ size \in Nat
      BY <1>1, <1>6, <1>9, <1>10
    <3>2. IsCutOfCut(X, all, start, r, p, size)
      BY CutOfCut
    <3> QED
      BY <1>1, <1>5, <3>1, <3>2 DEF IsCutOfCut
  <2>2. InPage(c) = Cut(Cut(all, start, r), p, size)
    BY <1>1, <1>2, <1>3, <1>6, <1>10 DEF InPage
  <2>3. ~(r <= p)
    BY <1>1, <1>5
  <2> QED
    BY <1>5, <1>7, <2>1, <2>2, <2>3
<1>12. k < size => o + k = f * r
  <2>1. start + r = o + (r - p)
    BY <1>1, <1>2, <1>5
  <2> QED
    BY <1>5, <1>8, <2>1
<1> QED
  BY <1>1, <1>2, <1>3, <1>6, <1>8, <1>10, <1>11, <1>12

(* A request goes on, and what it has read is right.                       *)
Advances(c) ==
  \E d : /\ Progress(c, d) /\ DOMAIN d = CallFields /\ d.query = c.query
         /\ d.untouched => Right(d)

(* Both halves of a page that rows in memory, or fetched, come with.       *)
LEMMA PageReadRight ==
  ASSUME Shaped, NEW c \in calls, c.untouched => Right(c), list.read # "whole", Decodes(c.query),
         NEW d, DOMAIN d = CallFields, d.query = c.query, d.untouched = c.untouched,
         d.rows = c.rows, d.page = PageNumber(c), d.first = PageItems(c),
         d.total \in {c.total, Len(Listed(c.query))}
  PROVE  d.untouched => Right(d)
<1> SUFFICES ASSUME d.untouched, Right(c) PROVE Right(d)
  OBVIOUS
<1>1. FirstPage(c) \in Nat /\ FirstPage(c) # 0
  <2>1. PICK o \in Nat : o = Offset(c.query)
    BY OffsetIsNat
  <2>2. PICK r \in Nat \ {0} : r = ReaderPageSize
    BY BrowsingAssumption
  <2>3. (o \div r) + 1 \in Nat /\ (o \div r) + 1 # 0
    BY <2>2, FirstPageHolds
  <2> QED
    BY <2>1, <2>2, <2>3 DEF FirstPage
<1>2. PageNumber(c) \in Nat /\ PageNumber(c) # 0
  BY <1>1 DEF PageNumber, Right, ReadRight
<1>3. FirstPage(d) = FirstPage(c) /\ PageNumber(d) = PageNumber(c)
  BY <1>2 DEF FirstPage, PageNumber
<1>4. ReadRight(d)
  BY <1>2 DEF Right, ReadRight
<1>5. PageRight(d)
  BY <1>2 DEF PageRight, PageItems, StartOf
<1>6. list.read = "pages" => PagesRight(d)
  BY <1>3 DEF Right, PagesRight
<1>7. list.read = "window" => WindowRight(d)
  <2> SUFFICES ASSUME list.read = "window" PROVE WindowRight(d)
    OBVIOUS
  <2>1. WindowRight(c)
    BY DEF Right
  <2>2. d.page = IF c.page = 0 THEN FirstPage(c) ELSE c.page
    BY DEF PageNumber
  <2>3. c.page = 0 => d.page # FirstPage(c) + 1
    BY <1>1, <2>2
  <2> QED
    BY <1>3, <2>1, <2>2, <2>3 DEF WindowRight
<1> QED
  BY <1>4, <1>5, <1>6, <1>7, ThreeWays DEF Right, Shaped

(* A page of rows in memory.                                               *)
LEMMA MemoryPageAdvances ==
  ASSUME Shaped, NEW c \in calls, c.untouched => Right(c), MemoryPage(c)
  PROVE  Advances(c)
<1>1. PICK d : d = [c EXCEPT !.page = PageNumber(c), !.first = PageItems(c),
                             !.total = IF @ = Unread THEN Len(Listed(c.query)) ELSE @]
  OBVIOUS
<1>2. /\ DOMAIN d = CallFields /\ d.query = c.query /\ d.untouched = c.untouched /\ d.rows = c.rows
      /\ d.page = PageNumber(c) /\ d.first = PageItems(c)
      /\ d.total \in {c.total, Len(Listed(c.query))}
  BY <1>1 DEF Shaped, CallFields
<1>3. Progress(c, d) /\ list.read # "whole" /\ Decodes(c.query)
  BY <1>1 DEF MemoryPage
<1>4. d.untouched => Right(d)
  BY <1>2, <1>3, PageReadRight
<1> QED
  BY <1>2, <1>3, <1>4 DEF Advances

(* A page that is fetched.                                                 *)
LEMMA FetchPageAdvances ==
  ASSUME Shaped, NEW c \in calls, c.untouched => Right(c), FetchPage(c)
  PROVE  Advances(c)
<1>1. PICK d : d = [c EXCEPT !.page = PageNumber(c), !.first = PageItems(c)]
  OBVIOUS
<1>2. /\ DOMAIN d = CallFields /\ d.query = c.query /\ d.untouched = c.untouched /\ d.rows = c.rows
      /\ d.page = PageNumber(c) /\ d.first = PageItems(c) /\ d.total = c.total
  BY <1>1 DEF Shaped, CallFields
<1>3. Progress(c, d) /\ list.read # "whole" /\ Decodes(c.query)
  BY <1>1 DEF FetchPage
<1>4. d.untouched => Right(d)
  BY <1>2, <1>3, PageReadRight
<1> QED
  BY <1>2, <1>3, <1>4 DEF Advances

(* Counting reads no rows.                                                 *)
LEMMA CountRowsAdvances ==
  ASSUME Shaped, NEW c \in calls, c.untouched => Right(c), CountRows(c)
  PROVE  Advances(c)
<1>1. PICK d : d = [c EXCEPT !.total = Len(Listed(c.query))]
  OBVIOUS
<1>2. /\ DOMAIN d = CallFields /\ d.query = c.query /\ d.untouched = c.untouched /\ d.rows = c.rows
      /\ d.page = c.page /\ d.first = c.first /\ d.total = Len(Listed(c.query))
  BY <1>1 DEF Shaped, CallFields
<1>3. Progress(c, d) /\ list.read # "whole" /\ Decodes(c.query)
  BY <1>1 DEF CountRows
<1>4. ASSUME Right(c) PROVE Right(d)
  <2>1. ReadRight(d) /\ PageRight(d) = PageRight(c)
    BY <1>2, <1>3, <1>4 DEF Right, ReadRight, PageRight
  <2>2. FirstPage(d) = FirstPage(c) /\ PageNumber(d) = PageNumber(c)
    BY <1>2 DEF FirstPage, PageNumber
  <2>3. (PagesRight(c) => PagesRight(d)) /\ (WindowRight(c) => WindowRight(d))
    BY <1>2, <2>2 DEF PagesRight, WindowRight
  <2> QED
    BY <1>3, <1>4, <2>1, <2>3, ThreeWays DEF Right, Shaped
<1> QED
  BY <1>2, <1>3, <1>4 DEF Advances

(* A list that is read all at once.                                        *)
LEMMA FetchWholeAdvances ==
  ASSUME Shaped, NEW c \in calls, c.untouched => Right(c), FetchWhole(c)
  PROVE  Advances(c)
<1>1. PICK d : d = [c EXCEPT !.first = Listed(c.query), !.total = Len(Listed(c.query))]
  OBVIOUS
<1>2. /\ DOMAIN d = CallFields /\ d.query = c.query /\ d.untouched = c.untouched /\ d.rows = c.rows
      /\ d.page = c.page /\ d.first = Listed(c.query) /\ d.total = Len(Listed(c.query))
  BY <1>1 DEF Shaped, CallFields
<1>3. Progress(c, d) /\ list.read = "whole" /\ Decodes(c.query)
  BY <1>1 DEF FetchWhole
<1>4. ASSUME Right(c) PROVE Right(d)
  BY <1>2, <1>3, <1>4 DEF Right, ReadRight, WholeRight
<1> QED
  BY <1>2, <1>3, <1>4 DEF Advances

(* Looking the rows up again changes none of them.                         *)
LEMMA ResolveRowsAdvances ==
  ASSUME Shaped, NEW c \in calls, c.untouched => Right(c), ResolveRows(c)
  PROVE  Advances(c)
<1>1. PICK d : d = [c EXCEPT !.resolved = TRUE]
  OBVIOUS
<1>2. /\ DOMAIN d = CallFields /\ d.query = c.query /\ d.untouched = c.untouched /\ d.rows = c.rows
      /\ d.page = c.page /\ d.first = c.first /\ d.total = c.total
  BY <1>1 DEF Shaped, CallFields
<1>3. Progress(c, d)
  BY <1>1 DEF ResolveRows
<1>4. ASSUME Right(c) PROVE Right(d)
  BY <1>2, <1>4 DEF Right, ReadRight, WholeRight, PageRight, PagesRight, WindowRight, FirstPage,
     PageNumber
<1> QED
  BY <1>2, <1>3, <1>4 DEF Advances

(* A window that goes on in another page has all that is left of the first.*)
LEMMA SecondPageAdvances ==
  ASSUME Shaped, NEW c \in calls, c.untouched => Right(c), SecondPage(c)
  PROVE  Advances(c)
<1>1. PICK d : d = [c EXCEPT !.page = c.page + 1, !.rows = InPage(c), !.first = Unread]
  OBVIOUS
<1>2. /\ DOMAIN d = CallFields /\ d.query = c.query /\ d.untouched = c.untouched
      /\ d.rows = InPage(c) /\ d.page = c.page + 1 /\ d.first = Unread /\ d.total = c.total
  BY <1>1 DEF Shaped, CallFields
<1>3. /\ Progress(c, d) /\ list.read = "window" /\ c.first # Unread /\ c.total # Unread
      /\ c.page = FirstPage(c) /\ NeedsAnother(c)
  BY <1>1 DEF SecondPage, Loaded
<1>4. ASSUME Right(c) PROVE Right(d)
  <2>1. ReadRight(c) /\ PageRight(c) /\ Decodes(c.query)
    BY <1>3, <1>4 DEF Right, ReadRight
  <2>2. PICK all, X : all = Listed(c.query) /\ all \in Seq(X)
    BY ListedIsSeq DEF Shaped
  <2>3. PICK len \in Nat : len = Len(all)
    BY <2>2, LenProperties
  <2>4. PICK o \in Nat : o = Offset(c.query)
    BY <2>1, OffsetIsNat
  <2>5. PICK r \in Nat \ {0} : r = ReaderPageSize
    BY BrowsingAssumption
  <2>6. PICK f \in Nat : f = FirstPage(c) /\ f # 0
    <3>1. (o \div r) + 1 \in Nat /\ (o \div r) + 1 # 0
      BY <2>5, FirstPageHolds
    <3> QED
      BY <2>4, <2>5, <3>1 DEF FirstPage
  <2>7. PICK size \in 1..r : size = c.query.size
    BY <2>5 DEF Shaped
  <2>8. PICK k \in Nat : /\ InPage(c) = Cut(all, o, k)
                         /\ k = size \/ (k < size /\ o + k = f * r)
    <3>1. c.first = Cut(Listed(c.query), StartOf(FirstPage(c)), ReaderPageSize)
      BY <1>3, <2>1 DEF PageRight
    <3> QED
      BY <1>3, <2>1, <2>2, <2>4, <2>5, <2>6, <2>7, <3>1, InOnePage
  <2>9. PICK t, n : t = InPage(c) /\ n = Len(t)
    OBVIOUS
  <2>10. n < size /\ o + n < len
    BY <1>3, <2>1, <2>2, <2>3, <2>4, <2>7, <2>9 DEF NeedsAnother, ReadRight
  <2>11. /\ n \in Nat
         /\ o + k <= len => n = k
         /\ o <= len /\ len <= o + k => n = len - o
         /\ len <= o => n = 0
    <3>1. IsCut(X, all, len, o, k, t, n)
      BY CutProperties
    <3> QED
      BY <2>2, <2>3, <2>8, <2>9, <3>1 DEF IsCut
  <2>12. n = k /\ n <= r
    BY <2>7, <2>10, <2>11
  <2>13. o + n = f * r
    BY <2>8, <2>10, <2>12
  <2>14. FirstPage(d) = f /\ d.page = f + 1
    BY <1>2, <1>3, <2>6 DEF FirstPage
  <2>15. WindowRight(d)
    BY <1>2, <2>2, <2>3, <2>4, <2>5, <2>6, <2>7, <2>8, <2>9, <2>10, <2>11, <2>12, <2>13,
       <2>14 DEF WindowRight
  <2>16. ReadRight(d) /\ PageRight(d)
    BY <1>2, <2>1, <2>6, <2>14 DEF ReadRight, PageRight
  <2> QED
    BY <1>3, <2>15, <2>16 DEF Right
<1> QED
  BY <1>2, <1>3, <1>4 DEF Advances

(* Page after page, they add up.                                           *)
LEMMA AddedUp ==
  ASSUME Shaped, NEW c \in calls, Right(c), list.read = "pages", Loaded(c)
  PROVE  /\ c.rows \o c.first = Cut(Listed(c.query), 0, c.page * ReaderPageSize)
         /\ c.page * ReaderPageSize \in Nat /\ c.page \in Nat \ {0} /\ Decodes(c.query)
         /\ c.total = Len(Listed(c.query)) /\ StartOf(c.page + 1) = c.page * ReaderPageSize
<1>1. /\ ReadRight(c) /\ PageRight(c) /\ PagesRight(c) /\ c.first # Unread /\ c.total # Unread
  BY DEF Right, Loaded
<1>2. PICK all, X : all = Listed(c.query) /\ all \in Seq(X)
  BY ListedIsSeq DEF Shaped
<1>3. PICK r \in Nat \ {0} : r = ReaderPageSize
  BY BrowsingAssumption
<1>4. c.page \in Nat \ {0} /\ Decodes(c.query) /\ c.total = Len(all)
  BY <1>1, <1>2 DEF ReadRight, PageRight
<1>5. PICK n \in Nat : c.page = n + 1
  <2>1. c.page - 1 \in Nat /\ c.page = (c.page - 1) + 1
    BY <1>4
  <2> QED
    BY <2>1
<1>6. PICK start : start = n * r
  OBVIOUS
<1>7. /\ start \in Nat /\ StartOf(c.page) = start
      /\ start + r = c.page * r /\ StartOf(c.page + 1) = c.page * r
  BY <1>3, <1>5, <1>6 DEF StartOf
<1>8. PageNumber(c) = c.page
  BY <1>4 DEF PageNumber
<1>9. /\ start <= Len(all) /\ c.rows = Cut(all, 0, start) /\ c.first = Cut(all, start, r)
  BY <1>1, <1>2, <1>3, <1>7, <1>8 DEF PagesRight, PageRight
<1>10. Cut(all, 0, start) \o Cut(all, 0 + start, r) = Cut(all, 0, start + r)
  <2>1. all \in Seq(X) /\ 0 + start <= Len(all) /\ 0 \in Nat /\ start \in Nat /\ r \in Nat
    BY <1>2, <1>7, <1>9
  <2>2. Adjoin(X, all, 0, start, r)
    BY AdjacentCuts
  <2> QED
    BY <2>1, <2>2 DEF Adjoin
<1>11. 0 + start = start
  BY <1>7
<1> QED
  BY <1>2, <1>3, <1>4, <1>7, <1>9, <1>10, <1>11

(* Another page begins where what was read ends.                           *)
LEMMA AnotherPageAdvances ==
  ASSUME Shaped, NEW c \in calls, c.untouched => Right(c), AnotherPage(c)
  PROVE  Advances(c)
<1>1. PICK d : d = [c EXCEPT !.page = c.page + 1, !.rows = c.rows \o c.first,
                             !.first = Unread, !.total = Unread]
  OBVIOUS
<1>2. /\ DOMAIN d = CallFields /\ d.query = c.query /\ d.untouched = c.untouched
      /\ d.rows = c.rows \o c.first /\ d.page = c.page + 1 /\ d.first = Unread /\ d.total = Unread
  BY <1>1 DEF Shaped, CallFields
<1>3. Progress(c, d) /\ list.read = "pages" /\ Loaded(c) /\ ~AllRead(c)
  BY <1>1 DEF AnotherPage
<1>4. ASSUME Right(c) PROVE Right(d)
  <2>1. /\ c.rows \o c.first = Cut(Listed(c.query), 0, c.page * ReaderPageSize)
        /\ c.page * ReaderPageSize \in Nat /\ c.page \in Nat \ {0} /\ Decodes(c.query)
        /\ c.total = Len(Listed(c.query)) /\ StartOf(c.page + 1) = c.page * ReaderPageSize
    BY <1>3, <1>4, AddedUp
  <2>2. PICK all, X : all = Listed(c.query) /\ all \in Seq(X)
    BY ListedIsSeq DEF Shaped
  <2>3. PICK len \in Nat : len = Len(all)
    BY <2>2, LenProperties
  <2>4. c.page * ReaderPageSize < len
    BY <1>3, <2>1, <2>2, <2>3 DEF AllRead
  <2>5. PageNumber(d) = c.page + 1 /\ d.page \in Nat /\ d.page # 0
    BY <1>2, <2>1 DEF PageNumber
  <2>6. ReadRight(d) /\ PageRight(d)
    BY <1>2, <2>1, <2>5 DEF ReadRight, PageRight
  <2>7. PagesRight(d)
    BY <1>2, <2>1, <2>2, <2>3, <2>4, <2>5 DEF PagesRight
  <2> QED
    BY <1>3, <2>6, <2>7 DEF Right
<1> QED
  BY <1>2, <1>3, <1>4 DEF Advances

-----------------------------------------------------------------------------
(* Answers                                                                 *)

(* A window that is loaded is the one asked for.                           *)
LEMMA WindowAnswer ==
  ASSUME Shaped, NEW c \in calls, Right(c), list.read = "window", AllLoaded(c)
  PROVE  /\ WindowRows(c) = Cut(Listed(c.query), Offset(c.query), c.query.size)
         /\ c.total = Len(Listed(c.query)) /\ Decodes(c.query)
<1>1. /\ ReadRight(c) /\ PageRight(c) /\ WindowRight(c) /\ c.first # Unread /\ c.total # Unread
      /\ c.page # FirstPage(c) \/ ~NeedsAnother(c)
  BY DEF Right, AllLoaded, Loaded
<1>2. PICK all, X : all = Listed(c.query) /\ all \in Seq(X)
  BY ListedIsSeq DEF Shaped
<1>3. PICK len \in Nat : len = Len(all)
  BY <1>2, LenProperties
<1>4. /\ Decodes(c.query) /\ c.total = len /\ c.page # 0
      /\ c.first = Cut(all, StartOf(c.page), ReaderPageSize)
  BY <1>1, <1>2, <1>3 DEF ReadRight, PageRight
<1>5. PICK o \in Nat : o = Offset(c.query)
  BY <1>4, OffsetIsNat
<1>6. PICK r \in Nat \ {0} : r = ReaderPageSize
  BY BrowsingAssumption
<1>7. PICK size \in 1..r : size = c.query.size
  BY <1>6 DEF Shaped
<1>8. PICK f \in Nat : f = FirstPage(c)
  <2>1. (o \div r) + 1 \in Nat
    BY <1>6, FirstPageHolds
  <2> QED
    BY <1>5, <1>6, <2>1 DEF FirstPage
<1>9. c.page \in {f, f + 1}
  BY <1>1, <1>4, <1>8 DEF WindowRight
<1>10. CASE c.page = f
  <2>1. PICK k \in Nat : InPage(c) = Cut(all, o, k) /\ (k = size \/ k < size)
    <3>1. c.first = Cut(Listed(c.query), StartOf(FirstPage(c)), ReaderPageSize)
      BY <1>2, <1>4, <1>8, <1>10
    <3> QED
      BY <1>2, <1>4, <1>5, <1>7, <3>1, InOnePage
  <2>2. PICK t, n : t = InPage(c) /\ n = Len(t)
    OBVIOUS
  <2>3. n \in Nat /\ (o + k <= len => n = k)
    <3>1. IsCut(X, all, len, o, k, t, n)
      BY CutProperties
    <3> QED
      BY <1>2, <1>3, <2>1, <2>2, <3>1 DEF IsCut
  <2>4. ~(n < size /\ o + n < len)
    BY <1>1, <1>3, <1>4, <1>5, <1>7, <1>8, <1>10, <2>2 DEF NeedsAnother
  <2>5. len <= o + n \/ k = size
    BY <1>7, <2>1, <2>3, <2>4
  <2>6. Cut(all, o, k) = Cut(all, o, size)
    <3>1. /\ all \in Seq(X) /\ o \in Nat /\ k \in Nat /\ size \in Nat /\ k <= size
          /\ Len(all) <= o + Len(Cut(all, o, k)) \/ k = size
      BY <1>2, <1>3, <1>7, <2>1, <2>2, <2>5
    <3>2. IsWhole(X, all, o, k, size)
      BY LongerCut
    <3> QED
      BY <3>1, <3>2 DEF IsWhole
  <2>7. WindowRows(c) = InPage(c)
    BY <1>8, <1>10 DEF WindowRows
  <2> QED
    BY <1>2, <1>3, <1>4, <1>5, <1>7, <2>1, <2>6, <2>7
<1>11. CASE c.page = f + 1
  <2>1. PICK n \in Nat : n = Len(c.rows)
    BY <1>1, <1>8, <1>11 DEF WindowRight
  <2>2. /\ n \in Nat /\ n < size /\ n <= r /\ c.rows = Cut(all, o, n)
        /\ o + n = f * r /\ o + n < len
    BY <1>1, <1>2, <1>3, <1>5, <1>6, <1>7, <1>8, <1>11, <2>1 DEF WindowRight
  <2>3. StartOf(c.page) = o + n
    <3>1. (f + 1) - 1 = f
      BY <1>8
    <3> QED
      BY <1>6, <1>11, <2>2, <3>1 DEF StartOf
  <2>4. PICK left \in Nat : left = size - n /\ left <= r /\ n + left = size
    <3>1. size - n \in Nat /\ size - n <= r /\ n + (size - n) = size
      BY <1>7, <2>2
    <3> QED
      BY <3>1
  <2>5. WindowRows(c) = c.rows \o Cut(c.first, 0, left)
    <3>1. c.page # f
      BY <1>8, <1>11
    <3> QED
      BY <1>7, <1>8, <2>1, <2>4, <3>1 DEF WindowRows
  <2>6. Cut(c.first, 0, left) = Cut(all, o + n, left)
    <3>1. /\ all \in Seq(X) /\ o + n \in Nat /\ r \in Nat /\ 0 \in Nat /\ left \in Nat
      BY <1>2, <2>2
    <3>2. Cut(Cut(all, o + n, r), 0, left)
            = Cut(all, (o + n) + 0, IF r <= 0 THEN 0 ELSE Lesser(left, r - 0))
      <4>1. IsCutOfCut(X, all, o + n, r, 0, left)
        BY CutOfCut
      <4> QED
        BY <3>1, <4>1 DEF IsCutOfCut
    <3>3. (o + n) + 0 = o + n /\ ~(r <= 0) /\ r - 0 = r /\ Lesser(left, r) = left
      BY <2>2, <2>4 DEF Lesser
    <3> QED
      BY <1>4, <1>6, <2>3, <3>2, <3>3
  <2>7. Cut(all, o, n) \o Cut(all, o + n, left) = Cut(all, o, n + left)
    <3>1. /\ all \in Seq(X) /\ o \in Nat /\ n \in Nat /\ left \in Nat
          /\ o + n <= Len(all)
      BY <1>2, <1>3, <2>2
    <3>2. Adjoin(X, all, o, n, left)
      BY AdjacentCuts
    <3> QED
      BY <3>1, <3>2 DEF Adjoin
  <2> QED
    BY <1>2, <1>3, <1>4, <1>5, <1>7, <2>2, <2>4, <2>5, <2>6, <2>7
<1> QED
  BY <1>9, <1>10, <1>11

(* A list that is loaded whole is all there is.                            *)
LEMMA WholeAnswer ==
  ASSUME Shaped, NEW c \in calls, Right(c), list.read # "window", AllLoaded(c)
  PROVE  /\ c.rows \o c.first = Listed(c.query)
         /\ c.total = Len(Listed(c.query)) /\ Decodes(c.query)
<1>1. ReadRight(c) /\ Loaded(c) /\ c.first # Unread /\ c.total # Unread
  BY DEF Right, AllLoaded, Loaded
<1>2. c.total = Len(Listed(c.query)) /\ Decodes(c.query)
  BY <1>1 DEF ReadRight
<1>3. PICK all, X : all = Listed(c.query) /\ all \in Seq(X)
  BY ListedIsSeq DEF Shaped
<1>4. CASE list.read = "whole"
  <2>1. c.rows = <<>> /\ c.first = all
    BY <1>1, <1>3, <1>4 DEF Right, WholeRight
  <2>2. <<>> \o all = all
    BY <1>3
  <2> QED
    BY <1>2, <1>3, <2>1, <2>2
<1>5. CASE list.read = "pages"
  <2>1. c.page * ReaderPageSize >= c.total
    BY <1>5 DEF AllLoaded, AllRead
  <2>2. /\ c.rows \o c.first = Cut(all, 0, c.page * ReaderPageSize)
        /\ c.page * ReaderPageSize \in Nat
    BY <1>1, <1>3, <1>5, AddedUp
  <2>3. PICK n \in Nat : n = c.page * ReaderPageSize
    BY <2>2
  <2>4. Len(all) \in Nat
    BY <1>3, LenProperties
  <2>5. all \in Seq(X) /\ n \in Nat /\ Len(all) <= n
    BY <1>2, <1>3, <2>1, <2>3, <2>4
  <2>6. Cut(all, 0, n) = all
    BY <2>5, CutOfAll, Zenon
  <2> QED
    BY <1>2, <1>3, <2>2, <2>3, <2>6
<1> QED
  BY <1>4, <1>5, ThreeWays DEF Shaped

(* The token of a cut continues after it, or says that it was the last.    *)
LEMMA TokenContinues ==
  ASSUME stored \in Tables, NEW q, Decodes(q), q.size \in Nat, NEW rows,
         rows = Cut(Listed(q), Offset(q), q.size)
  PROVE  LET all == Listed(q)
             end == Offset(q) + Len(rows)
         IN NextToken(q, Len(rows), Len(all))
              = IF rows = <<>> \/ end = Len(all) THEN NoToken
                ELSE [request |-> Fingerprint(q), offset |-> end]
<1>1. PICK all, X : all = Listed(q) /\ all \in Seq(X)
  BY ListedIsSeq
<1>2. PICK len \in Nat : len = Len(all)
  BY <1>1, LenProperties
<1>3. PICK o \in Nat : o = Offset(q)
  BY OffsetIsNat
<1>4. PICK size \in Nat : size = q.size
  OBVIOUS
<1>5. PICK l : l = Len(rows)
  OBVIOUS
<1>6. /\ rows \in Seq(X) /\ l \in Nat
      /\ o + size <= len => l = size
      /\ o <= len /\ len <= o + size => l = len - o
      /\ len <= o => l = 0
  <2>1. IsCut(X, all, len, o, size, rows, l)
    BY CutProperties
  <2> QED
    BY <1>1, <1>2, <1>3, <1>4, <1>5, <2>1 DEF IsCut
<1>7. rows = <<>> <=> l = 0
  BY <1>5, <1>6, EmptySeq
<1>8. l = 0 \/ o + l <= len
  BY <1>6
<1>9. (l = 0 \/ o + l >= len) <=> (l = 0 \/ o + l = len)
  BY <1>6, <1>8
<1>10. NextToken(q, l, len) = IF l = 0 \/ o + l >= len THEN NoToken
                              ELSE [request |-> Fingerprint(q), offset |-> o + l]
  BY <1>3 DEF NextToken
<1> QED
  BY <1>1, <1>2, <1>3, <1>5, <1>7, <1>9, <1>10

-----------------------------------------------------------------------------
(* The invariant                                                           *)

(* A request that was just sent has read nothing.                          *)
LEMMA CalledRight ==
  ASSUME list \in Lists, stored \in Tables, NEW q, NEW d, d = Called(q)
  PROVE  DOMAIN d = CallFields /\ d.query = q /\ Right(d)
<1>1. /\ DOMAIN d = CallFields /\ d.query = q /\ d.page = 0 /\ d.total = Unread
      /\ d.first = Unread /\ d.rows = <<>>
  BY DEF Called, CallFields
<1>2. ReadRight(d) /\ PageRight(d) /\ WholeRight(d)
  BY <1>1 DEF ReadRight, PageRight, WholeRight
<1>3. PICK all, X : all = Listed(q) /\ all \in Seq(X)
  BY ListedIsSeq
<1>4. PICK len \in Nat : len = Len(all)
  BY <1>3, LenProperties
<1>5. list.read = "pages" => PagesRight(d)
  <2> SUFFICES ASSUME list.read = "pages" PROVE PagesRight(d)
    OBVIOUS
  <2>1. PageNumber(d) = 1
    BY <1>1 DEF PageNumber, FirstPage
  <2>2. StartOf(1) = 0
    BY BrowsingAssumption DEF StartOf
  <2>3. PICK t, l : t = Cut(all, 0, 0) /\ l = Len(t)
    OBVIOUS
  <2>4. t \in Seq(X) /\ l = 0
    <3>1. IsCut(X, all, len, 0, 0, t, l)
      BY CutProperties
    <3> QED
      BY <1>3, <1>4, <2>3, <3>1 DEF IsCut
  <2>5. t = <<>>
    BY <2>3, <2>4, EmptySeq
  <2> QED
    BY <1>1, <1>3, <1>4, <2>1, <2>2, <2>3, <2>5 DEF PagesRight
<1>6. list.read = "window" => WindowRight(d)
  BY <1>1 DEF WindowRight
<1> QED
  BY <1>1, <1>2, <1>5, <1>6, ThreeWays DEF Right

(* Another query takes the place of the requests that were under way.      *)
LEMMA LoadKept ==
  ASSUME BrowseInv, NEW q, Load(q), DOMAIN q = DOMAIN query, q.size \in 1..ReaderPageSize
  PROVE  BrowseInv'
<1>1. list \in Lists /\ stored \in Tables /\ UNCHANGED <<list, stored>>
  BY DEF BrowseInv, Shaped, Load
<1>2. PICK d : d = Called(q)
  OBVIOUS
<1>3. DOMAIN d = CallFields /\ d.query = q /\ Right(d)
  BY <1>1, <1>2, CalledRight
<1>4. calls' = {d} /\ query' = q /\ loading'
  BY <1>2 DEF Load, StillWanted
<1>5. Shaped'
  BY <1>1, <1>3, <1>4 DEF BrowseInv, Shaped
<1>6. Right(d)'
  BY <1>1, <1>3, RightSame
<1> QED
  BY <1>4, <1>5, <1>6 DEF BrowseInv, ShownAnswersQuery

(* A list opens without an answer.                                         *)
LEMMA BrowseInvInitially == BrowsingInit => BrowseInv
<1> SUFFICES ASSUME list \in Lists, stored \in Tables, NEW q \in Address, Opened(q)
             PROVE  BrowseInv
  BY DEF BrowsingInit
<1>1. PICK d : d = Called(q)
  OBVIOUS
<1>2. DOMAIN d = CallFields /\ d.query = q /\ Right(d)
  BY <1>1, CalledRight
<1>3. calls = {d} /\ query = q /\ loading
  BY <1>1 DEF Opened
<1>4. DOMAIN q = {"search", "order", "size", "token"} /\ q.size \in 1..ReaderPageSize
  BY BrowsingAssumption DEF Address, Range
<1>5. Shaped
  BY <1>2, <1>3, <1>4 DEF Shaped
<1> QED
  BY <1>2, <1>3, <1>5 DEF BrowseInv, ShownAnswersQuery

(* When the table does not change, what was read right stays so.           *)
LEMMA CallsKept ==
  ASSUME BrowseInv, UNCHANGED <<list, stored, query>>, ShownAnswersQuery',
         \A e \in calls' : \/ e \in calls
                           \/ DOMAIN e = CallFields /\ e.query = query /\ (e.untouched => Right(e))
  PROVE  BrowseInv'
<1>1. \A e \in calls' : DOMAIN e = CallFields /\ e.query = query /\ (e.untouched => Right(e))
  BY DEF BrowseInv, Shaped
<1>2. Shaped'
  BY <1>1 DEF BrowseInv, Shaped
<1>3. \A e \in calls' : e.untouched => Right(e)'
  BY <1>1, RightSame
<1> QED
  BY <1>2, <1>3 DEF BrowseInv

(* The service keeps it: what it reads is right, and what it answers was   *)
(* asked for.                                                              *)
LEMMA ServiceKept ==
  ASSUME BrowseInv, NEW c \in calls, ServiceStep(c)
  PROVE  BrowseInv'
<1>1. Shaped /\ (c.untouched => Right(c)) /\ c.query = query
  BY DEF BrowseInv, Shaped
<1>2. ASSUME Advances(c), UNCHANGED <<list, stored, edits, hook>>
      PROVE  BrowseInv'
  <2>1. PICK d : /\ calls' = (calls \ {c}) \cup {d} /\ DOMAIN d = CallFields /\ d.query = query
                 /\ d.untouched => Right(d)
    BY <1>1, <1>2 DEF Advances, Progress
  <2>2. UNCHANGED <<list, stored, query>> /\ ShownAnswersQuery'
    BY <1>2 DEF hook, BrowseInv, ShownAnswersQuery
  <2> QED
    BY <2>1, <2>2, CallsKept
<1>3. CASE MemoryPage(c)
  BY <1>1, <1>2, <1>3, MemoryPageAdvances DEF MemoryPage
<1>4. CASE CountRows(c)
  BY <1>1, <1>2, <1>4, CountRowsAdvances DEF CountRows
<1>5. CASE FetchPage(c)
  BY <1>1, <1>2, <1>5, FetchPageAdvances DEF FetchPage
<1>6. CASE FetchWhole(c)
  BY <1>1, <1>2, <1>6, FetchWholeAdvances DEF FetchWhole
<1>7. CASE SecondPage(c)
  BY <1>1, <1>2, <1>7, SecondPageAdvances DEF SecondPage
<1>8. CASE AnotherPage(c)
  BY <1>1, <1>2, <1>8, AnotherPageAdvances DEF AnotherPage
<1>9. CASE ResolveRows(c)
  BY <1>1, <1>2, <1>9, ResolveRowsAdvances DEF ResolveRows
<1>10. CASE Receive(c)
  <2>1. result' = [next |-> Reply(c).next, answers |-> c.query = query]
    BY <1>10 DEF Receive
  <2>2. result'.answers = (c.query = query)
    BY <2>1
  <2>3. ShownAnswersQuery'
    BY <1>1, <2>2 DEF ShownAnswersQuery
  <2>4. UNCHANGED <<list, stored, query>> /\ calls' \subseteq calls
    BY <1>10 DEF Receive
  <2> QED
    BY <2>3, <2>4, CallsKept
<1>11. CASE Fails(c)
  <2>1. ShownAnswersQuery'
    BY <1>11 DEF Fails, ShownAnswersQuery
  <2>2. UNCHANGED <<list, stored, query>> /\ calls' \subseteq calls
    BY <1>11 DEF Fails
  <2> QED
    BY <2>1, <2>2, CallsKept
<1> QED
  BY <1>3, <1>4, <1>5, <1>6, <1>7, <1>8, <1>9, <1>10, <1>11 DEF ServiceStep

(* The user keeps it: what changes the query sends another request.        *)
LEMMA UserKept ==
  ASSUME BrowseInv, UserStep
  PROVE  BrowseInv'
<1>1. DOMAIN query = {"search", "order", "size", "token"} /\ query.size \in 1..ReaderPageSize
  BY DEF BrowseInv, Shaped
<1>2. ASSUME NEW s, NEW o, NEW t, Load([query EXCEPT !.search = s, !.order = o, !.token = t])
      PROVE  BrowseInv'
  <2>1. PICK q : q = [query EXCEPT !.search = s, !.order = o, !.token = t]
    OBVIOUS
  <2>2. DOMAIN q = DOMAIN query /\ q.size = query.size
    BY <1>1, <2>1
  <2> QED
    BY <1>1, <1>2, <2>1, <2>2, LoadKept
<1>3. ASSUME NEW t, Load([query EXCEPT !.token = t])
      PROVE  BrowseInv'
  <2>1. PICK q : q = [query EXCEPT !.token = t]
    OBVIOUS
  <2>2. DOMAIN q = DOMAIN query /\ q.size = query.size
    BY <1>1, <2>1
  <2> QED
    BY <1>1, <1>3, <2>1, <2>2, LoadKept
<1>4. ASSUME UNCHANGED <<served, query, result, loading, error>>
      PROVE  BrowseInv'
  <2>1. UNCHANGED <<list, stored, query, calls>> /\ ShownAnswersQuery'
    BY <1>4 DEF served, BrowseInv, ShownAnswersQuery
  <2> QED
    BY <2>1, CallsKept
<1>5. CASE ApplySearch
  BY <1>2, <1>4, <1>5 DEF ApplySearch
<1>6. CASE ResetQuery
  BY <1>2, <1>6 DEF ResetQuery
<1>7. CASE NextPage
  BY <1>3, <1>7 DEF NextPage
<1>8. CASE PreviousPage
  BY <1>3, <1>8 DEF PreviousPage
<1>9. ASSUME NEW text \in Searches, Type(text) PROVE BrowseInv'
  BY <1>4, <1>9 DEF Type
<1>10. ASSUME NEW order \in Orders, SetOrder(order) PROVE BrowseInv'
  <2>1. PICK q : q = [query EXCEPT !.order = order, !.token = NoToken]
    OBVIOUS
  <2>2. DOMAIN q = DOMAIN query /\ q.size = query.size
    BY <1>1, <2>1
  <2> QED
    BY <1>1, <1>10, <2>1, <2>2, LoadKept DEF SetOrder
<1>11. ASSUME NEW n \in DOMAIN PageSizes, SetPageSize(PageSizes[n]) PROVE BrowseInv'
  <2>1. PICK q : q = [query EXCEPT !.size = PageSizes[n], !.token = NoToken]
    OBVIOUS
  <2>2. DOMAIN q = DOMAIN query /\ q.size \in 1..ReaderPageSize
    BY <1>1, <2>1, BrowsingAssumption
  <2> QED
    BY <1>1, <1>11, <2>1, <2>2, LoadKept DEF SetPageSize
<1>12. ASSUME NEW q \in Address, Restore(q) PROVE BrowseInv'
  <2>1. DOMAIN q = DOMAIN query /\ q.size \in 1..ReaderPageSize
    BY <1>1, BrowsingAssumption DEF Address, Range
  <2> QED
    BY <1>12, <2>1, LoadKept DEF Restore
<1> QED
  BY <1>5, <1>6, <1>7, <1>8, <1>9, <1>10, <1>11, <1>12 DEF UserStep

(* A command that writes to the table touches every request under way.     *)
LEMMA EditKept ==
  ASSUME BrowseInv, EditTable
  PROVE  BrowseInv'
<1>1. ASSUME NEW e \in calls'
      PROVE  DOMAIN e = CallFields /\ e.query = query /\ ~e.untouched
  <2>1. PICK c \in calls : e = [c EXCEPT !.untouched = FALSE]
    BY DEF EditTable
  <2>2. DOMAIN c = CallFields /\ c.query = query
    BY DEF BrowseInv, Shaped
  <2> QED
    BY <2>1, <2>2 DEF CallFields
<1>2. list' = list /\ stored' \in Tables /\ query' = query /\ ShownAnswersQuery'
  BY DEF EditTable, hook, BrowseInv, ShownAnswersQuery
<1>3. Shaped'
  BY <1>1, <1>2 DEF BrowseInv, Shaped
<1> QED
  BY <1>1, <1>2, <1>3 DEF BrowseInv

(* The invariant of every list, under every user and every writer.         *)
THEOREM Browses == BrowsingSpec => []BrowseInv
<1>1. ASSUME BrowseInv, [BrowsingNext]_browsingVars
      PROVE  BrowseInv'
  <2>1. CASE UNCHANGED browsingVars
    <3>1. UNCHANGED <<list, stored, query, calls>> /\ ShownAnswersQuery'
      BY <1>1, <2>1 DEF browsingVars, served, hook, BrowseInv, ShownAnswersQuery
    <3> QED
      BY <1>1, <3>1, CallsKept
  <2> QED
    BY <1>1, <2>1, ServiceKept, UserKept, EditKept DEF BrowsingNext
<1> QED
  BY <1>1, BrowseInvInitially, PTL DEF BrowsingSpec

(* What is shown answers the query in the address, however late an answer  *)
(* to an earlier one comes: none is under way.                             *)
THEOREM ShownAnswers == BrowsingSpec => []ShownAnswersQuery
<1>1. BrowseInv => ShownAnswersQuery
  BY DEF BrowseInv
<1> QED
  BY <1>1, Browses, PTL

(* A page is the window of the list that its query and token ask for, for  *)
(* every table, every page size up to the reader's, and every way a list   *)
(* is read.                                                                *)
THEOREM PagesAreWindows == BrowsingSpec => []PageIsWindow
<1>1. BrowseInv => PageIsWindow
  <2> SUFFICES ASSUME BrowseInv, NEW c \in calls, Replied(c), c.untouched
               PROVE  LET all == Listed(c.query)
                          reply == Reply(c)
                          end == Offset(c.query) + Len(reply.rows)
                      IN /\ c.query.token # NoToken => c.query.token.request = Fingerprint(c.query)
                         /\ reply.rows = Cut(all, Offset(c.query), c.query.size)
                         /\ reply.total = Len(all)
                         /\ IF reply.rows = <<>> \/ end = Len(all) THEN reply.next = NoToken
                            ELSE reply.next = [request |-> Fingerprint(c.query), offset |-> end]
    BY DEF PageIsWindow
  <2>1. Shaped /\ Right(c) /\ AllLoaded(c) /\ stored \in Tables /\ c.query.size \in Nat
    BY DEF BrowseInv, Shaped, Replied
  <2>2. PICK all : all = Listed(c.query)
    OBVIOUS
  <2>3. PICK rows : rows = Cut(all, Offset(c.query), c.query.size)
    OBVIOUS
  <2>4. /\ Decodes(c.query)
        /\ Reply(c) = [rows |-> rows, next |-> NextToken(c.query, Len(rows), Len(all)),
                       total |-> Len(all)]
    <3>1. CASE list.read = "window"
      <4>1. WindowRows(c) = rows /\ c.total = Len(all) /\ Decodes(c.query)
        BY <2>1, <2>2, <2>3, <3>1, WindowAnswer
      <4> QED
        BY <3>1, <4>1 DEF Reply, WindowReply
    <3>2. CASE list.read # "window"
      <4>1. c.rows \o c.first = all /\ Decodes(c.query)
        BY <2>1, <2>2, <3>2, WholeAnswer
      <4> QED
        BY <2>3, <3>2, <4>1 DEF Reply, WholeReply
    <3> QED
      BY <3>1, <3>2
  <2>5. NextToken(c.query, Len(rows), Len(all))
          = IF rows = <<>> \/ Offset(c.query) + Len(rows) = Len(all) THEN NoToken
            ELSE [request |-> Fingerprint(c.query), offset |-> Offset(c.query) + Len(rows)]
    BY <2>1, <2>2, <2>3, <2>4, TokenContinues
  <2>6. c.query.token # NoToken => c.query.token.request = Fingerprint(c.query)
    BY <2>4 DEF Decodes
  <2> QED
    BY <2>2, <2>3, <2>4, <2>5, <2>6
<1> QED
  BY <1>1, Browses, PTL
====
