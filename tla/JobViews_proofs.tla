-------------------------- MODULE JobViews_proofs --------------------------
(***************************************************************************)
(* Proofs about the pages for people.                                      *)
(*                                                                         *)
(* The list (JobListing), for any list, page, rows per page and retention  *)
(* limit: the pages are slices of the list, without changes they make it   *)
(* up, and whatever is inserted, updated, rolled back and evicted          *)
(* meanwhile, a client that follows the links is shown every record that   *)
(* stayed as it was.                                                       *)
(*                                                                         *)
(* The page of a job (JobViews), for any pages, tables, damages and texts: *)
(* what was meant is written piece by piece, the lemmas of                 *)
(* OcrOutput_proofs say what the parser finds where a piece stands, and    *)
(* the answer is what was meant.                                           *)
(***************************************************************************)
EXTENDS JobViews, OcrOutput_proofs

(* The place the next page is to start at, and the records that stayed as  *)
(* they were, stand before a place, and were never shown                   *)
Boundary == (page - 1) * perPage

Before(b) == {list[i] : i \in {k \in DOMAIN list : k <= b}}

Missed(b) == Before(b) \cap (quiet \ RowsSeen)

TypeInv ==
    /\ list \in Seq(Jobs)
    /\ unsent \subseteq Jobs /\ quiet \subseteq Jobs
    /\ walk \in {"start", "walking", "done"}
    /\ page \in Nat \ {0} /\ perPage \in Nat \ {0} /\ first \in Nat
    /\ seen \in Seq(Jobs)
    /\ rollbacks \in Nat /\ changes \in Nat

QuietListed == quiet \subseteq Listed /\ quiet \cap unsent = {}

Started ==
    /\ walk = "start" => first = 0 /\ seen = <<>>
    /\ walk # "start" => first # 0

(* Until something changes: the pages shown end where the next one starts. *)
InStep ==
    changes = 0 /\ first # 0 =>
        LET from == Start(first, perPage)
        IN  /\ from + Len(seen) <= Len(list)
            /\ seen = SubSeq(list, from + 1, from + Len(seen))
            /\ walk = "walking" => page <= TotalPages(perPage) /\ from + Len(seen) = Boundary
            /\ walk = "done" => from + Len(seen) = Len(list)

FewMissed ==
    first = 1 =>
        /\ walk = "walking" => Cardinality(Missed(Boundary)) <= rollbacks
        /\ walk = "done" => Cardinality(quiet \ RowsSeen) <= rollbacks

ListInv == TypeInv /\ QuietListed /\ Started /\ InStep /\ FewMissed

-----------------------------------------------------------------------------
(***************************************************************************)
(* Pages                                                                   *)
(***************************************************************************)
LEMMA RoundedUp ==
    ASSUME NEW l \in Nat, NEW n \in Nat \ {0}
    PROVE  LET t == (l + n - 1) \div n
           IN  /\ t \in Nat /\ t <= l /\ l <= t * n
               /\ l > 0 => t >= 1 /\ (t - 1) * n < l
<1> DEFINE x == l + n - 1
           t == x \div n
           r == x % n
<1>1. x \in Nat
  OBVIOUS
<1> HIDE DEF x
<1>2. t \in Nat /\ r \in 0..(n - 1) /\ x = t * n + r
  BY <1>1
<1> HIDE DEF t, r
<1>3. l + n - 1 = t * n + r
  BY <1>2 DEF x
<1>4. t * n \in Nat /\ (t - 1) * n = t * n - n
  BY <1>2
<1>5. l <= t * n /\ (l > 0 => t * n < l + n)
  BY <1>2, <1>3, <1>4
<1>6. ASSUME t > l PROVE FALSE
  <2>1. t >= l + 1
    BY <1>2, <1>6
  <2>2. t * n >= (l + 1) * n
    BY <1>2, <2>1
  <2>3. (l + 1) * n = l * n + n /\ l * n >= l
    OBVIOUS
  <2> DEFINE ln == l * n
             tn == t * n
  <2>4. ln \in Nat /\ tn \in Nat /\ tn >= ln + n /\ ln >= l /\ l + n - 1 = tn + r
    BY <1>3, <1>4, <2>2, <2>3
  <2> HIDE DEF ln, tn
  <2> QED
    BY <1>2, <2>4
<1>7. t <= l
  BY <1>2, <1>6
<1>8. l > 0 => t >= 1
  BY <1>2, <1>4, <1>5
<1> QED
  BY <1>2, <1>4, <1>5, <1>7, <1>8 DEF t, x

(* Where a page starts and ends, once its number has been clamped *)
LEMMA PageBounds ==
    ASSUME list \in Seq(Jobs), NEW n \in Nat \ {0}
    PROVE  /\ TotalPages(n) \in Nat \ {0}
           /\ \A c \in 1..TotalPages(n) :
                /\ Start(c, n) \in Nat /\ End(c, n) \in Nat
                /\ Start(c, n) <= End(c, n) /\ End(c, n) <= Len(list)
                /\ list # <<>> => Start(c, n) < End(c, n)
                /\ c < TotalPages(n) => End(c, n) = Start(c, n) + n
                /\ c = TotalPages(n) => End(c, n) = Len(list)
<1> DEFINE l == Len(list)
           t == (l + n - 1) \div n
           T == TotalPages(n)
<1>1. l \in Nat /\ (list = <<>> <=> l = 0)
  BY EmptySeq
<1> HIDE DEF l
<1>2. t \in Nat /\ t <= l /\ l <= t * n /\ (l > 0 => t >= 1 /\ (t - 1) * n < l)
  BY <1>1, RoundedUp
<1>3. T = Clamp(t, 1, l + 1)
  BY DEF TotalPages, l
<1> HIDE DEF t, T
<1>4. T = IF l = 0 THEN 1 ELSE t
  BY <1>1, <1>2, <1>3 DEF Clamp
<1>5. T \in Nat \ {0}
  BY <1>1, <1>2, <1>4
<1>6. ASSUME NEW c \in 1..T
      PROVE  /\ Start(c, n) \in Nat /\ End(c, n) \in Nat
             /\ Start(c, n) <= End(c, n) /\ End(c, n) <= l
             /\ l # 0 => Start(c, n) < End(c, n)
             /\ c < T => End(c, n) = Start(c, n) + n
             /\ c = T => End(c, n) = l
  <2> DEFINE s == (c - 1) * n
  <2>1. s \in Nat /\ s + n = c * n
    BY <1>5
  <2>2. End(c, n) = IF s + n < l THEN s + n ELSE l
    BY DEF End, Start, l
  <2>3. CASE l = 0
    <3>1. T = 1 /\ c = 1 /\ s = 0
      BY <1>4, <2>3
    <3> QED
      BY <1>1, <2>2, <2>3, <3>1 DEF Start
  <2>4. CASE l # 0
    <3>1. T = t /\ t >= 1 /\ (t - 1) * n < l /\ l <= t * n /\ c <= t /\ c \in Nat
      BY <1>1, <1>2, <1>4, <1>5, <2>4
    <3>2. s <= (t - 1) * n
      BY <1>2, <3>1
    <3>3. s < l
      BY <1>1, <1>2, <2>1, <3>1, <3>2
    <3>4. ASSUME c < t PROVE s + n < l
      <4>1. c * n <= (t - 1) * n
        BY <1>2, <3>1, <3>4
      <4> QED
        BY <1>1, <1>2, <2>1, <3>1, <4>1
    <3>5. ASSUME c = t PROVE s + n >= l
      BY <1>1, <2>1, <3>1, <3>5
    <3> HIDE DEF s
    <3> QED
      BY <1>1, <2>1, <2>2, <3>1, <3>3, <3>4, <3>5 DEF Start, s
  <2> QED
    BY <2>3, <2>4
<1> QED
  BY <1>1, <1>5, <1>6 DEF T, l

LEMMA ClampedPage ==
    ASSUME list \in Seq(Jobs), NEW n \in Nat \ {0}, NEW p \in Nat
    PROVE  /\ ClampPage(p, n) \in 1..TotalPages(n)
           /\ p \in 1..TotalPages(n) => ClampPage(p, n) = p
           /\ p # 0 => ClampPage(p, n) <= p
           /\ p > TotalPages(n) => ClampPage(p, n) = TotalPages(n)
  BY PageBounds DEF ClampPage, Clamp

LEMMA ClampedPerPage ==
    ASSUME NEW q \in Nat
    PROVE  ClampPerPage(q) \in Nat \ {0}
  BY ListingAssumption DEF ClampPerPage, Clamp

(* What a page adds to what was seen *)
LEMMA ShownRows ==
    ASSUME TypeInv, NEW n \in Nat \ {0}, NEW c \in 1..TotalPages(n)
    PROVE  /\ Rows(c, n) \in Seq(Jobs)
           /\ Len(Rows(c, n)) = End(c, n) - Start(c, n)
           /\ seen \o Rows(c, n) \in Seq(Jobs)
           /\ Len(seen \o Rows(c, n)) = Len(seen) + (End(c, n) - Start(c, n))
           /\ {(seen \o Rows(c, n))[i] : i \in DOMAIN (seen \o Rows(c, n))}
                = RowsSeen \cup {list[i] : i \in (Start(c, n) + 1)..End(c, n)}
<1> DEFINE s == Start(c, n)
           e == End(c, n)
           rows == SubSeq(list, s + 1, e)
           m == Len(seen)
           longer == seen \o rows
<1>1. list \in Seq(Jobs) /\ seen \in Seq(Jobs) /\ m \in Nat
  BY DEF TypeInv
<1>2. s \in Nat /\ e \in Nat /\ s <= e /\ e <= Len(list) /\ Len(list) \in Nat
  BY <1>1, PageBounds
<1> HIDE DEF s, e, m
<1>3. \A i \in (s + 1)..e : list[i] \in Jobs
  BY <1>1, <1>2
<1>4. rows \in Seq(Jobs) /\ Len(rows) = e - s /\ \A i \in 1..(e - s) : rows[i] = list[s + i]
  <2>1. /\ rows \in Seq(Jobs)
        /\ Len(rows) = IF s + 1 <= e THEN e - (s + 1) + 1 ELSE 0
        /\ \A i \in 1..(e - (s + 1) + 1) : rows[i] = list[(s + 1) + i - 1]
    BY <1>2, <1>3, SubSeqProperties
  <2> HIDE DEF rows
  <2>2. e - (s + 1) + 1 = e - s /\ (~(s + 1 <= e) => e - s = 0)
    BY <1>2
  <2>3. ASSUME NEW i \in 1..(e - s) PROVE rows[i] = list[s + i]
    <3>1. (s + 1) + i - 1 = s + i
      BY <1>2
    <3>2. rows[i] = list[(s + 1) + i - 1]
      BY <2>1, <2>2
    <3> QED
      BY <3>1, <3>2
  <2>4. Len(rows) = e - s
    BY <2>1, <2>2
  <2> QED
    BY <2>1, <2>3, <2>4
<1> HIDE DEF rows
<1>5. /\ longer \in Seq(Jobs) /\ Len(longer) = m + (e - s)
      /\ \A i \in 1..(m + (e - s)) : longer[i] = IF i <= m THEN seen[i] ELSE rows[i - m]
  BY <1>1, <1>4, ConcatProperties DEF m
<1> HIDE DEF longer
<1>6. {longer[i] : i \in DOMAIN longer} = RowsSeen \cup {list[i] : i \in (s + 1)..e}
  <2>1. DOMAIN longer = 1..(m + (e - s)) /\ DOMAIN seen = 1..m
    BY <1>1, <1>5, LenProperties DEF m
  <2>2. ASSUME NEW i \in 1..(m + (e - s))
        PROVE  longer[i] \in RowsSeen \cup {list[k] : k \in (s + 1)..e}
    <3>1. CASE i <= m
      BY <1>1, <1>5, <2>1, <3>1 DEF RowsSeen
    <3>2. CASE i > m
      <4>1. i - m \in 1..(e - s) /\ s + (i - m) \in (s + 1)..e
        BY <1>1, <1>2, <3>2
      <4> QED
        BY <1>1, <1>4, <1>5, <3>2, <4>1
    <3> QED
      BY <1>1, <3>1, <3>2
  <2>3. ASSUME NEW i \in 1..m PROVE seen[i] \in {longer[k] : k \in DOMAIN longer}
    <3>1. i \in 1..(m + (e - s)) /\ longer[i] = seen[i]
      BY <1>1, <1>2, <1>5
    <3> QED
      BY <2>1, <3>1
  <2>4. ASSUME NEW i \in (s + 1)..e PROVE list[i] \in {longer[k] : k \in DOMAIN longer}
    <3>1. /\ i - s \in 1..(e - s) /\ s + (i - s) = i
          /\ m + (i - s) \in 1..(m + (e - s)) /\ ~(m + (i - s) <= m) /\ (m + (i - s)) - m = i - s
      BY <1>1, <1>2
    <3>2. longer[m + (i - s)] = list[i]
      BY <1>4, <1>5, <3>1
    <3> QED
      BY <2>1, <3>1, <3>2
  <2> QED
    BY <2>1, <2>2, <2>3, <2>4 DEF RowsSeen
<1> QED
  BY <1>4, <1>5, <1>6 DEF Rows, s, e, m, rows, longer

-----------------------------------------------------------------------------
(***************************************************************************)
(* The client                                                              *)
(***************************************************************************)
LEMMA FewerAreFewer ==
    ASSUME NEW S \in SUBSET Jobs, NEW T \in SUBSET S
    PROVE  IsFiniteSet(S) /\ IsFiniteSet(T) /\ Cardinality(T) <= Cardinality(S)
           /\ Cardinality(T) \in Nat /\ Cardinality(S) \in Nat
<1>1. IsFiniteSet(S)
  BY ListingAssumption, FS_Subset
<1>2. IsFiniteSet(T) /\ Cardinality(T) <= Cardinality(S)
  BY <1>1, FS_Subset
<1> QED
  BY <1>1, <1>2, FS_CardinalityType

LEMMA BeforeFacts ==
    ASSUME TypeInv
    PROVE  /\ \A b : Before(b) \subseteq Jobs /\ Missed(b) \subseteq Jobs
           /\ \A a, b \in Nat : a <= b => Missed(a) \subseteq Missed(b)
           /\ Missed(0) = {}
<1>1. list \in Seq(Jobs) /\ DOMAIN list = 1..Len(list) /\ Len(list) \in Nat
  BY LenProperties DEF TypeInv
<1>2. \A b : Before(b) \subseteq Jobs
  BY <1>1 DEF Before
<1>3. \A a, b \in Nat : a <= b => Before(a) \subseteq Before(b)
  BY <1>1 DEF Before
<1>4. Before(0) = {}
  BY <1>1 DEF Before
<1> QED
  BY <1>2, <1>3, <1>4 DEF Missed

(* A page that starts where what was shown ends, and before which little    *)
(* was missed                                                               *)
LEMMA ShowInv ==
    ASSUME ListInv, NEW n \in Nat \ {0}, NEW c \in 1..TotalPages(n), Show(c, n),
           first' \in Nat \ {0},
           changes = 0 =>
              LET from == Start(first', n)
              IN  /\ from + Len(seen) = Start(c, n)
                  /\ seen = SubSeq(list, from + 1, from + Len(seen)),
           first' = 1 => Cardinality(Missed(Start(c, n))) <= rollbacks
    PROVE  ListInv'
<1> DEFINE s == Start(c, n)
           e == End(c, n)
           T == TotalPages(n)
           l == Len(list)
<1>0. (first' - 1) * n \in Nat
  <2>1. \A a \in Nat \ {0}, b \in Nat : (a - 1) * b \in Nat
    OBVIOUS
  <2> QED
    BY <2>1
<1>1. /\ TypeInv /\ QuietListed
      /\ list \in Seq(Jobs) /\ seen \in Seq(Jobs) /\ Len(seen) \in Nat /\ l \in Nat
  BY LenProperties DEF ListInv, TypeInv
<1>2. /\ T \in Nat \ {0} /\ c \in Nat \ {0}
      /\ s \in Nat /\ e \in Nat /\ s <= e /\ e <= l
      /\ c < T => e = s + n
      /\ c = T => e = l
  BY <1>1, PageBounds
<1>3. /\ seen' = seen \o Rows(c, n)
      /\ perPage' = n
      /\ UNCHANGED <<list, unsent, quiet, rollbacks, changes>>
      /\ IF c < T THEN walk' = "walking" /\ page' = c + 1 ELSE walk' = "done" /\ page' = c
  BY DEF Show, HasNext, storeVars, watchVars
<1>4. /\ seen' \in Seq(Jobs)
      /\ Len(seen') = Len(seen) + (e - s)
      /\ RowsSeen' = RowsSeen \cup {list[i] : i \in (s + 1)..e}
  <2>1. /\ seen' \in Seq(Jobs)
        /\ Len(seen') = Len(seen) + (e - s)
        /\ {seen'[i] : i \in DOMAIN seen'} = RowsSeen \cup {list[i] : i \in (s + 1)..e}
    BY <1>1, <1>3, ShownRows
  <2> QED
    BY <2>1 DEF RowsSeen
<1>5. c < T \/ c = T
  BY <1>2
<1>6. TypeInv'
  BY <1>1, <1>2, <1>3, <1>4, SMTT(30) DEF TypeInv
<1>7. QuietListed'
  BY <1>1, <1>3 DEF QuietListed, Listed
<1>8. Started'
  BY <1>3 DEF Started
<1>9. InStep'
  <2> DEFINE from == Start(first', n)
  <2> SUFFICES ASSUME changes = 0
               PROVE  /\ from + Len(seen') <= l
                      /\ seen' = SubSeq(list, from + 1, from + Len(seen'))
                      /\ walk' = "walking" => page' <= T /\ from + Len(seen') = (page' - 1) * n
                      /\ walk' = "done" => from + Len(seen') = l
    BY <1>3 DEF InStep, Boundary, Start, TotalPages
  <2>1. from \in Nat /\ from + Len(seen) = s
    <3>1. from \in Nat
      BY <1>0 DEF Start
    <3> QED
      BY <3>1
  <2> HIDE DEF s, e, l, T
  <2>2. from + Len(seen') = e /\ from <= s
    <3> HIDE DEF from
    <3> QED
      BY <1>1, <1>2, <1>4, <2>1
  <2>3. seen' = SubSeq(list, from + 1, e)
    <3>1. seen = SubSeq(list, from + 1, s)
      BY <2>1
    <3>2. seen' = SubSeq(list, from + 1, s) \o SubSeq(list, s + 1, e)
      BY <1>3, <3>1 DEF Rows, s, e
    <3> HIDE DEF from
    <3>3. from + 1 \in 1..(l + 1) /\ s \in ((from + 1) - 1)..l /\ e \in s..l
      BY <1>1, <1>2, <2>1, <2>2
    <3>4. SubSeq(list, from + 1, s) \o SubSeq(list, s + 1, e) = SubSeq(list, from + 1, e)
      BY <1>1, <3>3, ConcatAdjacentSubSeq DEF l
    <3> QED
      BY <3>2, <3>4
  <2>4. CASE c < T
    <3>1. (page' - 1) * n = e
      <4>1. page' - 1 = c
        BY <1>2, <1>3, <2>4
      <4>2. c * n = (c - 1) * n + n
        BY <1>2
      <4> QED
        BY <1>2, <2>4, <4>1, <4>2 DEF s, Start
    <3>2. page' <= T /\ walk' = "walking"
      BY <1>2, <1>3, <2>4
    <3> QED
      BY <1>2, <2>2, <2>3, <3>1, <3>2
  <2>5. CASE c = T
    <3>1. walk' = "done" /\ e = l
      BY <1>2, <1>3, <2>5
    <3> QED
      BY <1>2, <2>2, <2>3, <3>1
  <2> QED
    BY <1>5, <2>4, <2>5
<1>10. FewMissed'
  <2> SUFFICES ASSUME first' = 1
               PROVE  /\ walk' = "walking" => Cardinality(Missed(Boundary)') <= rollbacks
                      /\ walk' = "done" => Cardinality((quiet \ RowsSeen)') <= rollbacks
    BY <1>3 DEF FewMissed
  <2> HIDE DEF s, e, T, l
  <2>1. Cardinality(Missed(s)) <= rollbacks /\ rollbacks \in Nat /\ Missed(s) \subseteq Jobs
    BY <1>1, BeforeFacts DEF TypeInv, s
  <2>2. \A x \in Before(e) : x \notin Before(s) => x \in {list[i] : i \in (s + 1)..e}
    <3> SUFFICES ASSUME NEW i \in DOMAIN list, i <= e, list[i] \notin Before(s)
                 PROVE  i \in (s + 1)..e
      BY DEF Before
    <3>1. i \in Nat /\ ~(i <= s)
      BY <1>1, LenProperties DEF Before
    <3> QED
      BY <1>2, <3>1
  <2>3. Before(e) \cap (quiet \ RowsSeen') \subseteq Missed(s)
    BY <1>4, <2>2 DEF Missed
  <2>4. CASE c < T
    <3>1. walk' = "walking" /\ page' = c + 1
      BY <1>3, <2>4 DEF T
    <3>2. Boundary' = e
      <4>1. c * n = (c - 1) * n + n /\ (c + 1) - 1 = c
        BY <1>2
      <4> QED
        BY <1>2, <1>3, <2>4, <3>1, <4>1 DEF Boundary, s, Start
    <3>3. Missed(Boundary)' = Before(e) \cap (quiet \ RowsSeen')
      BY <1>3, <3>2 DEF Missed, Before
    <3>4. Cardinality(Missed(Boundary)') <= Cardinality(Missed(s))
          /\ Cardinality(Missed(Boundary)') \in Nat /\ Cardinality(Missed(s)) \in Nat
      BY <2>1, <2>3, <3>3, FewerAreFewer
    <3> QED
      BY <2>1, <3>1, <3>4
  <2>5. CASE c = T
    <3>1. walk' = "done" /\ e = l
      BY <1>2, <1>3, <2>5 DEF T
    <3>2. quiet \subseteq Before(e)
      <4>1. Listed \subseteq Before(e)
        BY <1>1, <3>1, LenProperties DEF Listed, Before, l
      <4> QED
        BY <1>1, <4>1 DEF QuietListed
    <3>3. (quiet \ RowsSeen)' \subseteq Missed(s)
      BY <1>3, <2>3, <3>2
    <3>4. Cardinality((quiet \ RowsSeen)') <= Cardinality(Missed(s))
          /\ Cardinality((quiet \ RowsSeen)') \in Nat /\ Cardinality(Missed(s)) \in Nat
      <4> DEFINE left == (quiet \ RowsSeen)'
      <4> HIDE DEF left
      <4>1. left \in SUBSET Missed(s)
        BY <3>3 DEF left
      <4>2. Cardinality(left) <= Cardinality(Missed(s))
            /\ Cardinality(left) \in Nat /\ Cardinality(Missed(s)) \in Nat
        BY <2>1, <4>1, FewerAreFewer
      <4> QED
        BY <4>2 DEF left
    <3> QED
      BY <2>1, <3>1, <3>4
  <2> QED
    BY <1>5, <2>4, <2>5 DEF T
<1> QED
  BY <1>6, <1>7, <1>8, <1>9, <1>10 DEF ListInv

LEMMA OpenListInv == ListInv /\ OpenList => ListInv'
<1> SUFFICES ASSUME ListInv, OpenList PROVE ListInv'
  OBVIOUS
<1>1. PICK p \in PageQueries, q \in PerPageQueries :
        /\ walk = "start"
        /\ first' = ClampPage(p, ClampPerPage(q))
        /\ Show(first', ClampPerPage(q))
  BY DEF OpenList
<1> DEFINE n == ClampPerPage(q)
<1>2. TypeInv /\ first = 0 /\ seen = <<>> /\ list \in Seq(Jobs) /\ rollbacks \in Nat
  BY <1>1 DEF ListInv, Started, TypeInv
<1>3. n \in Nat \ {0} /\ p \in Nat
  BY ClampedPerPage, ListingAssumption
<1> HIDE DEF n
<1>4. first' \in 1..TotalPages(n) /\ TotalPages(n) \in Nat
  BY <1>1, <1>2, <1>3, ClampedPage, PageBounds DEF n
<1>5. Start(first', n) \in Nat
  BY <1>2, <1>3, <1>4, PageBounds
<1>6. /\ Start(first', n) + Len(seen) = Start(first', n)
      /\ seen = SubSeq(list, Start(first', n) + 1, Start(first', n) + Len(seen))
  <2>1. Len(seen) = 0
    BY <1>2
  <2> DEFINE from == Start(first', n)
  <2> HIDE DEF from
  <2>2. from \in Nat
    BY <1>5 DEF from
  <2>3. from + 0 = from /\ from < from + 1 /\ from \in Int /\ from + 1 \in Int
    BY <2>2
  <2>4. SubSeq(list, from + 1, from) = <<>>
    BY <2>3, SubSeqEmpty
  <2> QED
    BY <1>2, <2>1, <2>3, <2>4 DEF from
<1>7. first' = 1 => Cardinality(Missed(Start(first', n))) <= rollbacks
  <2> SUFFICES ASSUME first' = 1 PROVE Cardinality(Missed(Start(first', n))) <= rollbacks
    OBVIOUS
  <2>1. Start(first', n) = 0
    BY <1>3 DEF Start
  <2>2. Missed(Start(first', n)) = {}
    BY <1>2, <2>1, BeforeFacts
  <2>3. Cardinality(Missed(Start(first', n))) = 0
    BY <2>2, FS_EmptySet, Zenon
  <2> QED
    BY <1>2, <2>3
<1>8. first' \in Nat \ {0}
  BY <1>4
<1> QED
  BY <1>1, <1>3, <1>4, <1>6, <1>7, <1>8, ShowInv DEF n

LEMMA FollowNextInv == ListInv /\ FollowNext => ListInv'
<1> SUFFICES ASSUME ListInv, FollowNext PROVE ListInv'
  OBVIOUS
<1> DEFINE n == perPage
           c == ClampPage(page, n)
<1>1. walk = "walking" /\ Show(c, n) /\ first' = first
  BY DEF FollowNext
<1>2. /\ TypeInv /\ list \in Seq(Jobs) /\ rollbacks \in Nat
      /\ n \in Nat \ {0} /\ page \in Nat \ {0} /\ first \in Nat \ {0}
  BY <1>1 DEF ListInv, Started, TypeInv
<1>3. /\ c \in 1..TotalPages(n) /\ c <= page
      /\ page \in 1..TotalPages(n) => c = page
      /\ TotalPages(n) \in Nat
  BY <1>2, ClampedPage, PageBounds
<1> HIDE DEF c
<1>4. changes = 0 => LET from == Start(first', n)
                     IN  /\ from + Len(seen) = Start(c, n)
                         /\ seen = SubSeq(list, from + 1, from + Len(seen))
  <2> SUFFICES ASSUME changes = 0
               PROVE  /\ Start(first, n) + Len(seen) = Start(c, n)
                      /\ seen = SubSeq(list, Start(first, n) + 1, Start(first, n) + Len(seen))
    BY <1>1
  <2>1. /\ page <= TotalPages(n) /\ Start(first, n) + Len(seen) = Boundary
        /\ seen = SubSeq(list, Start(first, n) + 1, Start(first, n) + Len(seen))
    BY <1>1, <1>2 DEF ListInv, InStep
  <2>2. c = page
    BY <1>2, <1>3, <2>1
  <2> QED
    BY <2>1, <2>2 DEF Boundary, Start
<1>5. first' = 1 => Cardinality(Missed(Start(c, n))) <= rollbacks
  <2> SUFFICES ASSUME first = 1 PROVE Cardinality(Missed(Start(c, n))) <= rollbacks
    BY <1>1
  <2>1. Cardinality(Missed(Boundary)) <= rollbacks
    BY <1>1 DEF ListInv, FewMissed
  <2>2. Start(c, n) \in Nat /\ Boundary \in Nat /\ Start(c, n) <= Boundary
    <3>1. c \in Nat \ {0}
      BY <1>3
    <3> QED
      BY <1>2, <1>3, <3>1 DEF Start, Boundary
  <2>3. Missed(Start(c, n)) \subseteq Missed(Boundary) /\ Missed(Boundary) \subseteq Jobs
    BY <1>2, <2>2, BeforeFacts
  <2>4. /\ Cardinality(Missed(Start(c, n))) <= Cardinality(Missed(Boundary))
        /\ Cardinality(Missed(Start(c, n))) \in Nat /\ Cardinality(Missed(Boundary)) \in Nat
    BY <2>3, FewerAreFewer
  <2> QED
    BY <1>2, <2>1, <2>4
<1>6. first' \in Nat \ {0}
  BY <1>1, <1>2
<1> QED
  BY <1>1, <1>2, <1>3, <1>4, <1>5, <1>6, ShowInv

-----------------------------------------------------------------------------
(***************************************************************************)
(* The others                                                              *)
(***************************************************************************)

(* A change that moves no record that stays as it was to an earlier place   *)
(* makes the client miss none.                                              *)
LEMMA NoneMissed ==
    ASSUME ListInv, walk = "walking", Change, rollbacks' = rollbacks,
           list' \in Seq(Jobs), quiet' \subseteq quiet,
           \A i \in DOMAIN list' : list'[i] \in quiet' =>
              \E k \in DOMAIN list : k <= i /\ list[k] = list'[i]
    PROVE  first = 1 => Cardinality(Missed(Boundary)') <= rollbacks'
<1> SUFFICES ASSUME first = 1 PROVE Cardinality(Missed(Boundary)') <= rollbacks'
  OBVIOUS
<1>1. UNCHANGED <<page, perPage, seen>>
  BY DEF Change, clientVars
<1>2. Cardinality(Missed(Boundary)) <= rollbacks /\ TypeInv /\ rollbacks \in Nat
  BY DEF ListInv, FewMissed, TypeInv
<1>3. Boundary \in Nat /\ DOMAIN list' \subseteq Nat /\ DOMAIN list \subseteq Nat
  <2>1. page \in Nat \ {0} /\ perPage \in Nat /\ list \in Seq(Jobs)
    BY <1>2 DEF TypeInv
  <2> QED
    BY <2>1, LenProperties DEF Boundary
<1>4. Missed(Boundary)' \subseteq Missed(Boundary)
  <2> SUFFICES ASSUME NEW i \in DOMAIN list', i <= Boundary, list'[i] \in quiet', list'[i] \notin RowsSeen
               PROVE  list'[i] \in Missed(Boundary)
    BY <1>1 DEF Missed, Before, Boundary, RowsSeen
  <2>1. PICK k \in DOMAIN list : k <= i /\ list[k] = list'[i]
    OBVIOUS
  <2>2. k <= Boundary
    BY <1>3, <2>1
  <2> QED
    BY <2>1, <2>2 DEF Missed, Before
<1>5. Missed(Boundary) \subseteq Jobs
  BY <1>2, BeforeFacts
<1> DEFINE now == Missed(Boundary)'
<1> HIDE DEF now
<1>6. now \in SUBSET Missed(Boundary)
  BY <1>4 DEF now
<1>7. /\ Cardinality(now) <= Cardinality(Missed(Boundary))
      /\ Cardinality(now) \in Nat /\ Cardinality(Missed(Boundary)) \in Nat
  BY <1>5, <1>6, FewerAreFewer
<1>8. Cardinality(now) <= rollbacks
  BY <1>2, <1>7
<1> QED
  BY <1>8 DEF now

(* What a change has to show for the invariant *)
LEMMA ChangeInv ==
    ASSUME ListInv, Change,
           list' \in Seq(Jobs), unsent' \subseteq Jobs, quiet' \subseteq quiet, rollbacks' \in Nat,
           quiet' \subseteq Listed', quiet' \cap unsent' = {},
           first = 1 => Cardinality(Missed(Boundary)') <= rollbacks'
    PROVE  ListInv'
<1>1. /\ walk = "walking" /\ changes' = changes + 1
      /\ UNCHANGED <<walk, page, perPage, first, seen>>
  BY DEF Change, clientVars
<1>2. changes' # 0
  BY <1>1 DEF ListInv, TypeInv
<1>3. TypeInv'
  BY <1>1 DEF ListInv, TypeInv
<1>4. QuietListed'
  BY DEF QuietListed
<1>5. Started'
  BY <1>1 DEF ListInv, Started
<1>6. InStep'
  BY <1>2 DEF InStep
<1>7. FewMissed'
  BY <1>1 DEF FewMissed
<1> QED
  BY <1>3, <1>4, <1>5, <1>6, <1>7 DEF ListInv

(* A list without one of its records *)
LEMMA WithoutFacts ==
    ASSUME list \in Seq(Jobs), NEW j \in Listed
    PROVE  \E at \in DOMAIN list :
              /\ list[at] = j
              /\ Without(j) \in Seq(Jobs)
              /\ Len(Without(j)) = Len(list) - 1
              /\ Len(list) - 1 \in Nat
              /\ \A i \in 1..(Len(list) - 1) :
                    Without(j)[i] = IF i < at THEN list[i] ELSE list[i + 1]
<1> DEFINE l == Len(list)
           at == CHOOSE i \in DOMAIN list : list[i] = j
<1>1. DOMAIN list = 1..l /\ l \in Nat /\ \A i \in 1..l : list[i] \in Jobs
  BY LenProperties
<1>2. at \in DOMAIN list /\ list[at] = j
  BY DEF Listed
<1>3. Without(j) = [i \in 1..(l - 1) |-> list[IF i < at THEN i ELSE i + 1]]
  BY DEF Without
<1> HIDE DEF at, l
<1>4. l - 1 \in Nat
  BY <1>1, <1>2
<1>5. \A i \in 1..(l - 1) : i \in 1..l /\ i + 1 \in 1..l
  BY <1>1, <1>4
<1>6. Without(j) \in [1..(l - 1) -> Jobs]
  BY <1>1, <1>3, <1>5
<1>7. Without(j) \in Seq(Jobs)
  BY <1>4, <1>6, SeqDef
<1>8. Len(Without(j)) = l - 1
  BY <1>4, <1>6, <1>7, LenProperties
<1>9. \A i \in 1..(l - 1) : Without(j)[i] = IF i < at THEN list[i] ELSE list[i + 1]
  BY <1>3
<1> QED
  BY <1>2, <1>4, <1>7, <1>8, <1>9 DEF l

LEMMA InsertRecordInv == \A j \in Jobs : ListInv /\ InsertRecord(j) => ListInv'
<1> SUFFICES ASSUME ListInv, NEW j \in Jobs, InsertRecord(j) PROVE ListInv'
  OBVIOUS
<1> DEFINE l == Len(list)
<1>1. PICK k \in 0..l : list' = SubSeq(list, 1, k) \o <<j>> \o SubSeq(list, k + 1, l)
  BY DEF InsertRecord
<1>2. /\ Change /\ walk = "walking"
      /\ j \notin Listed /\ j \notin quiet
      /\ unsent' = unsent \cup {j}
      /\ UNCHANGED <<quiet, rollbacks>>
  BY DEF InsertRecord, Change
<1>3. /\ TypeInv /\ QuietListed
      /\ list \in Seq(Jobs) /\ l \in Nat /\ DOMAIN list = 1..l
      /\ \A i \in 1..l : list[i] \in Jobs
      /\ unsent \subseteq Jobs /\ rollbacks \in Nat
  BY LenProperties DEF ListInv, TypeInv
<1> HIDE DEF l
<1> DEFINE p == SubSeq(list, 1, k)
           r == SubSeq(list, k + 1, l)
           head == p \o <<j>>
<1>4. p \in Seq(Jobs) /\ Len(p) = k /\ \A i \in 1..k : p[i] = list[i]
  <2>1. \A i \in 1..k : list[i] \in Jobs
    BY <1>3
  <2>2. /\ p \in Seq(Jobs) /\ Len(p) = IF 1 <= k THEN k - 1 + 1 ELSE 0
        /\ \A i \in 1..(k - 1 + 1) : p[i] = list[1 + i - 1]
    BY <2>1, SubSeqProperties
  <2> HIDE DEF p
  <2>3. k - 1 + 1 = k /\ \A i \in 1..k : 1 + i - 1 = i
    OBVIOUS
  <2> QED
    BY <2>2, <2>3
<1>5. r \in Seq(Jobs) /\ Len(r) = l - k /\ \A i \in 1..(l - k) : r[i] = list[k + i]
  <2>1. \A i \in (k + 1)..l : list[i] \in Jobs
    BY <1>3
  <2>2. /\ r \in Seq(Jobs) /\ Len(r) = IF k + 1 <= l THEN l - (k + 1) + 1 ELSE 0
        /\ \A i \in 1..(l - (k + 1) + 1) : r[i] = list[(k + 1) + i - 1]
    BY <1>3, <2>1, SubSeqProperties
  <2> HIDE DEF r
  <2>3. l - (k + 1) + 1 = l - k /\ (~(k + 1 <= l) => l - k = 0)
    BY <1>3
  <2>4. ASSUME NEW i \in 1..(l - k) PROVE r[i] = list[k + i]
    <3>1. (k + 1) + i - 1 = k + i
      BY <1>3
    <3> QED
      BY <2>2, <2>3, <3>1
  <2>5. Len(r) = l - k
    BY <2>2, <2>3
  <2> QED
    BY <2>2, <2>4, <2>5
<1> HIDE DEF p, r
<1>6. /\ head \in Seq(Jobs) /\ Len(head) = k + 1
      /\ \A i \in 1..(k + 1) : head[i] = IF i <= k THEN list[i] ELSE j
  <2>1. <<j>> \in Seq(Jobs) /\ Len(<<j>>) = 1 /\ <<j>>[1] = j
    OBVIOUS
  <2>2. /\ head \in Seq(Jobs) /\ Len(head) = Len(p) + Len(<<j>>)
        /\ \A i \in 1..(Len(p) + Len(<<j>>)) : head[i] = IF i <= Len(p) THEN p[i] ELSE <<j>>[i - Len(p)]
    BY <1>4, <2>1, ConcatProperties
  <2> HIDE DEF head
  <2>3. \A i \in 1..(k + 1) : head[i] = IF i <= k THEN p[i] ELSE <<j>>[i - k]
    BY <1>4, <2>1, <2>2
  <2>4. \A i \in 1..(k + 1) : ~(i <= k) => i - k = 1
    OBVIOUS
  <2> QED
    BY <1>4, <2>1, <2>2, <2>3, <2>4
<1>7. list' = head \o r
  BY <1>1 DEF p, r
<1> HIDE DEF head
<1>8. /\ list' \in Seq(Jobs) /\ Len(list') = l + 1
      /\ \A i \in 1..(l + 1) : list'[i] = IF i <= k THEN list[i] ELSE IF i = k + 1 THEN j ELSE list[i - 1]
  <2>1. /\ list' \in Seq(Jobs) /\ Len(list') = Len(head) + Len(r)
        /\ \A i \in 1..(Len(head) + Len(r)) : list'[i] = IF i <= Len(head) THEN head[i] ELSE r[i - Len(head)]
    BY <1>5, <1>6, <1>7, ConcatProperties
  <2>2. Len(head) + Len(r) = l + 1
    BY <1>3, <1>5, <1>6
  <2>3. ASSUME NEW i \in 1..(l + 1)
        PROVE  list'[i] = IF i <= k THEN list[i] ELSE IF i = k + 1 THEN j ELSE list[i - 1]
    <3>1. list'[i] = IF i <= k + 1 THEN head[i] ELSE r[i - (k + 1)]
      BY <1>6, <2>1, <2>2
    <3>2. CASE i <= k + 1
      BY <1>3, <1>6, <3>1, <3>2
    <3>3. CASE ~(i <= k + 1)
      <4>1. i - (k + 1) \in 1..(l - k) /\ k + (i - (k + 1)) = i - 1 /\ ~(i <= k) /\ i # k + 1
        BY <1>3, <3>3
      <4> QED
        BY <1>5, <3>1, <3>3, <4>1
    <3> QED
      BY <3>2, <3>3
  <2> QED
    BY <2>1, <2>2, <2>3
<1>9. DOMAIN list' = 1..(l + 1)
  BY <1>8, LenProperties
<1>10. \A i \in 1..l : \E m \in 1..(l + 1) : list'[m] = list[i]
  <2> SUFFICES ASSUME NEW i \in 1..l PROVE \E m \in 1..(l + 1) : list'[m] = list[i]
    OBVIOUS
  <2>1. CASE i <= k
    BY <1>3, <1>8, <2>1
  <2>2. CASE ~(i <= k)
    <3>1. i + 1 \in 1..(l + 1) /\ ~(i + 1 <= k) /\ i + 1 # k + 1 /\ (i + 1) - 1 = i
      BY <1>3, <2>2
    <3> QED
      BY <1>8, <3>1
  <2> QED
    BY <2>1, <2>2
<1>11. Listed \subseteq Listed'
  BY <1>3, <1>9, <1>10 DEF Listed
<1>12. quiet' \subseteq Listed' /\ quiet' \cap unsent' = {}
  BY <1>2, <1>3, <1>11 DEF QuietListed
<1>13. \A i \in DOMAIN list' : list'[i] \in quiet' =>
          \E m \in DOMAIN list : m <= i /\ list[m] = list'[i]
  <2> SUFFICES ASSUME NEW i \in 1..(l + 1), list'[i] \in quiet
               PROVE  \E m \in 1..l : m <= i /\ list[m] = list'[i]
    BY <1>2, <1>3, <1>9
  <2>1. CASE i <= k
    BY <1>3, <1>8, <2>1
  <2>2. CASE i = k + 1
    BY <1>2, <1>8, <2>2
  <2>3. CASE i > k + 1
    <3>1. i - 1 \in 1..l /\ i - 1 <= i /\ ~(i <= k) /\ i # k + 1
      BY <1>3, <2>3
    <3> QED
      BY <1>8, <3>1
  <2> QED
    BY <2>1, <2>2, <2>3
<1>14. first = 1 => Cardinality(Missed(Boundary)') <= rollbacks'
  BY <1>2, <1>8, <1>13, NoneMissed
<1> QED
  BY <1>2, <1>3, <1>8, <1>12, <1>14, ChangeInv

LEMMA QueueRecordInv == \A j \in Jobs : ListInv /\ QueueRecord(j) => ListInv'
<1> SUFFICES ASSUME ListInv, NEW j \in Jobs, QueueRecord(j) PROVE ListInv'
  OBVIOUS
<1>1. /\ Change /\ walk = "walking"
      /\ unsent' = unsent \ {j}
      /\ UNCHANGED <<list, quiet, rollbacks>>
  BY DEF QueueRecord, Change
<1>2. TypeInv /\ QuietListed /\ DOMAIN list \subseteq Nat
  BY LenProperties DEF ListInv, TypeInv
<1>3. \A i \in DOMAIN list' : list'[i] \in quiet' => \E k \in DOMAIN list : k <= i /\ list[k] = list'[i]
  BY <1>1, <1>2
<1>4. first = 1 => Cardinality(Missed(Boundary)') <= rollbacks'
  BY <1>1, <1>2, <1>3, NoneMissed DEF TypeInv
<1>5. quiet' \subseteq Listed' /\ quiet' \cap unsent' = {}
  BY <1>1, <1>2 DEF QuietListed, Listed
<1> QED
  BY <1>1, <1>2, <1>4, <1>5, ChangeInv DEF TypeInv

LEMMA UpdateRecordInv == \A j \in Jobs : ListInv /\ UpdateRecord(j) => ListInv'
<1> SUFFICES ASSUME ListInv, NEW j \in Jobs, UpdateRecord(j) PROVE ListInv'
  OBVIOUS
<1> DEFINE l == Len(list)
<1>1. /\ Change /\ walk = "walking" /\ j \in Listed
      /\ list' = <<j>> \o Without(j)
      /\ quiet' = quiet \ {j}
      /\ UNCHANGED <<unsent, rollbacks>>
  BY DEF UpdateRecord, Change
<1>2. /\ TypeInv /\ QuietListed
      /\ list \in Seq(Jobs) /\ l \in Nat /\ DOMAIN list = 1..l
  BY LenProperties DEF ListInv, TypeInv
<1>3. PICK at \in DOMAIN list :
        /\ list[at] = j
        /\ Without(j) \in Seq(Jobs)
        /\ Len(Without(j)) = l - 1
        /\ \A i \in 1..(l - 1) : Without(j)[i] = IF i < at THEN list[i] ELSE list[i + 1]
  BY <1>1, <1>2, WithoutFacts
<1> HIDE DEF l
<1>4. /\ list' \in Seq(Jobs) /\ Len(list') = l
      /\ \A i \in 1..l : list'[i] = IF i = 1 THEN j ELSE Without(j)[i - 1]
  <2>1. <<j>> \in Seq(Jobs) /\ Len(<<j>>) = 1 /\ <<j>>[1] = j
    OBVIOUS
  <2>2. /\ list' \in Seq(Jobs) /\ Len(list') = 1 + (l - 1)
        /\ \A i \in 1..(1 + (l - 1)) : list'[i] = IF i <= 1 THEN <<j>>[i] ELSE Without(j)[i - 1]
    BY <1>1, <1>3, <2>1, ConcatProperties
  <2>3. 1 + (l - 1) = l /\ \A i \in 1..l : i <= 1 <=> i = 1
    BY <1>2
  <2> QED
    BY <2>1, <2>2, <2>3
<1>5. DOMAIN list' = 1..l
  BY <1>4, LenProperties
<1>6. \A i \in DOMAIN list' : list'[i] \in quiet' => \E k \in DOMAIN list : k <= i /\ list[k] = list'[i]
  <2> SUFFICES ASSUME NEW i \in 1..l, i # 1
               PROVE  \E k \in 1..l : k <= i /\ list[k] = list'[i]
    BY <1>1, <1>2, <1>4, <1>5
  <2>1. i - 1 \in 1..(l - 1) /\ i - 1 \in 1..l /\ (i - 1) + 1 = i /\ i - 1 <= i
    BY <1>2
  <2>2. list'[i] = IF i - 1 < at THEN list[i - 1] ELSE list[i]
    BY <1>3, <1>4, <2>1
  <2> QED
    BY <1>2, <2>1, <2>2
<1>7. quiet' \subseteq Listed'
  <2>1. ASSUME NEW i \in 1..l, list[i] # j PROVE list[i] \in {list'[k] : k \in 1..l}
    <3>1. i # at /\ at \in 1..l
      BY <1>2, <1>3, <2>1
    <3>2. CASE i < at
      <4>1. i \in 1..(l - 1) /\ i + 1 \in 1..l /\ i + 1 # 1 /\ (i + 1) - 1 = i
        BY <1>2, <3>1, <3>2
      <4>2. list'[i + 1] = list[i]
        BY <1>3, <1>4, <3>2, <4>1
      <4> QED
        BY <4>1, <4>2
    <3>3. CASE i > at
      <4>1. i - 1 \in 1..(l - 1) /\ i # 1 /\ (i - 1) + 1 = i /\ ~(i - 1 < at)
        BY <1>2, <3>1, <3>3
      <4>2. list'[i] = list[i]
        BY <1>3, <1>4, <4>1
      <4> QED
        BY <4>2
    <3> QED
      BY <1>2, <3>1, <3>2, <3>3
  <2>2. Listed' = {list'[k] : k \in 1..l}
    BY <1>5 DEF Listed
  <2>3. \A x \in quiet' : \E i \in 1..l : x = list[i] /\ list[i] # j
    BY <1>1, <1>2 DEF QuietListed, Listed
  <2> QED
    BY <2>1, <2>2, <2>3
<1>8. quiet' \cap unsent' = {} /\ quiet' \subseteq quiet /\ unsent' \subseteq Jobs /\ rollbacks' \in Nat
  BY <1>1, <1>2 DEF QuietListed, TypeInv
<1>9. first = 1 => Cardinality(Missed(Boundary)') <= rollbacks'
  BY <1>1, <1>4, <1>6, <1>8, NoneMissed
<1> QED
  BY <1>1, <1>4, <1>7, <1>8, <1>9, ChangeInv

LEMMA RetainRecentJobsInv == ListInv /\ RetainRecentJobs => ListInv'
<1> SUFFICES ASSUME ListInv, RetainRecentJobs PROVE ListInv'
  OBVIOUS
<1> DEFINE n == JobRetentionLimit
<1>1. /\ Change /\ walk = "walking" /\ Len(list) > n
      /\ list' = SubSeq(list, 1, n)
      /\ quiet' = quiet \cap {list[i] : i \in 1..n}
      /\ UNCHANGED <<unsent, rollbacks>>
  BY DEF RetainRecentJobs, Change
<1>2. /\ TypeInv /\ QuietListed /\ n \in Nat
      /\ list \in Seq(Jobs) /\ Len(list) \in Nat /\ DOMAIN list = 1..Len(list)
  BY ListingAssumption, LenProperties DEF ListInv, TypeInv
<1> HIDE DEF n
<1>3. list' \in Seq(Jobs) /\ DOMAIN list' = 1..n /\ \A i \in 1..n : list'[i] = list[i]
  <2>1. \A i \in 1..n : list[i] \in Jobs
    BY <1>1, <1>2
  <2>2. /\ list' \in Seq(Jobs) /\ Len(list') = IF 1 <= n THEN n - 1 + 1 ELSE 0
        /\ \A i \in 1..(n - 1 + 1) : list'[i] = list[1 + i - 1]
    BY <1>1, <1>2, <2>1, SubSeqProperties
  <2>3. n - 1 + 1 = n /\ (~(1 <= n) => n = 0) /\ \A i \in 1..n : 1 + i - 1 = i
    BY <1>2
  <2>4. Len(list') = n
    BY <2>2, <2>3
  <2> QED
    BY <2>2, <2>3, <2>4, LenProperties
<1>4. \A i \in DOMAIN list' : list'[i] \in quiet' => \E k \in DOMAIN list : k <= i /\ list[k] = list'[i]
  <2> SUFFICES ASSUME NEW i \in 1..n PROVE i \in 1..Len(list) /\ i <= i
    BY <1>2, <1>3
  <2> QED
    BY <1>1, <1>2
<1>5. quiet' \subseteq Listed' /\ quiet' \subseteq quiet
  BY <1>1, <1>3 DEF Listed
<1>6. quiet' \cap unsent' = {} /\ unsent' \subseteq Jobs /\ rollbacks' \in Nat
  BY <1>1, <1>2 DEF QuietListed, TypeInv
<1>7. first = 1 => Cardinality(Missed(Boundary)') <= rollbacks'
  BY <1>1, <1>3, <1>4, <1>5, NoneMissed
<1> QED
  BY <1>1, <1>3, <1>5, <1>6, <1>7, ChangeInv

(* Each record rolled back may bring one other forward past the boundary.   *)
LEMMA RollbackRecordInv == \A j \in Jobs : ListInv /\ RollbackRecord(j) => ListInv'
<1> SUFFICES ASSUME ListInv, NEW j \in Jobs, RollbackRecord(j) PROVE ListInv'
  OBVIOUS
<1> DEFINE l == Len(list)
           b == Boundary
<1>1. /\ Change /\ walk = "walking" /\ j \in Listed /\ j \in unsent
      /\ list' = Without(j)
      /\ unsent' = unsent \ {j}
      /\ rollbacks' = rollbacks + 1
      /\ quiet' = quiet
  BY DEF RollbackRecord, Change
<1>2. /\ TypeInv /\ QuietListed /\ j \notin quiet
      /\ list \in Seq(Jobs) /\ l \in Nat /\ DOMAIN list = 1..l
      /\ rollbacks \in Nat /\ page \in Nat \ {0} /\ perPage \in Nat
  BY <1>1, LenProperties DEF ListInv, TypeInv, QuietListed
<1>3. PICK at \in DOMAIN list :
        /\ list[at] = j
        /\ Without(j) \in Seq(Jobs)
        /\ Len(Without(j)) = l - 1
        /\ \A i \in 1..(l - 1) : Without(j)[i] = IF i < at THEN list[i] ELSE list[i + 1]
  BY <1>1, <1>2, WithoutFacts
<1> HIDE DEF l
<1>4. /\ list' \in Seq(Jobs) /\ DOMAIN list' = 1..(l - 1)
      /\ \A i \in 1..(l - 1) : list'[i] = IF i < at THEN list[i] ELSE list[i + 1]
  BY <1>1, <1>3, LenProperties
<1>5. quiet' \subseteq Listed'
  <2>1. ASSUME NEW i \in 1..l, list[i] # j PROVE list[i] \in {list'[k] : k \in 1..(l - 1)}
    <3>1. i # at /\ at \in 1..l
      BY <1>2, <1>3, <2>1
    <3>2. CASE i < at
      <4>1. i \in 1..(l - 1)
        BY <1>2, <3>1, <3>2
      <4>2. list'[i] = list[i]
        BY <1>4, <3>2, <4>1
      <4> QED
        BY <4>1, <4>2
    <3>3. CASE i > at
      <4>1. i - 1 \in 1..(l - 1) /\ (i - 1) + 1 = i /\ ~(i - 1 < at)
        BY <1>2, <3>1, <3>3
      <4>2. list'[i - 1] = list[i]
        BY <1>4, <4>1
      <4> QED
        BY <4>1, <4>2
    <3> QED
      BY <1>2, <3>1, <3>2, <3>3
  <2>2. Listed' = {list'[k] : k \in 1..(l - 1)}
    BY <1>4 DEF Listed
  <2>3. \A x \in quiet : \E i \in 1..l : x = list[i] /\ list[i] # j
    BY <1>2 DEF QuietListed, Listed
  <2> QED
    BY <1>1, <2>1, <2>2, <2>3
<1>6. quiet' \cap unsent' = {} /\ quiet' \subseteq quiet /\ unsent' \subseteq Jobs /\ rollbacks' \in Nat
  BY <1>1, <1>2 DEF QuietListed, TypeInv
<1>7. ASSUME first = 1 PROVE Cardinality(Missed(b)') <= rollbacks'
  <2> DEFINE now == Missed(b)'
             some == Missed(b)
             next == list[b + 1]
  <2>1. b \in Nat
    BY <1>2 DEF Boundary
  <2>2. Cardinality(some) <= rollbacks
    BY <1>1, <1>7 DEF ListInv, FewMissed
  <2>3. now \subseteq some \cup {next}
    <3>1. UNCHANGED <<page, perPage, seen>>
      BY <1>1 DEF Change, clientVars
    <3> SUFFICES ASSUME NEW i \in 1..(l - 1), i <= b, list'[i] \in quiet, list'[i] \notin RowsSeen
                 PROVE  list'[i] \in some \cup {next}
      BY <1>1, <1>4, <3>1 DEF Missed, Before, Boundary, RowsSeen
    <3>2. CASE i < at
      <4>1. list'[i] = list[i] /\ i \in DOMAIN list
        BY <1>2, <1>4, <3>2
      <4> QED
        BY <4>1 DEF Missed, Before
    <3>3. CASE ~(i < at)
      <4>1. list'[i] = list[i + 1] /\ i + 1 \in DOMAIN list
        BY <1>2, <1>4, <3>3
      <4>2. CASE i = b
        BY <4>1, <4>2
      <4>3. CASE i < b
        <5>1. i + 1 <= b
          BY <2>1, <4>3
        <5> QED
          BY <4>1, <5>1 DEF Missed, Before
      <4> QED
        BY <2>1, <4>2, <4>3
    <3> QED
      BY <3>2, <3>3
  <2>4. some \subseteq Jobs
    BY <1>2, BeforeFacts
  <2> HIDE DEF some, now, next
  <2>5. IsFiniteSet(some) /\ Cardinality(some) \in Nat
    BY <2>4, FewerAreFewer
  <2>6. /\ IsFiniteSet(some \cup {next})
        /\ Cardinality(some \cup {next}) \in Nat
        /\ Cardinality(some \cup {next}) <= Cardinality(some) + 1
    <3>1. IsFiniteSet(some \cup {next})
      BY <2>5, FS_AddElement
    <3>2. Cardinality(some \cup {next}) = IF next \in some THEN Cardinality(some) ELSE Cardinality(some) + 1
      BY <2>5, FS_AddElement
    <3> QED
      BY <2>5, <3>1, <3>2
  <2>7. IsFiniteSet(now) /\ Cardinality(now) <= Cardinality(some \cup {next})
    BY <2>3, <2>6, FS_Subset
  <2>8. Cardinality(now) \in Nat
    BY <2>7, FS_CardinalityType
  <2>9. Cardinality(now) <= rollbacks'
    BY <1>1, <1>2, <2>2, <2>5, <2>6, <2>7, <2>8
  <2> QED
    BY <2>9 DEF now
<1> QED
  BY <1>1, <1>4, <1>5, <1>6, <1>7, ChangeInv

-----------------------------------------------------------------------------
LEMMA ListInit == Init => ListInv
<1> SUFFICES ASSUME Init PROVE ListInv
  OBVIOUS
<1> DEFINE card == Cardinality(Jobs)
           order == CHOOSE l \in AllOrders(Jobs) : TRUE
<1>1. card \in Nat
  BY ListingAssumption, FS_CardinalityType
<1>2. \E l \in AllOrders(Jobs) : TRUE
  <2>1. PICK f \in Bijection(1..card, Jobs) : TRUE
    <3>1. PICK n \in Nat : ExistsBijection(1..n, Jobs)
      BY ListingAssumption, FS_NatBijection
    <3>2. n = card
      BY <3>1, FS_CountingElements
    <3> QED
      BY <3>1, <3>2 DEF ExistsBijection
  <2>2. /\ f \in [1..card -> Jobs]
        /\ \A i, k \in 1..card : f[i] = f[k] => i = k
    BY <2>1 DEF Bijection, Injection, IsInjective
  <2>3. f \in AllOrders(Jobs)
    BY <2>2 DEF AllOrders
  <2> QED
    BY <2>3
<1>3. order \in [1..card -> Jobs]
  BY <1>2 DEF AllOrders
<1> HIDE DEF order, card
<1>4. PICK n \in 0..card : list = SubSeq(order, 1, n)
  BY DEF Init, order, card
<1>5. list \in Seq(Jobs)
  <2>1. \A i \in 1..n : order[i] \in Jobs
    BY <1>1, <1>3
  <2>2. SubSeq(order, 1, n) \in Seq(Jobs)
    BY <1>1, <2>1, SubSeqProperties
  <2> QED
    BY <1>4, <2>2
<1>6. Listed \subseteq Jobs
  BY <1>5, LenProperties DEF Listed
<1> QED
  BY <1>5, <1>6, EmptySeq
     DEF Init, ListInv, TypeInv, QuietListed, Started, InStep, FewMissed

LEMMA ListStep == ListInv /\ [Next]_vars => ListInv'
<1> SUFFICES ASSUME ListInv, [Next]_vars PROVE ListInv'
  OBVIOUS
<1>1. CASE UNCHANGED vars
  BY <1>1 DEF vars, storeVars, clientVars, watchVars, ListInv, TypeInv, QuietListed, Started,
     InStep, FewMissed, Listed, Missed, Before, Boundary, RowsSeen, Start, TotalPages
<1>2. CASE Client
  BY <1>2, OpenListInv, FollowNextInv DEF Client
<1>3. CASE Store
  BY <1>3, InsertRecordInv, QueueRecordInv, RollbackRecordInv, UpdateRecordInv,
     RetainRecentJobsInv DEF Store
<1> QED
  BY <1>1, <1>2, <1>3 DEF Next

LEMMA AlwaysListInv == Spec => []ListInv
  BY ListInit, ListStep, PTL DEF Spec

LEMMA SlicesInRange == ListInv => SliceInRange
<1> SUFFICES ASSUME ListInv,
                    NEW p \in PageQueries \cup {page}, NEW q \in PerPageQueries \cup {perPage}
             PROVE  LET n == ClampPerPage(q)
                        c == ClampPage(p, n)
                    IN  /\ Start(c, n) <= End(c, n) /\ End(c, n) <= Len(list)
                        /\ list # <<>> => Start(c, n) < End(c, n)
  BY DEF SliceInRange
<1> DEFINE n == ClampPerPage(q)
           c == ClampPage(p, n)
<1>1. list \in Seq(Jobs) /\ p \in Nat /\ q \in Nat
  BY ListingAssumption DEF ListInv, TypeInv
<1>2. n \in Nat \ {0}
  BY <1>1, ClampedPerPage
<1> HIDE DEF n
<1>3. c \in 1..TotalPages(n)
  BY <1>1, <1>2, ClampedPage
<1> HIDE DEF c
<1>4. Start(c, n) <= End(c, n) /\ End(c, n) <= Len(list) /\ (list # <<>> => Start(c, n) < End(c, n))
  BY <1>1, <1>2, <1>3, PageBounds
<1> QED
  BY <1>4 DEF c, n

(* The invariant says all that is claimed of the pages. *)
LEMMA ListInvShows == ListInv => ListPagesCorrect
<1>1. ListInv => PagesPartitionList
  BY DEF ListInv, InStep, PagesPartitionList
<1>2. ListInv => QuietRecordsShown
  BY DEF ListInv, FewMissed, QuietRecordsShown
<1> QED
  BY <1>1, <1>2, SlicesInRange DEF ListPagesCorrect

(* The list of jobs is cut into pages that are in range for every query;    *)
(* without changes they make up the list from the first one shown to the    *)
(* end, and whatever is inserted, updated, rolled back and evicted between  *)
(* the requests, a client that started at the first page was shown every    *)
(* record that stayed as it was, but at most one for each rolled back       *)
(* (render_jobs_index).                                                     *)
THEOREM PagesMissNothing == Spec => []ListPagesCorrect
  BY ListInvShows, AlwaysListInv, PTL

(***************************************************************************)
(* A text that was cut off                                                 *)
(***************************************************************************)
(* What is parsed of a text is kept when the text goes on. *)
LEMMA CutOffKeeps ==
    ASSUME NEW T, NEW s \in Seq(T), NEW t \in Seq(T), StartsAs(t, s)
    PROVE  KeepsPrefix(ParseOcrResult(t), ParseOcrResult(s))
<1> DEFINE p == Detections(t)
           w == Detections(s)
           m == Len(p)
           n == Len(w)
<1>1. Len(s) \in Nat /\ Len(t) \in Nat /\ 1 \in 1..(Len(t) + 1) /\ 1 \in 1..(Len(s) + 1)
  BY LenProperties
<1>2. PICK f : p = f[1] /\ DFrom(f, t)
  BY <1>1, DetectionsUnfold
<1>3. PICK g : w = g[1] /\ DFrom(g, s)
  BY <1>1, DetectionsUnfold
<1>4. p \in Seq(Found(T)) /\ w \in Seq(Found(T)) /\ Begin(p, w)
  <2>1. p \in Seq(Found(T))
    BY <1>1, <1>2, DetectionsType
  <2>2. w \in Seq(Found(T))
    BY <1>1, <1>3, DetectionsType
  <2>3. Begin(p, w)
    BY <1>1, <1>2, <1>3, DetectionsBegin
  <2> QED
    BY <2>1, <2>2, <2>3
<1>5. /\ ParseOcrResult(t).detections = p /\ ParseOcrResult(t).tables = Tables(p)
      /\ ParseOcrResult(s).detections = w /\ ParseOcrResult(s).tables = Tables(w)
  BY DEF ParseOcrResult
<1> HIDE DEF p, w
<1>6. m \in Nat /\ n \in Nat /\ m <= n
  BY <1>4, LenProperties DEF Begin
<1>7. DetectionsBeginAs(p, w)
  <2> SUFFICES ASSUME p # <<>>
               PROVE  Len(p) <= Len(w) /\ IsPrefix(Front(p), w) /\ BeginsAs(Last(p), w[Len(p)])
    BY DEF DetectionsBeginAs
  <2>1. m \in 1..m /\ m \in 1..n
    BY <1>4, <1>6, EmptySeq
  <2>2. p[m] \in Found(T) /\ w[m] \in Found(T)
    BY <1>4, <2>1, ElementOfSeq
  <2>3. p[m].text \in Seq(T) /\ w[m].text \in Seq(T)
    BY <2>2 DEF Found
  <2>4. BeginsAs(Last(p), w[m])
    <3>1. /\ p[m].label = w[m].label /\ p[m].bbox = w[m].bbox /\ StartsAs(p[m].text, w[m].text)
      BY <1>4 DEF Begin
    <3>2. IsPrefix(p[m].text, w[m].text)
      BY <2>3, <3>1, IsPrefixIf
    <3> QED
      BY <3>1, <3>2 DEF BeginsAs, Last
  <2>5. IsPrefix(Front(p), w)
    <3> DEFINE r == SubSeq(p, 1, m - 1)
    <3>1. /\ r \in Seq(Found(T)) /\ Len(r) = m - 1
          /\ \A k \in 1..(m - 1) : r[k] = p[k]
      <4>1. m - 1 \in Int /\ m - 1 <= m /\ 1 \in Nat \ {0}
        BY <1>6
      <4>2. /\ r \in Seq(Found(T)) /\ Len(r) = (IF 1 <= m - 1 THEN m - 1 - 1 + 1 ELSE 0)
            /\ \A k \in 1..(m - 1 - 1 + 1) : r[k] = p[1 + k - 1]
        BY <1>4, <4>1, PartOf
      <4> HIDE DEF r, m
      <4>3. Len(r) = m - 1
        BY <1>6, <2>1, <4>2
      <4>4. \A k \in 1..(m - 1) : k \in 1..(m - 1 - 1 + 1) /\ 1 + k - 1 = k
        BY <1>6
      <4> QED
        BY <4>2, <4>3, <4>4 DEF m
    <3> HIDE DEF r
    <3>2. StartsAs(r, w)
      BY <1>4, <1>6, <3>1 DEF StartsAs, Begin
    <3>3. IsPrefix(r, w)
      BY <1>4, <3>1, <3>2, IsPrefixIf
    <3> QED
      BY <3>3 DEF r, Front
  <2> QED
    BY <1>6, <2>4, <2>5
<1>8. IsPrefix(TableRowsOf(ParseOcrResult(t)), TableRowsOf(ParseOcrResult(s)))
  <2> DEFINE R == TablesOf(Found(T))
             Q == {r.rows : r \in R}
  <2>1. PICK F \in [0..m -> Seq(R)] : AreTables(F, p)
    BY <1>4, TablesUnfold
  <2>2. PICK G \in [0..n -> Seq(R)] : AreTables(G, w)
    BY <1>4, TablesUnfold
  <2> DEFINE x == F[m]
             y == G[n]
             a == [i \in DOMAIN x |-> x[i].rows]
             b == [i \in DOMAIN y |-> y[i].rows]
  <2>3. x = Tables(p) /\ y = Tables(w) /\ x \in Seq(R) /\ y \in Seq(R)
    <3>1. m \in 0..m /\ n \in 0..n
      BY <1>6
    <3> QED
      BY <2>1, <2>2, <3>1 DEF AreTables
  <2>4. Len(x) <= Len(y) /\ \A j \in 1..Len(x) : x[j].rows = y[j].rows
    BY <1>4, <2>1, <2>2, TablesBegin
  <2>5. TableRowsOf(ParseOcrResult(t)) = a /\ TableRowsOf(ParseOcrResult(s)) = b
    BY <1>5, <2>3 DEF TableRowsOf
  <2> HIDE DEF x, y, R
  <2>6. /\ DOMAIN x = 1..Len(x) /\ DOMAIN y = 1..Len(y) /\ Len(x) \in Nat /\ Len(y) \in Nat
        /\ \A i \in 1..Len(x) : x[i] \in R
        /\ \A i \in 1..Len(y) : y[i] \in R
    BY <2>3, LenProperties, ElementOfSeq
  <2>7. a \in [1..Len(x) -> Q] /\ b \in [1..Len(y) -> Q]
    BY <2>6
  <2>8. a \in Seq(Q) /\ Len(a) = Len(x) /\ b \in Seq(Q) /\ Len(b) = Len(y)
    <3> HIDE DEF a, b, Q
    <3> QED
      BY <2>6, <2>7, FcnIsSeq
  <2>9. StartsAs(a, b)
    <3>1. \A j \in 1..Len(x) : a[j] = x[j].rows /\ j \in 1..Len(y) /\ b[j] = y[j].rows
      BY <2>4, <2>6
    <3> HIDE DEF a, b, Q
    <3> QED
      BY <2>4, <2>8, <3>1 DEF StartsAs
  <2> HIDE DEF a, b, Q
  <2>10. IsPrefix(a, b)
    BY <2>8, <2>9, IsPrefixIf
  <2> QED
    BY <2>5, <2>10
<1> QED
  BY <1>5, <1>7, <1>8 DEF KeepsPrefix

(***************************************************************************)
(* What is written                                                         *)
(***************************************************************************)
(* An element is an opening tag, what is inside it, and a closing tag. *)
LEMMA ElementFacts ==
    ASSUME NEW S, NEW open \in S, NEW inner \in Seq(S), NEW close \in S
    PROVE  /\ Element(open, inner, close) \in Seq(S)
           /\ Len(Element(open, inner, close)) = Len(inner) + 2
           /\ Element(open, inner, close)[1] = open
           /\ Element(open, inner, close)[Len(inner) + 2] = close
           /\ \A k \in 1..Len(inner) : Element(open, inner, close)[k + 1] = inner[k]
<1> DEFINE a == <<open>>
           z == <<close>>
           b == a \o inner
           c == b \o z
<1>1. /\ a \in Seq(S) /\ Len(a) = 1 /\ a[1] = open
      /\ z \in Seq(S) /\ Len(z) = 1 /\ z[1] = close
      /\ Len(inner) \in Nat
  BY LenProperties
<1>2. /\ b \in Seq(S) /\ Len(b) = Len(inner) + 1 /\ b[1] = open
      /\ \A k \in 1..Len(inner) : b[k + 1] = inner[k]
  BY Prepended
<1>3. Element(open, inner, close) = c
  BY DEF Element
<1> HIDE DEF a, z, b
<1>4. /\ c \in Seq(S) /\ Len(c) = Len(b) + Len(z)
      /\ \A i \in 1..(Len(b) + Len(z)) : c[i] = IF i <= Len(b) THEN b[i] ELSE z[i - Len(b)]
  BY <1>1, <1>2, ConcatProperties
<1> HIDE DEF c
<1>5. Len(c) = Len(inner) + 2 /\ c[1] = open /\ c[Len(inner) + 2] = close
  <2>1. /\ Len(c) = Len(inner) + 2 /\ 1 <= Len(b) /\ 1 \in 1..(Len(b) + Len(z))
        /\ Len(inner) + 2 \in 1..(Len(b) + Len(z)) /\ ~(Len(inner) + 2 <= Len(b))
        /\ Len(inner) + 2 - Len(b) = 1
    BY <1>1, <1>2, <1>4
  <2> QED
    BY <1>1, <1>2, <1>4, <2>1
<1>6. \A k \in 1..Len(inner) : c[k + 1] = inner[k]
  <2> SUFFICES ASSUME NEW k \in 1..Len(inner) PROVE c[k + 1] = inner[k]
    OBVIOUS
  <2>1. k + 1 \in 1..(Len(b) + Len(z)) /\ k + 1 <= Len(b)
    BY <1>1, <1>2
  <2> QED
    BY <1>2, <1>4, <2>1
<1> QED
  BY <1>3, <1>4, <1>5, <1>6

(* Everything that is written is made of tokens. *)
LEMMA WordsAreTokens ==
    /\ Words \subseteq Tokens /\ Tags \subseteq Tokens /\ Boxes \cup BadBoxes \subseteq Tokens
    /\ Det \in Tokens /\ "preface" \in Tokens
  BY DEF Words, Tokens

CellMarkup  == {"<td>", "<td rowspan=2>", "<td rowspan=0>", "<th>", "</td>", "</th>"}
RowMarkup   == {"<tr>", "</tr>", "<thead>", "</thead>"}
TableMarkup == {"<table border=1>", "</table>"}

RowContent(r)    == FlattenSeq([i \in DOMAIN r |-> WrittenCell(r[i])])
TableHead(rs)    == Element("<thead>", WrittenRow(Head(rs)), "</thead>")
RestRows(rs)     == [i \in 1..(Len(rs) - 1) |-> WrittenRow(rs[i + 1])]
TableContent(rs) == TableHead(rs) \o FlattenSeq(RestRows(rs))

(* A row and a table are elements. *)
LEMMA WrittenParts ==
    /\ \A r : WrittenRow(r) = Element("<tr>", RowContent(r), "</tr>")
    /\ \A rs : WrittenTable(rs) = Element("<table border=1>", TableContent(rs), "</table>")
  BY DEF WrittenRow, WrittenTable, RowContent, TableContent, TableHead, RestRows

(* The tags of tables are tokens. *)
LEMMA MarkupIsTokens ==
    CellMarkup \cup RowMarkup \cup TableMarkup \subseteq Tokens
<1>1. CellMarkup \cup RowMarkup \cup TableMarkup \subseteq Tags
  BY TagsAre DEF CellMarkup, RowMarkup, TableMarkup
<1> QED
  BY <1>1, WordsAreTokens

(* A cell that is meant has an opening tag and words. *)
LEMMA CellForms ==
    ASSUME NEW c \in CellsMeant
    PROVE  /\ c.open \in {"<td>", "<td rowspan=2>", "<td rowspan=0>", "<th>"}
           /\ c.words \in Seq(Words)
<1>1. c.open \in OpenForms["td"] \cup OpenForms["th"] /\ c.words \in Seq(Words)
  BY DEF CellsMeant
<1> QED
  BY <1>1, TagForms

(* A cell is written with words and the tags of cells, *)
LEMMA WrittenCellType ==
    ASSUME NEW c \in CellsMeant, NEW S, Words \subseteq S, CellMarkup \subseteq S
    PROVE  WrittenCell(c) \in Seq(S)
<1>1. c.open \in S /\ c.words \in Seq(S)
  BY CellForms, SeqMonotonic DEF CellMarkup
<1>2. "</th>" \in S /\ "</td>" \in S
  BY DEF CellMarkup
<1> QED
  BY <1>1, <1>2, ElementFacts DEF WrittenCell

(* the cells of a row as well, *)
LEMMA RowContentType ==
    ASSUME NEW r \in Seq(CellsMeant), NEW S, Words \subseteq S, CellMarkup \subseteq S
    PROVE  /\ [i \in DOMAIN r |-> WrittenCell(r[i])] \in Seq(Seq(S))
           /\ Len([i \in DOMAIN r |-> WrittenCell(r[i])]) = Len(r)
           /\ RowContent(r) \in Seq(S)
<1> DEFINE n == Len(r)
           seqs == [i \in DOMAIN r |-> WrittenCell(r[i])]
           Q == Seq(S)
<1>1. n \in Nat /\ DOMAIN r = 1..n /\ \A i \in 1..n : r[i] \in CellsMeant
  BY LenProperties, ElementOfSeq
<1>2. seqs \in [1..n -> Q]
  <2>1. \A i \in 1..n : WrittenCell(r[i]) \in Q
    BY <1>1, WrittenCellType
  <2> HIDE DEF Q
  <2> QED
    BY <1>1, <2>1
<1> HIDE DEF seqs, n
<1>3. seqs \in Seq(Q) /\ Len(seqs) = n
  <2> HIDE DEF Q
  <2> QED
    BY <1>1, <1>2, FcnIsSeq
<1>4. FlattenSeq(seqs) \in Seq(S)
  BY <1>3, FlattenType
<1> QED
  BY <1>3, <1>4 DEF seqs, n, RowContent

(* a row with the tags of rows too, *)
LEMMA WrittenRowType ==
    ASSUME NEW r \in Seq(CellsMeant), NEW S, Words \subseteq S, CellMarkup \subseteq S, RowMarkup \subseteq S
    PROVE  WrittenRow(r) \in Seq(S)
<1>1. RowContent(r) \in Seq(S)
  BY RowContentType
<1>2. "<tr>" \in S /\ "</tr>" \in S
  BY DEF RowMarkup
<1> QED
  BY <1>1, <1>2, ElementFacts, WrittenParts

(* what is inside a table with these, *)
LEMMA TableContentType ==
    ASSUME NEW rs \in Seq(Seq(CellsMeant)), rs # <<>>,
           NEW S, Words \subseteq S, CellMarkup \subseteq S, RowMarkup \subseteq S
    PROVE  /\ RestRows(rs) \in Seq(Seq(S)) /\ Len(RestRows(rs)) = Len(rs) - 1
           /\ Len(rs) - 1 \in Nat
           /\ TableHead(rs) \in Seq(S) /\ FlattenSeq(RestRows(rs)) \in Seq(S)
           /\ TableContent(rs) \in Seq(S)
<1> DEFINE n == Len(rs) - 1
           seqs == [i \in 1..n |-> WrittenRow(rs[i + 1])]
           Q == Seq(S)
<1>1. n \in Nat /\ 1 \in 1..Len(rs) /\ \A i \in 1..Len(rs) : rs[i] \in Seq(CellsMeant)
  BY LenProperties, ElementOfSeq, EmptySeq
<1>2. seqs \in [1..n -> Q]
  <2>1. \A i \in 1..n : i + 1 \in 1..Len(rs)
    BY <1>1
  <2>2. \A i \in 1..n : WrittenRow(rs[i + 1]) \in Q
    BY <1>1, <2>1, WrittenRowType
  <2> HIDE DEF Q
  <2> QED
    BY <2>2
<1> HIDE DEF n, seqs
<1>3. seqs \in Seq(Q) /\ Len(seqs) = n
  <2> HIDE DEF Q
  <2> QED
    BY <1>1, <1>2, FcnIsSeq
<1>4. FlattenSeq(seqs) \in Seq(S)
  BY <1>3, FlattenType
<1>5. WrittenRow(Head(rs)) \in Seq(S)
  <2>1. Head(rs) = rs[1]
    OBVIOUS
  <2> QED
    BY <1>1, <2>1, WrittenRowType
<1>6. "<thead>" \in S /\ "</thead>" \in S
  BY DEF RowMarkup
<1>7. TableHead(rs) \in Seq(S)
  BY <1>5, <1>6, ElementFacts DEF TableHead
<1>8. RestRows(rs) = seqs
  BY DEF RestRows, seqs, n
<1>9. TableContent(rs) \in Seq(S)
  BY <1>4, <1>7, <1>8, ConcatProperties DEF TableContent
<1> QED
  BY <1>1, <1>3, <1>4, <1>7, <1>8, <1>9 DEF n

(* a table with the tags of tables too, *)
LEMMA WrittenTableType ==
    ASSUME NEW rs \in Seq(Seq(CellsMeant)), rs # <<>>,
           NEW S, Words \subseteq S, CellMarkup \subseteq S, RowMarkup \subseteq S, TableMarkup \subseteq S
    PROVE  WrittenTable(rs) \in Seq(S)
<1>1. TableContent(rs) \in Seq(S)
  BY TableContentType
<1>2. "<table border=1>" \in S /\ "</table>" \in S
  BY DEF TableMarkup
<1> QED
  BY <1>1, <1>2, ElementFacts, WrittenParts

BodyTokens == Words \cup CellMarkup \cup RowMarkup \cup TableMarkup

(* and so is the body of a block. *)
LEMMA WrittenBodyType ==
    ASSUME NEW b \in Blocks
    PROVE  WrittenBody(b) \in Seq(BodyTokens)
<1>1. b.words \in Seq(Words) /\ b.rows \in Seq(Seq(CellsMeant))
  BY DEF Blocks
<1>2. /\ Words \subseteq BodyTokens /\ CellMarkup \subseteq BodyTokens
      /\ RowMarkup \subseteq BodyTokens /\ TableMarkup \subseteq BodyTokens
  BY DEF BodyTokens
<1>3. CASE b.rows = <<>>
  BY <1>1, <1>2, <1>3, SeqMonotonic DEF WrittenBody
<1>4. CASE b.rows # <<>>
  BY <1>1, <1>2, <1>4, WrittenTableType DEF WrittenBody
<1> QED
  BY <1>3, <1>4

(* A block and its parts are made of tokens, *)
LEMMA WrittenBlockType ==
    ASSUME NEW b \in Blocks
    PROVE  WrittenBlock(b) \in Seq(Tokens) /\ WrittenBody(b) \in Seq(Tokens)
           /\ b.label \o b.boxes \in Seq(Tokens)
<1>1. /\ b.label \in Seq(Words) /\ b.boxes \in Seq(Boxes \cup BadBoxes)
      /\ b.words \in Seq(Words) /\ b.rows \in Seq(Seq(CellsMeant))
  BY DEF Blocks
<1>2. b.label \in Seq(Tokens) /\ b.boxes \in Seq(Tokens) /\ b.words \in Seq(Tokens)
  BY <1>1, WordsAreTokens, SeqMonotonic
<1>3. b.label \o b.boxes \in Seq(Tokens)
  BY <1>2, ConcatProperties
<1>4. WrittenBody(b) \in Seq(Tokens)
  BY WrittenBodyType, WordsAreTokens, MarkupIsTokens, SeqMonotonic DEF BodyTokens
<1>5. Element(Det, b.label \o b.boxes, DetEnd) \in Seq(Tokens)
  <2>1. Det \in Tokens /\ DetEnd \in Tokens
    BY WordsAreTokens, TagsAre DEF DetEnd
  <2> DEFINE h == b.label \o b.boxes
  <2> HIDE DEF h
  <2> QED
    BY <1>3, <2>1, ElementFacts DEF h
<1>6. WrittenBlock(b) \in Seq(Tokens)
  BY <1>4, <1>5, ConcatProperties DEF WrittenBlock
<1> QED
  BY <1>3, <1>4, <1>6

(* and so is a page. *)
LEMMA WrittenType ==
    ASSUME NEW bs \in Seq(Blocks)
    PROVE  /\ [i \in DOMAIN bs |-> WrittenBlock(bs[i])] \in Seq(Seq(Tokens))
           /\ Written(bs) \in Seq(Tokens)
<1> DEFINE n == Len(bs)
           seqs == [i \in DOMAIN bs |-> WrittenBlock(bs[i])]
           Q == Seq(Tokens)
<1>1. n \in Nat /\ DOMAIN bs = 1..n /\ \A i \in 1..n : bs[i] \in Blocks
  BY LenProperties, ElementOfSeq
<1>2. seqs \in [1..n -> Q]
  <2>1. \A i \in 1..n : WrittenBlock(bs[i]) \in Q
    BY <1>1, WrittenBlockType
  <2> HIDE DEF Q
  <2> QED
    BY <1>1, <2>1
<1> HIDE DEF seqs, n
<1>3. seqs \in Seq(Q)
  <2> HIDE DEF Q
  <2> QED
    BY <1>1, <1>2, FcnIsSeq
<1>4. FlattenSeq(seqs) \in Seq(Tokens)
  BY <1>3, FlattenType
<1>5. Written(bs) \in Seq(Tokens)
  BY <1>4, WordsAreTokens, Prepended DEF Written, seqs
<1> QED
  BY <1>3, <1>5 DEF seqs

(***************************************************************************)
(* The answers a client gets                                               *)
(***************************************************************************)
(* Every page was made of the constants, and no later step changes it.     *)
AnswerInv ==
    /\ answer.kind = "page" => answer.blocks \in Pages /\ answer.cut \in 1..Len(Written(answer.blocks))
    /\ answer.kind = "damaged" =>
         LET html == WrittenTable(TableRowsMeant)
         IN  \E d, e \in Damages : \E later \in answer.at..Len(html) :
               LET after == IF later = answer.at THEN html ELSE Damaged(html, later, e)
               IN  answer.at \in DOMAIN html /\ answer.html = Damaged(after, answer.at, d)
    /\ answer.kind = "cell" =>
         answer.meant \in CellTexts
         /\ \E tagged \in SUBSET DOMAIN answer.meant : answer.written = WrittenText(answer.meant, tagged)

(* The invariant holds at the start and after every step. *)
LEMMA AnswerInvHolds ==
    /\ ViewsInit => AnswerInv
    /\ AnswerInv /\ [ViewsNext]_viewVars => AnswerInv'
<1>1. ViewsInit => AnswerInv
  BY DEF ViewsInit, NoAnswer, AnswerInv
<1>2. ASSUME AnswerInv, UNCHANGED answer PROVE AnswerInv'
  BY <1>2 DEF AnswerInv
<1>3. ASSUME OpenPage PROVE AnswerInv'
  <2>1. PICK bs \in Pages : \E cut \in 1..Len(Written(bs)) :
             answer' = [kind |-> "page", blocks |-> bs, cut |-> cut]
    BY <1>3 DEF OpenPage, GetJobHtml
  <2>2. PICK cut \in 1..Len(Written(bs)) : answer' = [kind |-> "page", blocks |-> bs, cut |-> cut]
    BY <2>1
  <2> QED
    BY <2>2 DEF AnswerInv
<1>4. ASSUME OpenDamagedTable PROVE AnswerInv'
  <2> DEFINE html == WrittenTable(TableRowsMeant)
             after(later, at, e) == IF later = at THEN html ELSE Damaged(html, later, e)
  <2>1. PICK at \in DOMAIN html : \E d, e \in Damages : \E later \in at..Len(html) :
             answer' = [kind |-> "damaged", html |-> Damaged(after(later, at, e), at, d), at |-> at]
    BY <1>4 DEF OpenDamagedTable, GetJobHtml
  <2>2. PICK d \in Damages, e \in Damages, later \in at..Len(html) :
             answer' = [kind |-> "damaged", html |-> Damaged(after(later, at, e), at, d), at |-> at]
    BY <2>1
  <2>3. /\ answer'.kind = "damaged" /\ answer'.at = at
        /\ answer'.html = Damaged(after(later, at, e), at, d)
    BY <2>2
  <2> QED
    BY <2>3 DEF AnswerInv
<1>5. ASSUME OpenCell PROVE AnswerInv'
  <2>0. PICK t \in CellTexts : \E tagged \in SUBSET DOMAIN t :
             answer' = [kind |-> "cell", meant |-> t, written |-> WrittenText(t, tagged)]
    BY <1>5 DEF OpenCell, GetJobHtml
  <2>1. PICK tagged \in SUBSET DOMAIN t :
             answer' = [kind |-> "cell", meant |-> t, written |-> WrittenText(t, tagged)]
    BY <2>0
  <2> QED
    BY <2>1 DEF AnswerInv
<1>6. ASSUME AnswerInv, [ViewsNext]_viewVars PROVE AnswerInv'
  <2>1. CASE ViewsNext
    BY <1>2, <1>3, <1>4, <1>5, <1>6, <2>1 DEF ViewsNext, Read
  <2>2. CASE UNCHANGED viewVars
    BY <1>2, <1>6, <2>2 DEF viewVars
  <2> QED
    BY <1>6, <2>1, <2>2
<1> QED
  BY <1>1, <1>6

(* The answer of every page cut off keeps the beginning of the answer of   *)
(* the page.                                                               *)
LEMMA CutOffKeepsPrefixHolds ==
    AnswerInv => CutOffKeepsPrefix
<1> SUFFICES ASSUME AnswerInv, answer.kind = "page"
             PROVE  KeepsPrefix(Result, ParseOcrResult(Written(answer.blocks)))
  BY DEF CutOffKeepsPrefix
<1> DEFINE s == Written(answer.blocks)
           t == SubSeq(s, 1, answer.cut)
<1>1. answer.blocks \in Seq(Blocks) /\ answer.cut \in 1..Len(s)
  BY ViewsAssumption DEF AnswerInv
<1>2. s \in Seq(Tokens)
  BY <1>1, WrittenType
<1> HIDE DEF s
<1>3. t \in Seq(Tokens) /\ StartsAs(t, s)
  <2> DEFINE c == answer.cut
  <2> HIDE DEF c
  <2>1. c \in 1..Len(s) /\ Len(s) \in Nat
    BY <1>1, <1>2, LenProperties DEF c
  <2>2. c \in Int /\ c <= Len(s) /\ 1 \in Nat \ {0}
    BY <2>1
  <2> DEFINE u == SubSeq(s, 1, c)
  <2>3. /\ u \in Seq(Tokens) /\ Len(u) = (IF 1 <= c THEN c - 1 + 1 ELSE 0)
        /\ \A k \in 1..(c - 1 + 1) : u[k] = s[1 + k - 1]
    BY <1>2, <2>2, PartOf
  <2> HIDE DEF u
  <2>4. Len(u) = c /\ \A k \in 1..c : k \in 1..(c - 1 + 1) /\ 1 + k - 1 = k
    BY <2>1, <2>3
  <2>5. StartsAs(u, s)
    BY <2>1, <2>3, <2>4 DEF StartsAs
  <2> QED
    BY <2>3, <2>5 DEF u, c
<1>4. KeepsPrefix(ParseOcrResult(t), ParseOcrResult(s))
  <2> HIDE DEF t
  <2> QED
    BY <1>2, <1>3, CutOffKeeps
<1> QED
  BY <1>4 DEF Result, s

(* An answer that max_new_tokens cut off anywhere shows the beginning of   *)
(* what the whole answer would have shown: parse_ocr_result keeps every    *)
(* detection but for the text of the last, and every table that was closed *)
(* (CutOffKeepsPrefix).                                                    *)
THEOREM CutOffShowsTheBeginning == ViewsSpec => []CutOffKeepsPrefix
<1>1. ViewsInit => AnswerInv
  BY AnswerInvHolds
<1>2. AnswerInv /\ [ViewsNext]_viewVars => AnswerInv'
  BY AnswerInvHolds
<1>3. AnswerInv => CutOffKeepsPrefix
  BY CutOffKeepsPrefixHolds
<1> QED
  BY <1>1, <1>2, <1>3, PTL DEF ViewsSpec

(***************************************************************************)
(* The cells of a row                                                      *)
(***************************************************************************)
(* Where an element stands, its tags and what is inside it stand. *)
LEMMA ElementStands ==
    ASSUME NEW s, NEW p, NEW S, NEW open \in S, NEW inner \in Seq(S), NEW close \in S,
           StandsAt(s, p, Element(open, inner, close))
    PROVE  /\ Len(inner) \in Nat /\ p \in Nat /\ Len(s) \in Nat /\ p + Len(inner) + 2 <= Len(s)
           /\ s[p + 1] = open /\ StandsAt(s, p + 1, inner) /\ s[p + Len(inner) + 2] = close
<1> DEFINE e == Element(open, inner, close)
           n == Len(inner)
<1>1. /\ Len(e) = n + 2 /\ e[1] = open /\ e[n + 2] = close /\ \A k \in 1..n : e[k + 1] = inner[k]
      /\ n \in Nat
  BY ElementFacts, LenProperties
<1> HIDE DEF e, n
<1>2. p \in Nat /\ Len(s) \in Nat /\ p + Len(e) <= Len(s) /\ \A k \in 1..Len(e) : s[p + k] = e[k]
  BY DEF StandsAt, e
<1>3. p + n + 2 <= Len(s) /\ 1 \in 1..Len(e) /\ n + 2 \in 1..Len(e)
  BY <1>1, <1>2
<1>4. s[p + 1] = open
  BY <1>1, <1>2, <1>3
<1>5. s[p + n + 2] = close
  <2>1. s[p + (n + 2)] = close /\ p + (n + 2) = p + n + 2
    BY <1>1, <1>2, <1>3
  <2> QED
    BY <2>1
<1>6. StandsAt(s, p + 1, inner)
  <2> DEFINE x == p + 1
  <2>1. x \in Nat /\ x + n <= Len(s)
    BY <1>1, <1>2, <1>3
  <2>2. ASSUME NEW k \in 1..n PROVE s[x + k] = inner[k]
    <3> DEFINE j == k + 1
    <3>1. j \in 1..Len(e) /\ p + j = x + k /\ e[j] = inner[k]
      BY <1>1, <1>2
    <3> HIDE DEF j, x
    <3>2. s[p + j] = e[j]
      BY <1>2, <3>1
    <3> QED
      BY <3>1, <3>2
  <2> QED
    BY <1>1, <1>2, <2>1, <2>2 DEF StandsAt, n
<1> QED
  BY <1>1, <1>2, <1>3, <1>4, <1>5, <1>6 DEF n

(* Words are no markup, and what is inside a cell, row or body never holds *)
(* the tags around it.                                                     *)
LEMMA MarkupApart ==
    /\ Words \cap (Tags \cup Entities \cup {"<", "&", Det} \cup Boxes \cup BadBoxes) = {}
    /\ (Words \cup CellMarkup) \cap {"<tr>", "</tr>"} = {}
    /\ (Words \cup CellMarkup \cup RowMarkup) \cap {"<table>", "<table border=1>", "</table>"} = {}
    /\ BodyTokens \cap {Det, DetEnd} = {}
  BY TagsAre DEF Words, CellMarkup, RowMarkup, TableMarkup, BodyTokens, Det, DetEnd

MeantCell(c) == [text |-> c.words, rowSpan |-> RowSpan(c.open)]

(* The cells parsed from a row that was written are the cells that were    *)
(* meant.                                                                  *)
LEMMA CellsAsMeant ==
    ASSUME NEW r \in Seq(CellsMeant)
    PROVE  Cells(RowContent(r)) = MeantRow(r)
<1> DEFINE n == Len(r)
           S == Words \cup CellMarkup
           C == {MeantCell(c) : c \in CellsMeant}
           seqs == [i \in DOMAIN r |-> WrittenCell(r[i])]
           row == RowContent(r)
           m == MeantRow(r)
           pieces == [i \in DOMAIN m |-> <<m[i]>>]
<1>1. n \in Nat /\ DOMAIN r = 1..n /\ \A i \in 1..n : r[i] \in CellsMeant
  BY LenProperties, ElementOfSeq
<1>2. seqs \in Seq(Seq(S)) /\ Len(seqs) = n /\ row \in Seq(S) /\ row = FlattenSeq(seqs)
  <2>1. Words \subseteq S /\ CellMarkup \subseteq S
    OBVIOUS
  <2> QED
    BY <2>1, RowContentType DEF RowContent
<1>2a. \A i \in 1..n : seqs[i] = WrittenCell(r[i])
  BY <1>1
<1>3. /\ m \in Seq(C) /\ Len(m) = n /\ DOMAIN m = 1..n
      /\ \A i \in 1..n : m[i] = MeantCell(r[i])
  <2>1. m = [i \in 1..n |-> MeantCell(r[i])]
    BY <1>1 DEF MeantRow, MeantCell
  <2>2. \A i \in 1..n : MeantCell(r[i]) \in C
    BY <1>1
  <2> HIDE DEF C, m, n
  <2>3. m \in [1..n -> C]
    BY <2>1, <2>2
  <2> QED
    BY <1>1, <2>1, <2>3, FcnIsSeq
<1> HIDE DEF n, seqs, m, C
<1>4. pieces \in Seq(Seq(C)) /\ Len(pieces) = n /\ \A i \in 1..n : pieces[i] = <<m[i]>>
  <2> DEFINE Q == Seq(C)
  <2>1. \A i \in 1..n : m[i] \in C
    BY <1>3, ElementOfSeq
  <2>2. \A i \in 1..n : <<m[i]>> \in Q
    BY <2>1
  <2>3. \A i \in 1..n : pieces[i] = <<m[i]>>
    BY <1>3
  <2> HIDE DEF Q
  <2>4. pieces \in [1..n -> Q]
    BY <1>3, <2>2
  <2> HIDE DEF pieces
  <2> QED
    BY <1>1, <2>3, <2>4, FcnIsSeq DEF Q
<1> HIDE DEF pieces
<1>5. PICK F \in [0..n -> Seq(S)] : ArePartsOf(F, seqs)
  BY <1>2, FlattenParts
<1>6. Len(row) \in Nat
  BY <1>2, LenProperties
<1>7. PICK f : Cells(row) = f[1] /\ CFrom(f, row)
  BY <1>6, CellsUnfold
<1> HIDE DEF row
<1> DEFINE g == [k \in 0..n |-> f[Len(F[k]) + 1]]
<1>8. ASSUME NEW k \in 1..n
      PROVE  f[Len(F[k - 1]) + 1] = pieces[k] \o f[Len(F[k]) + 1]
  <2> DEFINE c == r[k]
             p == Len(F[k - 1])
             w == c.words
             close == IF c.open = "<th>" THEN "</th>" ELSE "</td>"
             e == p + Len(w) + 2
             i == p + 1
  <2>1. c \in CellsMeant
    BY <1>1
  <2>2. /\ c.open \in {"<td>", "<td rowspan=2>", "<td rowspan=0>", "<th>"}
        /\ w \in Seq(Words) /\ w \in Seq(S) /\ c.open \in S /\ close \in S
    BY <2>1, CellForms, SeqMonotonic DEF CellMarkup
  <2>3. StandsAt(row, p, WrittenCell(c)) /\ Len(F[k]) = p + Len(WrittenCell(c))
    BY <1>2, <1>2a, <1>5, PiecesStand
  <2>4. WrittenCell(c) = Element(c.open, w, close)
    BY DEF WrittenCell
  <2>4a. ((c.open \in {"<td>", "<td rowspan=2>", "<td rowspan=0>"} /\ close \in {"</td>"})
          \/ (c.open \in {"<th>"} /\ close \in {"</th>"}))
    BY <2>2
  <2> DEFINE open == c.open
  <2>4b. open \in S /\ close \in S /\ w \in Seq(S) /\ WrittenCell(c) = Element(open, w, close)
    BY <2>2, <2>4
  <2> HIDE DEF p, w, c, close, open, S
  <2>4c. StandsAt(row, p, Element(open, w, close))
    BY <2>3, <2>4b
  <2>5. /\ Len(w) \in Nat /\ p \in Nat /\ p + Len(w) + 2 <= Len(row)
        /\ row[p + 1] = open /\ StandsAt(row, p + 1, w) /\ row[p + Len(w) + 2] = close
    BY <2>4b, <2>4c, ElementStands
  <2>6. Len(F[k]) = e
    <3>1. Len(WrittenCell(c)) = Len(w) + 2
      BY <2>4b, ElementFacts
    <3> QED
      BY <2>3, <2>5, <3>1
  <2>7. i \in 1..Len(row) /\ e \in (i + 1)..Len(row) /\ i \in 1..(Len(row) + 1)
    BY <1>6, <2>5
  <2>8. \A l \in (i + 1)..(e - 1) : row[l] \notin {"</td>", "</th>"}
    <3> SUFFICES ASSUME NEW l \in (i + 1)..(e - 1) PROVE row[l] \notin {"</td>", "</th>"}
      OBVIOUS
    <3> DEFINE j == l - i
    <3>1. j \in 1..Len(w) /\ p + 1 + j = l
      BY <2>5
    <3> HIDE DEF j
    <3>2. row[p + 1 + j] = w[j] /\ w[j] \in Words
      BY <2>2, <2>5, <3>1, ElementOfSeq DEF StandsAt
    <3> QED
      BY <3>1, <3>2, TagsAre, MarkupApart
  <2>9. row[i] = c.open /\ row[e] = close
    BY <2>5 DEF open
  <2>10. SubSeq(row, i + 1, e - 1) = w
    <3> DEFINE q == p + 1
    <3>1. StandsAt(row, q, w) /\ q + 1 = i + 1 /\ q + Len(w) = e - 1
      BY <2>5
    <3> HIDE DEF q, i, e
    <3>2. SubSeq(row, q + 1, q + Len(w)) = w
      BY <1>2, <2>2, <3>1, PartStands
    <3> QED
      BY <3>1, <3>2
  <2> HIDE DEF i, e
  <2>11. ~COver(row, i) /\ CStart(row, i) = i /\ CEnd(row, i) = e
    <3>1. CellStands(row, i, e)
      <4>1. \A l \in (i + 1)..(e - 1) : row[l] \notin {"</td>"} /\ row[l] \notin {"</th>"}
        BY <2>8
      <4>2. \/ row[i] \in {"<td>", "<td rowspan=2>", "<td rowspan=0>"} /\ row[e] \in {"</td>"}
            \/ row[i] \in {"<th>"} /\ row[e] \in {"</th>"}
        BY <2>4a, <2>9
      <4> QED
        BY <4>1, <4>2 DEF CellStands
    <3> QED
      BY <1>6, <2>7, <3>1, CellAt
  <2>12. CellText(w) = w
    <3>1. \A l \in 1..Len(w) : w[l] \in Words
      BY <2>2, ElementOfSeq
    <3>2. \A l \in 1..Len(w) : w[l] \notin Tags \cup Entities \cup {"<", "&"}
      BY <3>1, MarkupApart
    <3> QED
      BY <2>2, <3>2, PlainCellText
  <2>13. CFound(row, i) = m[k]
    <3>1. m[k] = [text |-> w, rowSpan |-> RowSpan(c.open)]
      BY <1>3 DEF MeantCell, c, w
    <3> QED
      BY <2>9, <2>10, <2>11, <2>12, <3>1 DEF CFound
  <2>14. f[i] = <<m[k]>> \o f[e + 1]
    BY <1>7, <2>7, <2>11, <2>13 DEF CFrom
  <2> QED
    BY <1>4, <2>6, <2>14 DEF i, p
<1>9. IsChain(g, pieces)
  <2>1. \A k \in 1..n : k - 1 \in 0..n /\ k \in 0..n
    BY <1>1
  <2>2. \A k \in 1..n : g[k - 1] = f[Len(F[k - 1]) + 1] /\ g[k] = f[Len(F[k]) + 1]
    BY <2>1
  <2> HIDE DEF g
  <2> QED
    BY <1>4, <1>8, <2>2 DEF IsChain
<1>10. g[0] = f[1]
  <2>1. 0 \in 0..n /\ F[0] = <<>> /\ Len(<<>>) + 1 = 1
    BY <1>1, <1>5 DEF ArePartsOf
  <2> QED
    BY <2>1
<1>11. g[n] = <<>>
  <2>1. n \in 0..n /\ F[n] = row
    BY <1>1, <1>2, <1>5 DEF ArePartsOf
  <2> DEFINE z == Len(row) + 1
  <2>2. z \in Nat \ {0} /\ z \in 1..(Len(row) + 1) /\ \A l \in z..Len(row) : FALSE
    BY <1>6
  <2>3. FindOpen(row, "td", z) = None /\ FindOpen(row, "th", z) = None
    <3>1. \A X : FirstIn(row, X, z) = None
      BY <1>6, <2>2, FirstInNone
    <3> QED
      BY <3>1, OpensAs, ZenonT(30)
  <2>4. CStart(row, z) = None
    BY <1>6, <2>2, <2>3, CTagIs
  <2>5. f[z] = <<>>
    BY <1>7, <2>2, <2>4 DEF CFrom, COver
  <2>6. g[n] = f[z]
    BY <2>1
  <2> QED
    BY <2>5, <2>6
<1> HIDE DEF g
<1>12. f[1] = FlattenSeq(pieces)
  BY <1>4, <1>9, <1>10, <1>11, ChainEnds
<1>13. FlattenSeq(pieces) = m
  BY <1>3, FlattenSingles DEF pieces
<1> QED
  BY <1>7, <1>12, <1>13 DEF row, m

(***************************************************************************)
(* The rows of a table                                                     *)
(***************************************************************************)
MeantPiece(r) == IF r = <<>> THEN <<>> ELSE <<MeantRow(r)>>

(* Where a row stands, the loop finds its cells and goes on behind it. *)
LEMMA RowAt ==
    ASSUME NEW T, NEW html \in Seq(T), NEW tableEnd \in Nat, NEW f, RFrom(f, html, tableEnd),
           NEW r \in Seq(CellsMeant), NEW p, StandsAt(html, p, WrittenRow(r)),
           p + Len(WrittenRow(r)) <= tableEnd
    PROVE  f[p + 1] = MeantPiece(r) \o f[p + Len(WrittenRow(r)) + 1]
<1> DEFINE S == Words \cup CellMarkup \cup {"<tr>", "</tr>"}
           w == RowContent(r)
           i == p + 1
           e == p + Len(w) + 2
           open == "<tr>"
           close == "</tr>"
<1>1. w \in Seq(S) /\ open \in S /\ close \in S /\ \A k \in 1..Len(w) : w[k] \in Words \cup CellMarkup
  <2>1. w \in Seq(Words \cup CellMarkup)
    BY RowContentType
  <2> QED
    BY <2>1, ElementOfSeq, SeqMonotonic
<1>2. WrittenRow(r) = Element(open, w, close)
  BY WrittenParts
<1>3. StandsAt(html, p, Element(open, w, close))
  BY <1>2
<1> HIDE DEF S, w, open, close
<1>4. /\ Len(w) \in Nat /\ p \in Nat /\ Len(html) \in Nat /\ p + Len(w) + 2 <= Len(html)
      /\ html[p + 1] = open /\ StandsAt(html, p + 1, w) /\ html[p + Len(w) + 2] = close
  BY <1>1, <1>3, ElementStands
<1>5. Len(WrittenRow(r)) = Len(w) + 2
  BY <1>1, <1>2, ElementFacts
<1>6. /\ i \in 1..(Len(html) + 1) /\ i \in i..Len(html) /\ i \in Nat \ {0} /\ i + 1 \in Nat \ {0}
      /\ e \in (i + 1)..Len(html) /\ e \in Nat /\ i # None /\ e # None /\ i < tableEnd /\ e <= tableEnd
      /\ html[i] = open /\ html[e] = close
  BY <1>4, <1>5 DEF None
<1>7. RStart(html, i) = i
  <2>1. \A l \in i..(i - 1) : html[l] \notin {open}
    BY <1>6
  <2>2. FirstIn(html, {open}, i) = i
    BY <1>4, <1>6, <2>1, FirstInIs
  <2> QED
    BY <2>2, OpensAs DEF RStart, open
<1>8. REnd(html, i) = e
  <2>1. \A l \in (i + 1)..(e - 1) : html[l] \notin {close}
    <3> SUFFICES ASSUME NEW l \in (i + 1)..(e - 1) PROVE html[l] \notin {close}
      OBVIOUS
    <3> DEFINE j == l - i
    <3>1. j \in 1..Len(w) /\ p + 1 + j = l
      BY <1>4
    <3> HIDE DEF j
    <3>2. html[p + 1 + j] = w[j] /\ w[j] \in Words \cup CellMarkup
      BY <1>1, <1>4, <3>1 DEF StandsAt
    <3> QED
      BY <3>1, <3>2, MarkupApart DEF close
  <2>2. FirstIn(html, {close}, i + 1) = e
    BY <1>4, <1>6, <2>1, FirstInIs
  <2>3. \A k : FindClose(html, "tr", k) = FirstIn(html, {close}, k)
    BY OpensAs DEF close
  <2> HIDE DEF i, e
  <2> QED
    BY <1>7, <2>2, <2>3 DEF REnd
<1>9. SubSeq(html, i + 1, e - 1) = w
  <2> DEFINE q == p + 1
  <2>1. StandsAt(html, q, w) /\ q + 1 = i + 1 /\ q + Len(w) = e - 1
    BY <1>4
  <2> HIDE DEF q, i, e
  <2>2. SubSeq(html, q + 1, q + Len(w)) = w
    BY <1>1, <2>1, PartStands
  <2> QED
    BY <2>1, <2>2
<1> HIDE DEF i, e
<1>10. RCells(html, i) = MeantRow(r)
  <2>1. RCells(html, i) = Cells(w)
    BY <1>7, <1>8, <1>9 DEF RCells
  <2> QED
    BY <2>1, CellsAsMeant DEF w
<1>11. MeantRow(r) = <<>> <=> r = <<>>
  <2> DEFINE m == MeantRow(r)
             R == {MeantCell(c) : c \in CellsMeant}
  <2>1. Len(r) \in Nat /\ DOMAIN r = 1..Len(r) /\ \A k \in 1..Len(r) : r[k] \in CellsMeant
    BY LenProperties, ElementOfSeq
  <2>2. m = [k \in 1..Len(r) |-> MeantCell(r[k])]
    BY <2>1 DEF MeantRow, MeantCell
  <2>3. \A k \in 1..Len(r) : MeantCell(r[k]) \in R
    BY <2>1
  <2> HIDE DEF m, R
  <2>4. m \in [1..Len(r) -> R]
    BY <2>2, <2>3
  <2>5. m \in Seq(R) /\ Len(m) = Len(r)
    BY <2>1, <2>4, FcnIsSeq
  <2>6. m = <<>> <=> Len(m) = 0
    BY <2>5, EmptySeq
  <2>7. r = <<>> <=> Len(r) = 0
    BY EmptySeq
  <2> QED
    BY <2>5, <2>6, <2>7 DEF m
<1>12. RPiece(html, i) = MeantPiece(r)
  BY <1>10, <1>11 DEF RPiece, MeantPiece
<1>13. ~ROver(html, tableEnd, i)
  <2>1. RStart(html, i) # None /\ ~(RStart(html, i) >= tableEnd)
    BY <1>6, <1>7
  <2>2. REnd(html, i) # None /\ ~(REnd(html, i) > tableEnd)
    BY <1>6, <1>8
  <2> QED
    BY <2>1, <2>2 DEF ROver
<1>14. f[i] = MeantPiece(r) \o f[e + 1]
  BY <1>6, <1>8, <1>12, <1>13 DEF RFrom
<1>15. p + Len(WrittenRow(r)) + 1 = e + 1
  BY <1>4, <1>5 DEF e
<1> QED
  BY <1>14, <1>15 DEF i

(* Where the rows of a written table stand: row k stands after P[k] and    *)
(* ends at E[k].                                                           *)
AreRowPlaces(P, E, rs) ==
    LET html == WrittenTable(rs)
        n    == Len(rs)
    IN  /\ E[0] = 1
        /\ \A k \in 1..n : /\ P[k] \in Nat /\ E[k] \in Nat /\ E[k] = P[k] + Len(WrittenRow(rs[k]))
                           /\ E[k - 1] \in Nat /\ E[k - 1] <= P[k] /\ P[k] < E[k] /\ E[k] < Len(html)
                           /\ StandsAt(html, P[k], WrittenRow(rs[k]))
                           /\ \A l \in (E[k - 1] + 1)..P[k] : html[l] # "<tr>" /\ html[l] # "</tr>"
        /\ \A l \in (E[n] + 1)..Len(html) : html[l] # "<tr>" /\ html[l] # "</tr>"

(* Every row of a table that was written stands at a place, with no row    *)
(* tag between.                                                            *)
LEMMA TableLayout ==
    ASSUME NEW rs \in Seq(Seq(CellsMeant)), rs # <<>>
    PROVE  \E P, E : AreRowPlaces(P, E, rs)
<1> DEFINE html == WrittenTable(rs)
           n == Len(rs)
           S == Words \cup CellMarkup \cup RowMarkup
           U == S \cup TableMarkup
           content == TableContent(rs)
           head == TableHead(rs)
           headRow == WrittenRow(Head(rs))
           rest == RestRows(rs)
           open == "<table border=1>"
           close == "</table>"
           hopen == "<thead>"
           hclose == "</thead>"
<1>1. /\ n \in Nat /\ n - 1 \in Nat /\ n >= 1 /\ \A k \in 1..n : rs[k] \in Seq(CellsMeant)
      /\ rest \in Seq(Seq(S)) /\ Len(rest) = n - 1 /\ head \in Seq(S) /\ FlattenSeq(rest) \in Seq(S)
      /\ content \in Seq(S) /\ content \in Seq(U)
  <2>1. Words \subseteq S /\ CellMarkup \subseteq S /\ RowMarkup \subseteq S
    OBVIOUS
  <2>2. /\ rest \in Seq(Seq(S)) /\ Len(rest) = n - 1 /\ n - 1 \in Nat /\ head \in Seq(S)
        /\ FlattenSeq(rest) \in Seq(S) /\ content \in Seq(S)
    BY <2>1, TableContentType
  <2>3. n \in Nat /\ \A k \in 1..n : rs[k] \in Seq(CellsMeant)
    BY LenProperties, ElementOfSeq
  <2>4. content \in Seq(U)
    BY <2>2, SeqMonotonic
  <2> HIDE DEF content, head, rest, n, S, U
  <2> QED
    BY <2>2, <2>3, <2>4
<1>2. Head(rs) = rs[1] /\ rs[1] \in Seq(CellsMeant) /\ headRow \in Seq(S)
  <2>1. Head(rs) = rs[1]
    OBVIOUS
  <2>2. 1 \in 1..n
    BY <1>1
  <2>3. rs[1] \in Seq(CellsMeant)
    BY <1>1, <2>2
  <2> QED
    BY <2>1, <2>3, WrittenRowType
<1>3. /\ open \in U /\ close \in U /\ hopen \in S /\ hclose \in S
      /\ html = Element(open, content, close)
      /\ content = head \o FlattenSeq(rest) /\ head = Element(hopen, headRow, hclose)
  <2>1. open \in U /\ close \in U /\ hopen \in S /\ hclose \in S
    BY DEF TableMarkup, RowMarkup
  <2>2. html = Element(open, content, close)
    BY WrittenParts
  <2>3. content = head \o FlattenSeq(rest)
    BY DEF TableContent
  <2>4. head = Element(hopen, headRow, hclose)
    BY DEF TableHead
  <2> QED
    BY <2>1, <2>2, <2>3, <2>4
<1>4. \A k \in 1..(n - 1) : rest[k] = WrittenRow(rs[k + 1])
  BY DEF RestRows
<1>5. PICK F \in [0..Len(rest) -> Seq(S)] : ArePartsOf(F, rest)
  BY <1>1, FlattenParts
<1>6. html \in Seq(U) /\ Len(html) = Len(content) + 2 /\ StandsAt(html, 0, html) /\ Len(html) \in Nat
  <2>0. content \in Seq(U) /\ open \in U /\ close \in U
    BY <1>1, <1>3
  <2> HIDE DEF content, open, close, html, U
  <2>0a. /\ Element(open, content, close) \in Seq(U)
         /\ Len(Element(open, content, close)) = Len(content) + 2
    BY <2>0, ElementFacts
  <2>1. html \in Seq(U) /\ Len(html) = Len(content) + 2
    BY <1>3, <2>0a
  <2>2. Len(html) \in Nat
    BY <2>1, LenProperties
  <2>3. \A k \in 1..Len(html) : html[0 + k] = html[k]
    <3>1. \A k \in 1..Len(html) : 0 + k = k
      BY <2>2
    <3> QED
      BY <3>1
  <2> QED
    BY <2>1, <2>2, <2>3 DEF StandsAt
<1> HIDE DEF n, S, U, content, head, headRow, rest, open, close, hopen, hclose, html
<1>7. /\ StandsAt(html, 1, content) /\ html[Len(content) + 2] = close /\ Len(content) \in Nat
  <2>0. content \in Seq(U) /\ open \in U /\ close \in U
    BY <1>1, <1>3
  <2>1. StandsAt(html, 0, Element(open, content, close))
    BY <1>3, <1>6
  <2>2. /\ Len(content) \in Nat /\ StandsAt(html, 0 + 1, content) /\ html[0 + Len(content) + 2] = close
    BY <2>0, <2>1, ElementStands
  <2>3. 0 + 1 = 1 /\ 0 + Len(content) + 2 = Len(content) + 2
    BY <2>2
  <2> QED
    BY <2>2, <2>3
<1> DEFINE b == 1 + Len(head)
           r == FlattenSeq(rest)
<1>8. /\ StandsAt(html, 1, head) /\ StandsAt(html, b, r) /\ Len(head) \in Nat
      /\ Len(content) = Len(head) + Len(r) /\ Len(r) \in Nat
  <2>1. head \in Seq(S) /\ r \in Seq(S) /\ content = head \o r /\ StandsAt(html, 1, content)
    BY <1>1, <1>3, <1>7
  <2> HIDE DEF r
  <2>2. /\ StandsAt(html, 1, head) /\ StandsAt(html, 1 + Len(head), r)
        /\ Len(head) \in Nat /\ Len(r) \in Nat /\ Len(content) = Len(head) + Len(r)
    <3>1. IsConcat(content, head, r)
      BY <2>1 DEF IsConcat
    <3> QED
      BY <2>1, <3>1, ConcatStands
  <2> QED
    BY <2>2
<1>9. /\ html[2] = hopen /\ StandsAt(html, 2, headRow) /\ Len(headRow) \in Nat
      /\ Len(head) = Len(headRow) + 2 /\ html[2 + Len(headRow) + 1] = hclose
  <2>1. StandsAt(html, 1, Element(hopen, headRow, hclose))
    BY <1>3, <1>8
  <2>2. /\ Len(headRow) \in Nat /\ html[1 + 1] = hopen /\ StandsAt(html, 1 + 1, headRow)
        /\ html[1 + Len(headRow) + 2] = hclose
    <3>1. headRow \in Seq(S) /\ hopen \in S /\ hclose \in S
      BY <1>2, <1>3
    <3> QED
      BY <2>1, <3>1, ElementStands
  <2>3. Len(head) = Len(headRow) + 2
    BY <1>2, <1>3, ElementFacts
  <2>4. 1 + 1 = 2 /\ 1 + Len(headRow) + 2 = 2 + Len(headRow) + 1
    BY <2>2
  <2> QED
    BY <2>2, <2>3, <2>4
<1> DEFINE Pl(k) == IF k = 1 THEN 2 ELSE b + Len(F[k - 2])
           En(k) == IF k = 0 THEN 1 ELSE IF k = 1 THEN 2 + Len(headRow) ELSE b + Len(F[k - 1])
           P == [k \in 1..n |-> Pl(k)]
           E == [k \in 0..n |-> En(k)]
<1>10. ASSUME NEW k \in 2..n
       PROVE  /\ StandsAt(html, Pl(k), WrittenRow(rs[k])) /\ Pl(k) \in Nat /\ En(k) \in Nat
              /\ En(k) = Pl(k) + Len(WrittenRow(rs[k])) /\ Len(WrittenRow(rs[k])) \in Nat
              /\ En(k) < Len(html)
  <2> DEFINE j == k - 1
  <2>1. j \in 1..Len(rest) /\ j - 1 = k - 2 /\ j + 1 = k /\ k # 1 /\ k # 0 /\ j \in 1..(n - 1)
    BY <1>1
  <2> HIDE DEF j, r
  <2>2. /\ StandsAt(r, Len(F[j - 1]), rest[j]) /\ Len(F[j]) = Len(F[j - 1]) + Len(rest[j])
        /\ Len(F[j - 1]) \in Nat /\ Len(rest[j]) \in Nat
    BY <1>1, <1>5, <2>1, PiecesStand DEF r
  <2>3. rest[j] = WrittenRow(rs[k])
    BY <1>4, <2>1
  <2>4. StandsAt(html, b + Len(F[j - 1]), rest[j])
    BY <1>8, <2>2, StandsIn
  <2>5. Pl(k) = b + Len(F[j - 1]) /\ En(k) = b + Len(F[j])
    BY <2>1 DEF j
  <2>6. b \in Nat /\ b + Len(r) + 1 = Len(html) /\ Len(F[j]) \in Nat
    <3> DEFINE x == Len(F[j])
               y == Len(F[j - 1])
               z == Len(rest[j])
    <3>1. x = y + z /\ y \in Nat /\ z \in Nat
      BY <2>2
    <3> HIDE DEF x, y, z
    <3>2. x \in Nat
      BY <3>1
    <3> QED
      BY <1>6, <1>8, <3>2 DEF x
  <2>7. Len(F[j]) <= Len(r)
    <3>1. j \in 0..Len(rest) /\ Len(rest) \in 0..Len(rest) /\ j \in 0..Len(rest)
      BY <1>1, <2>1
    <3> QED
      BY <1>5, <3>1 DEF ArePartsOf, r
  <2> DEFINE x == Len(F[j])
             y == Len(F[j - 1])
             z == Len(rest[j])
  <2> HIDE DEF b, x, y, z
  <2>8. b + x < Len(html) /\ b + x \in Nat /\ b + y \in Nat /\ b + x = b + y + z
    <3>1. x = y + z /\ y \in Nat /\ z \in Nat /\ x <= Len(r)
      BY <2>2, <2>7 DEF x, y, z
    <3> QED
      BY <1>6, <1>8, <2>6, <3>1
  <2> HIDE DEF Pl, En
  <2> QED
    BY <2>2, <2>3, <2>4, <2>5, <2>8 DEF x, y, z
<1>11. "<thead>" # "<tr>" /\ "<thead>" # "</tr>" /\ "</thead>" # "<tr>" /\ "</thead>" # "</tr>"
       /\ "</table>" # "<tr>" /\ "</table>" # "</tr>"
  OBVIOUS
<1>12. b \in Nat /\ b = 2 + Len(headRow) + 1 /\ Len(html) = b + Len(r) + 1 /\ F[0] = <<>> /\ Len(F[0]) = 0
  <2>1. F[0] = <<>>
    BY <1>5 DEF ArePartsOf
  <2> HIDE DEF r
  <2> QED
    BY <1>6, <1>8, <1>9, <2>1
<1>13. ASSUME NEW k \in 1..n
       PROVE  /\ P[k] \in Nat /\ E[k] \in Nat /\ E[k] = P[k] + Len(WrittenRow(rs[k]))
              /\ E[k - 1] \in Nat /\ E[k - 1] <= P[k] /\ P[k] < E[k] /\ E[k] < Len(html)
              /\ StandsAt(html, P[k], WrittenRow(rs[k]))
              /\ \A l \in (E[k - 1] + 1)..P[k] : html[l] # "<tr>" /\ html[l] # "</tr>"
  <2>0. P[k] = Pl(k) /\ E[k] = En(k) /\ E[k - 1] = En(k - 1)
    <3>1. k \in 0..n /\ k - 1 \in 0..n
      BY <1>1
    <3> QED
      BY <3>1
  <2>0a. Len(WrittenRow(rs[k])) > 0
    <3>1. RowContent(rs[k]) \in Seq(S) /\ "<tr>" \in S /\ "</tr>" \in S
      BY <1>1, RowContentType DEF S, RowMarkup
    <3>2. Len(WrittenRow(rs[k])) = Len(RowContent(rs[k])) + 2
      <4> DEFINE x == RowContent(rs[k])
                 o == "<tr>"
                 c == "</tr>"
      <4>1. x \in Seq(S) /\ o \in S /\ c \in S /\ WrittenRow(rs[k]) = Element(o, x, c)
        BY <3>1, WrittenParts
      <4> HIDE DEF x, o, c
      <4>2. Len(Element(o, x, c)) = Len(x) + 2
        BY <4>1, ElementFacts
      <4> QED
        BY <4>1, <4>2 DEF x
    <3> QED
      BY <3>1, <3>2, LenProperties
  <2>1. CASE k = 1
    <3>1. P[k] = 2 /\ E[k] = 2 + Len(headRow) /\ E[k - 1] = 1 /\ headRow = WrittenRow(rs[k])
      <4>1. k - 1 = 0 /\ Pl(k) = 2 /\ En(k) = 2 + Len(headRow) /\ En(k - 1) = 1
        BY <2>1
      <4> HIDE DEF Pl, En, P, E
      <4> QED
        BY <1>2, <2>0, <2>1, <4>1 DEF headRow
    <3>2. \A l \in (1 + 1)..2 : l = 2
      OBVIOUS
    <3>3. 2 + Len(headRow) < Len(html)
      <4> HIDE DEF r, b
      <4> QED
        BY <1>8, <1>9, <1>12
    <3> HIDE DEF P, E, r, b
    <3>4. P[k] \in Nat /\ E[k] \in Nat /\ E[k - 1] \in Nat /\ E[k - 1] <= P[k] /\ P[k] < E[k] /\ E[k] < Len(html)
          /\ E[k] = P[k] + Len(WrittenRow(rs[k]))
      BY <1>9, <2>0a, <3>1, <3>3
    <3>5. StandsAt(html, P[k], WrittenRow(rs[k]))
      BY <1>9, <3>1
    <3>6. \A l \in (E[k - 1] + 1)..P[k] : html[l] # "<tr>" /\ html[l] # "</tr>"
      BY <1>9, <1>11, <3>1, <3>2 DEF hopen
    <3> QED
      BY <3>4, <3>5, <3>6
  <2>2. CASE k # 1
    <3>1. k \in 2..n
      BY <2>2
    <3>2. /\ StandsAt(html, Pl(k), WrittenRow(rs[k])) /\ Pl(k) \in Nat /\ En(k) \in Nat
          /\ En(k) = Pl(k) + Len(WrittenRow(rs[k])) /\ Len(WrittenRow(rs[k])) \in Nat
          /\ En(k) < Len(html)
      BY <1>10, <3>1
    <3>3. CASE k = 2
      <4>1. En(k - 1) = 2 + Len(headRow) /\ Pl(k) = b + Len(F[0])
        BY <3>3
      <4>2. Pl(k) = En(k - 1) + 1 /\ En(k - 1) \in Nat
        <5> HIDE DEF Pl, En, b
        <5> QED
          BY <1>9, <1>12, <4>1
      <4>3. \A l \in (En(k - 1) + 1)..Pl(k) : l = 2 + Len(headRow) + 1
        <5> HIDE DEF Pl, En, b
        <5> QED
          BY <1>9, <4>1, <4>2
      <4>4. \A l \in (En(k - 1) + 1)..Pl(k) : html[l] # "<tr>" /\ html[l] # "</tr>"
        <5> HIDE DEF Pl, En, b
        <5> QED
          BY <1>9, <1>11, <4>3 DEF hclose
      <4> HIDE DEF P, E, Pl, En
      <4> QED
        BY <2>0, <2>0a, <3>2, <4>2, <4>4
    <3>4. CASE k # 2
      <4>1. k - 1 # 0 /\ k - 1 # 1 /\ k - 1 - 1 = k - 2 /\ k - 1 \in 2..n
        BY <1>1, <3>1, <3>4
      <4>2. En(k - 1) = Pl(k)
        BY <2>2, <4>1
      <4>3. \A l \in (En(k - 1) + 1)..Pl(k) : FALSE
        <5> HIDE DEF Pl, En
        <5> QED
          BY <3>2, <4>2
      <4> HIDE DEF P, E, Pl, En
      <4> QED
        BY <2>0, <2>0a, <3>2, <4>2, <4>3
    <3> QED
      BY <3>3, <3>4
  <2> QED
    BY <2>1, <2>2
<1>14. E[0] = 1
  BY <1>1
<1>15. \A l \in (E[n] + 1)..Len(html) : html[l] # "<tr>" /\ html[l] # "</tr>"
  <2>0. E[n] = En(n) /\ n # 0
    BY <1>1
  <2>1. html[Len(html)] = close
    BY <1>6, <1>7
  <2>2. CASE n = 1
    <3>1. Len(r) = 0
      <4>1. FlattenSeq(rest) = F[0]
        <5>1. Len(rest) = 0
          BY <1>1, <2>2
        <5> QED
          BY <1>5, <5>1 DEF ArePartsOf
      <4> QED
        BY <1>12, <4>1
    <3>2. En(n) = 2 + Len(headRow)
      BY <2>2
    <3> HIDE DEF E, En, r, b
    <3>3. \A l \in (E[n] + 1)..Len(html) : l = 2 + Len(headRow) + 1 \/ l = Len(html)
      BY <1>9, <1>12, <2>0, <3>1, <3>2
    <3> QED
      BY <1>9, <1>11, <2>1, <3>3 DEF hclose, close
  <2>3. CASE n # 1
    <3>1. En(n) = b + Len(F[n - 1])
      BY <1>1, <2>3
    <3>2. F[n - 1] = r
      BY <1>1, <1>5 DEF ArePartsOf
    <3> HIDE DEF E, En, r, b
    <3>3. \A l \in (E[n] + 1)..Len(html) : l = Len(html)
      BY <1>8, <1>12, <2>0, <3>1, <3>2
    <3> QED
      BY <1>11, <2>1, <3>3 DEF close
  <2> QED
    BY <2>2, <2>3
<1> HIDE DEF P, E
<1>16. AreRowPlaces(P, E, rs)
  BY <1>13, <1>14, <1>15 DEF AreRowPlaces, html, n
<1> QED
  BY <1>16

(* The places of the rows are in order. *)
LEMMA PlacesOrdered ==
    ASSUME NEW rs, Len(rs) \in Nat, NEW P, NEW E, AreRowPlaces(P, E, rs), NEW m \in 0..Len(rs)
    PROVE  /\ E[m] \in Nat /\ E[m] >= 1
           /\ \A k \in 0..m : E[k] <= E[m] /\ E[k] \in Nat /\ E[k] >= 1
<1> DEFINE n == Len(rs)
           T == {k \in 0..n : E[k] \in Nat /\ E[k] >= 1 /\ \A j \in 0..k : E[j] <= E[k] /\ E[j] \in Nat /\ E[j] >= 1}
<1>1. ASSUME NEW k \in 0..n, \A j \in 0..(k - 1) : j \in T
      PROVE  k \in T
  <2>1. CASE k = 0
    <3>1. E[k] = 1
      BY <2>1 DEF AreRowPlaces
    <3>2. \A j \in 0..k : j = k
      BY <2>1
    <3> QED
      BY <3>1, <3>2
  <2>2. CASE k # 0
    <3>1. k \in 1..n /\ k - 1 \in 0..(k - 1)
      BY <2>2
    <3>2. k - 1 \in T
      BY <1>1, <3>1
    <3>3. P[k] \in Nat /\ E[k] \in Nat /\ E[k - 1] <= P[k] /\ P[k] < E[k] /\ E[k - 1] \in Nat
      BY <3>1 DEF AreRowPlaces
    <3>4. E[k - 1] < E[k] /\ E[k - 1] >= 1
      BY <3>2, <3>3
    <3>5. \A j \in 0..k : j = k \/ j \in 0..(k - 1)
      OBVIOUS
    <3>6. \A j \in 0..(k - 1) : E[j] <= E[k - 1] /\ E[j] \in Nat /\ E[j] >= 1
      BY <3>2
    <3> QED
      BY <3>3, <3>4, <3>5, <3>6
  <2> QED
    BY <2>1, <2>2
<1> HIDE DEF T
<1>2. \A k \in 0..n : k \in T
  BY <1>1, UpTo
<1> QED
  BY <1>2 DEF T

ShowsFirst(m, f, rs, E) == f[2] = MeantRows(SubSeq(rs, 1, m)) \o f[E[m] + 1]

PiecesIn(S, rs, m) == \A k \in 1..m : MeantPiece(rs[k]) \in Seq(S)

(* The rows of what begins as a written table does                         *)
LEMMA RowsShown ==
    ASSUME NEW rs \in Seq(Seq(CellsMeant)), NEW P, NEW E, AreRowPlaces(P, E, rs),
           NEW T, NEW html \in Seq(T), NEW c, AgreeUpTo(c, html, WrittenTable(rs)),
           NEW tableEnd \in Nat, NEW f, RFrom(f, html, tableEnd),
           NEW m \in 0..Len(rs), E[m] <= c, E[m] <= tableEnd,
           NEW S, f[E[m] + 1] \in Seq(S), PiecesIn(S, rs, m)
    PROVE  ShowsFirst(m, f, rs, E)
<1> DEFINE n == Len(rs)
           whole == WrittenTable(rs)
           Q == Seq(S)
           seqs == [k \in 1..m |-> MeantPiece(rs[k])]
           g == [k \in 0..m |-> f[E[k] + 1]]
<1>1. /\ n \in Nat /\ m \in Nat /\ m <= n /\ Len(html) \in Nat
      /\ \A k \in 1..n : rs[k] \in Seq(CellsMeant)
  BY LenProperties, ElementOfSeq
<1>2. /\ E[m] \in Nat /\ \A k \in 0..m : E[k] <= E[m] /\ E[k] \in Nat /\ E[k] >= 1
  BY <1>1, PlacesOrdered
<1>3. seqs \in Seq(Q) /\ Len(seqs) = m
  <2>1. seqs \in [1..m -> Q]
    BY DEF PiecesIn
  <2> HIDE DEF seqs, Q
  <2> QED
    BY <1>1, <2>1, FcnIsSeq
<1>4. ASSUME NEW k \in 1..m
      PROVE  f[E[k - 1] + 1] = MeantPiece(rs[k]) \o f[E[k] + 1]
  <2> DEFINE r == rs[k]
             p == P[k]
             w == WrittenRow(r)
             a == E[k - 1] + 1
             b == p + 1
  <2>1. /\ p \in Nat /\ E[k] \in Nat /\ E[k] = p + Len(w)
        /\ E[k - 1] \in Nat /\ E[k - 1] <= p /\ p < E[k]
        /\ StandsAt(whole, p, w)
        /\ \A l \in (E[k - 1] + 1)..p : whole[l] # "<tr>" /\ whole[l] # "</tr>"
    <3>1. k \in 1..n
      BY <1>1
    <3> QED
      BY <3>1 DEF AreRowPlaces
  <2>2. E[k] <= c /\ E[k] <= tableEnd /\ c \in Nat /\ c <= Len(html) /\ \A l \in 1..c : html[l] = whole[l]
    <3>0. AgreeUpTo(c, html, whole)
      OBVIOUS
    <3> HIDE DEF whole
    <3>1. k \in 0..m /\ c \in Nat /\ c <= Len(html) /\ \A l \in 1..c : html[l] = whole[l]
      BY <3>0 DEF AgreeUpTo
    <3>2. E[k] <= E[m] /\ E[m] \in Nat
      BY <1>2, <3>1
    <3> DEFINE x == E[k]
               y == E[m]
    <3>3. x <= y /\ y \in Nat /\ x \in Nat /\ y <= c /\ y <= tableEnd
      BY <2>1, <3>2
    <3> HIDE DEF x, y
    <3>4. x <= c /\ x <= tableEnd
      BY <3>1, <3>3
    <3> QED
      BY <3>1, <3>4 DEF x
  <2>3. r \in Seq(CellsMeant)
    BY <1>1
  <2> HIDE DEF r, p, w, whole
  <2>4. StandsAt(html, p, w)
    <3>1. AgreeUpTo(c, html, whole) /\ p + Len(w) <= c
      BY <2>1, <2>2 DEF whole
    <3> QED
      BY <1>1, <2>1, <3>1, AgreeStands
  <2>5. f[a] = f[b]
    <3>1. a \in 1..(Len(html) + 1) /\ b \in a..(Len(html) + 1)
      <4> DEFINE x == E[k]
                 y == E[k - 1]
      <4>1. x \in Nat /\ y \in Nat /\ y <= p /\ p < x /\ x <= c /\ a = y + 1 /\ p \in Nat
        BY <2>1, <2>2
      <4>2. c \in Nat /\ c <= Len(html) /\ Len(html) \in Nat
        BY <1>1, <2>2
      <4> HIDE DEF x, y, a
      <4> QED
        BY <4>1, <4>2
    <3>2. \A l \in a..(b - 1) : html[l] # "<tr>"
      <4> SUFFICES ASSUME NEW l \in a..(b - 1) PROVE html[l] # "<tr>"
        OBVIOUS
      <4>1. l \in (E[k - 1] + 1)..p /\ l \in 1..c
        BY <2>1, <2>2
      <4> QED
        BY <2>1, <2>2, <4>1
    <3> HIDE DEF a, b
    <3> QED
      BY <1>1, <3>1, <3>2, RSkips
  <2>6. f[p + 1] = MeantPiece(r) \o f[p + Len(w) + 1]
    <3>1. StandsAt(html, p, WrittenRow(r)) /\ p + Len(WrittenRow(r)) <= tableEnd
      BY <2>1, <2>2, <2>4 DEF w
    <3>2. f[p + 1] = MeantPiece(r) \o f[p + Len(WrittenRow(r)) + 1]
      BY <2>3, <3>1, RowAt
    <3> QED
      BY <3>2 DEF w
  <2>7. p + Len(w) + 1 = E[k] + 1
    BY <2>1
  <2> QED
    BY <2>5, <2>6, <2>7 DEF r
<1>5. IsChain(g, seqs)
  <2> SUFFICES ASSUME NEW k \in 1..m PROVE g[k - 1] = seqs[k] \o g[k]
    BY <1>3 DEF IsChain
  <2>1. k - 1 \in 0..m /\ k \in 0..m
    BY <1>1
  <2>2. g[k - 1] = f[E[k - 1] + 1] /\ g[k] = f[E[k] + 1] /\ seqs[k] = MeantPiece(rs[k])
    BY <2>1
  <2> HIDE DEF g, seqs
  <2> QED
    BY <1>4, <2>2
<1>6. g[m] = f[E[m] + 1] /\ g[0] = f[E[0] + 1] /\ E[0] + 1 = 2
  <2>1. m \in 0..m /\ 0 \in 0..m /\ E[0] = 1
    BY <1>1 DEF AreRowPlaces
  <2> QED
    BY <2>1
<1>7. FlattenSeq(seqs) = MeantRows(SubSeq(rs, 1, m))
  <2> DEFINE u == SubSeq(rs, 1, m)
  <2>1. u \in Seq(Seq(CellsMeant)) /\ Len(u) = m /\ \A k \in 1..m : u[k] = rs[k]
    <3> DEFINE U == Seq(CellsMeant)
    <3>1. rs \in Seq(U) /\ m \in 0..Len(rs)
      OBVIOUS
    <3> HIDE DEF U
    <3> QED
      BY <3>1, BeginningOf DEF U
  <2>2. DOMAIN u = 1..m
    BY <2>1, LenProperties
  <2> HIDE DEF u
  <2>3. MeantRows(u) = FlattenSeq([k \in 1..m |-> MeantPiece(u[k])])
    BY <2>2 DEF MeantRows, MeantPiece
  <2>4. [k \in 1..m |-> MeantPiece(u[k])] = seqs
    BY <2>1
  <2> QED
    BY <2>3, <2>4 DEF u
<1> HIDE DEF g, seqs
<1>8. g[0] = FlattenSeq(seqs) \o g[Len(seqs)]
  <2>1. g[Len(seqs)] \in Seq(S)
    BY <1>3, <1>6
  <2> QED
    BY <1>3, <1>5, <2>1, ChainFlattens
<1> QED
  BY <1>3, <1>6, <1>7, <1>8 DEF ShowsFirst

(* A table starts and ends with its tags, which nothing inside it holds. *)
LEMMA TableFrame ==
    ASSUME NEW rs \in Seq(Seq(CellsMeant)), rs # <<>>
    PROVE  /\ WrittenTable(rs) \in Seq(BodyTokens)
           /\ Len(WrittenTable(rs)) \in Nat /\ Len(WrittenTable(rs)) >= 2
           /\ WrittenTable(rs)[1] = "<table border=1>"
           /\ WrittenTable(rs)[Len(WrittenTable(rs))] = "</table>"
           /\ \A l \in 2..(Len(WrittenTable(rs)) - 1) :
                 WrittenTable(rs)[l] \in Words \cup CellMarkup \cup RowMarkup
<1> DEFINE html == WrittenTable(rs)
           S == Words \cup CellMarkup \cup RowMarkup
           U == BodyTokens
           content == TableContent(rs)
           open == "<table border=1>"
           close == "</table>"
<1>1. content \in Seq(S) /\ S \subseteq U /\ open \in U /\ close \in U
  BY TableContentType DEF BodyTokens, TableMarkup
<1>2. html = Element(open, content, close)
  BY WrittenParts
<1> HIDE DEF S, U, content, html, open, close
<1>3. content \in Seq(U) /\ Len(content) \in Nat /\ \A k \in 1..Len(content) : content[k] \in S
  BY <1>1, SeqMonotonic, ElementOfSeq, LenProperties
<1>4. /\ Element(open, content, close) \in Seq(U)
      /\ Len(Element(open, content, close)) = Len(content) + 2
      /\ Element(open, content, close)[1] = open
      /\ Element(open, content, close)[Len(content) + 2] = close
      /\ \A k \in 1..Len(content) : Element(open, content, close)[k + 1] = content[k]
  <2>1. content \in Seq(U) /\ open \in U /\ close \in U
    BY <1>1, <1>3
  <2> QED
    BY <2>1, ElementFacts
<1>5. \A l \in 2..(Len(html) - 1) : html[l] \in S
  <2> SUFFICES ASSUME NEW l \in 2..(Len(html) - 1) PROVE html[l] \in S
    OBVIOUS
  <2> DEFINE k == l - 1
  <2>1. k \in 1..Len(content) /\ k + 1 = l
    BY <1>2, <1>3, <1>4
  <2> HIDE DEF k
  <2>2. html[k + 1] = content[k]
    BY <1>2, <1>4, <2>1
  <2> QED
    BY <1>3, <2>1, <2>2
<1>6. Len(html) \in Nat /\ Len(html) >= 2
  BY <1>2, <1>3, <1>4
<1> QED
  BY <1>2, <1>4, <1>5, <1>6 DEF S, U, html, open, close

(* A written table is read as it was meant.                                *)
LEMMA TableAsMeant ==
    ASSUME NEW rs \in Seq(Seq(CellsMeant)), rs # <<>>
    PROVE  TableRows(WrittenTable(rs)) = MeantRows(rs)
<1> DEFINE html == WrittenTable(rs)
           L == Len(html)
           n == Len(rs)
           S == {MeantRow(r) : r \in Seq(CellsMeant)}
           opens == {"<table>", "<table border=1>"}
           closes == {"</table>"}
<1>1. /\ html \in Seq(BodyTokens) /\ L \in Nat /\ L >= 2 /\ html[1] \in opens /\ html[L] \in closes
      /\ \A l \in 2..(L - 1) : html[l] \in Words \cup CellMarkup \cup RowMarkup
  BY TableFrame
<1>2. n \in Nat /\ n \in 0..n /\ \A k \in 1..n : rs[k] \in Seq(CellsMeant)
  BY LenProperties, ElementOfSeq
<1>3. PICK P, E : AreRowPlaces(P, E, rs)
  BY TableLayout
<1> HIDE DEF html, S, opens, closes, L
<1>3a. L \in Nat /\ L >= 2 /\ Len(html) = L /\ Len(html) \in Nat
  BY <1>1 DEF L
<1>3b. /\ html \in Seq(BodyTokens) /\ html[1] \in opens /\ html[L] \in closes
       /\ \A l \in 2..(L - 1) : html[l] \in Words \cup CellMarkup \cup RowMarkup
  BY <1>1 DEF opens, closes, L
<1>4. TStart(html) = 1
  <2> DEFINE one == 1
  <2>1. /\ one \in one..Len(html) /\ \A l \in one..(one - 1) : html[l] \notin opens
        /\ one \in Nat \ {0} /\ Len(html) \in Nat /\ html[one] \in opens
    BY <1>3a, <1>3b
  <2> HIDE DEF one
  <2>2. FirstIn(html, opens, one) = one
    BY <2>1, FirstInIs
  <2> QED
    BY <2>2, OpensAs DEF TStart, opens, one
<1>5. TEnd(html) = L
  <2>1. \A l \in 2..(L - 1) : html[l] \notin closes
    BY <1>3b, MarkupApart DEF closes
  <2> DEFINE two == 2
  <2>2. /\ L \in two..Len(html) /\ two \in Nat \ {0} /\ Len(html) \in Nat /\ html[L] \in closes
        /\ \A l \in two..(L - 1) : html[l] \notin closes
    BY <1>3a, <1>3b, <2>1
  <2> HIDE DEF two
  <2>3. FirstIn(html, closes, two) = L
    BY <2>2, FirstInIs
  <2>4. FindClose(html, "table", 2) = L
    BY <2>3, OpensAs DEF closes, two
  <2>5. TEnd(html) = FindClose(html, "table", 2)
    <3>1. TStart(html) + 1 = 2
      BY <1>4
    <3> QED
      BY <3>1 DEF TEnd
  <2> QED
    BY <2>4, <2>5
<1>5a. Len(html) \in Nat
  BY <1>3a
<1>6. PICK f : RFrom(f, html, L) /\ \A i : RowsFrom(html, i, L) = f[i]
  BY <1>5a, RowsUnfold
<1>7. TableRows(html) = f[2]
  <2>1. L # None /\ 1 # None
    BY <1>3a DEF None
  <2>2. TableRows(html) = RowsFrom(html, 1 + 1, L)
    BY <1>4, <1>5, <2>1 DEF TableRows, TStart, TEnd
  <2> QED
    BY <1>6, <2>2
<1>8. E[n] \in Nat /\ E[n] < L /\ E[n] >= 1
  <2>1. E[n] \in Nat /\ E[n] >= 1
    BY <1>2, <1>3, PlacesOrdered
  <2>2. E[n] < L
    <3>1. CASE n = 0
      BY <1>3, <1>3a, <3>1 DEF AreRowPlaces
    <3>2. CASE n # 0
      <4>1. n \in 1..n
        BY <1>2, <3>2
      <4> QED
        BY <1>3, <4>1 DEF AreRowPlaces, html, L
    <3> QED
      BY <3>1, <3>2
  <2> QED
    BY <2>1, <2>2
<1>9. f[E[n] + 1] = <<>>
  <2> DEFINE i == E[n] + 1
  <2>1. i \in 1..(L + 1) /\ i \in Nat \ {0}
    BY <1>3a, <1>8
  <2>2. \A l \in i..Len(html) : html[l] \notin {"<tr>"}
    BY <1>3 DEF AreRowPlaces, html
  <2> HIDE DEF i
  <2>3. FirstIn(html, {"<tr>"}, i) = None
    BY <1>3a, <2>1, <2>2, FirstInNone
  <2>4. RStart(html, i) = None
    BY <2>3, OpensAs DEF RStart
  <2>5. ROver(html, L, i)
    BY <2>4 DEF ROver
  <2> QED
    BY <1>3a, <1>6, <2>1, <2>5 DEF RFrom, i
<1>10. f[2] = MeantRows(SubSeq(rs, 1, n)) \o f[E[n] + 1]
  <2>1. AgreeUpTo(L, html, WrittenTable(rs))
    BY <1>3a DEF AgreeUpTo, html
  <2>2. PiecesIn(S, rs, n)
    <3>1. \A r \in Seq(CellsMeant) : MeantRow(r) \in S
      BY DEF S
    <3> HIDE DEF S
    <3>2. \A r \in Seq(CellsMeant) : MeantPiece(r) \in Seq(S)
      BY <3>1, EmptySeq DEF MeantPiece
    <3> QED
      BY <1>2, <3>2 DEF PiecesIn
  <2>3. E[n] <= L /\ f[E[n] + 1] \in Seq(S)
    <3>1. E[n] <= L
      BY <1>3a, <1>8
    <3>2. f[E[n] + 1] \in Seq(S)
      BY <1>9, EmptySeq
    <3> QED
      BY <3>1, <3>2
  <2>4. n \in 0..Len(rs) /\ L \in Nat /\ html \in Seq(BodyTokens) /\ RFrom(f, html, L)
    BY <1>2, <1>3a, <1>3b, <1>6
  <2> HIDE DEF n
  <2> DEFINE B == BodyTokens
  <2>5. /\ AreRowPlaces(P, E, rs) /\ html \in Seq(B) /\ AgreeUpTo(L, html, WrittenTable(rs))
        /\ L \in Nat /\ RFrom(f, html, L) /\ n \in 0..Len(rs) /\ E[n] <= L
        /\ f[E[n] + 1] \in Seq(S) /\ PiecesIn(S, rs, n)
    BY <1>3, <2>1, <2>2, <2>3, <2>4
  <2> HIDE DEF B
  <2>6. ShowsFirst(n, f, rs, E)
    BY <2>5, RowsShown
  <2> QED
    BY <2>6 DEF ShowsFirst
<1>11. SubSeq(rs, 1, n) = rs
  BY SubSeqFull
<1>12. MeantRows(rs) \o <<>> = MeantRows(rs)
  <2> DEFINE seqs == [i \in DOMAIN rs |-> IF rs[i] = <<>> THEN <<>> ELSE <<MeantRow(rs[i])>>]
             Q == Seq(S)
  <2>1. DOMAIN rs = 1..n
    BY LenProperties
  <2>2. \A k \in 1..n : seqs[k] \in Q
    <3>1. \A r \in Seq(CellsMeant) : MeantRow(r) \in S
      BY DEF S
    <3> HIDE DEF S
    <3>2. \A r \in Seq(CellsMeant) : (IF r = <<>> THEN <<>> ELSE <<MeantRow(r)>>) \in Seq(S)
      BY <3>1, EmptySeq
    <3> QED
      BY <1>2, <2>1, <3>2
  <2>3. seqs \in [1..n -> Q]
    BY <2>1, <2>2
  <2>4. MeantRows(rs) = FlattenSeq(seqs)
    BY DEF MeantRows
  <2> HIDE DEF seqs, n
  <2>5. seqs \in Seq(Seq(S))
    BY <1>2, <2>3, FcnIsSeq
  <2>6. FlattenSeq(seqs) \in Seq(S)
    BY <2>5, FlattenType
  <2> QED
    BY <2>4, <2>6, ConcatEmptySeq
<1> QED
  BY <1>7, <1>9, <1>10, <1>11, <1>12 DEF html

(* Words alone are no table.                                               *)
LEMMA WordsAreNoTable ==
    ASSUME NEW w \in Seq(Words)
    PROVE  TableRows(w) = <<>>
<1> DEFINE opens == {"<table>", "<table border=1>"}
<1>1. Len(w) \in Nat /\ \A l \in 1..Len(w) : w[l] \notin opens
  BY LenProperties, ElementOfSeq, MarkupApart
<1>2. FirstIn(w, opens, 1) = None
  <2> HIDE DEF opens
  <2> QED
    BY <1>1, FirstInNone
<1>3. FindOpen(w, "table", 1) = None
  BY <1>2, OpensAs
<1> QED
  BY <1>3 DEF TableRows

(***************************************************************************)
(* The text of a cell                                                      *)
(***************************************************************************)
(* An escaped character decodes to itself and is never markup. *)
LEMMA EscapedFacts ==
    ASSUME NEW c \in Characters
    PROVE  /\ Escaped(c) \notin Tags \cup {"<"} /\ Escaped(c) # "&"
           /\ Escaped(c) \in Entities => Escaped(c) \in DOMAIN Decoded /\ Decoded[Escaped(c)] = c
           /\ Escaped(c) \notin Entities => Escaped(c) = c
<1> DEFINE e == Escaped(c)
<1>1. c \notin Tags /\ c \notin Entities
  BY DEF Characters
<1>2. CASE c = "<"
  <2>1. e = "&lt;"
    BY <1>2 DEF Escaped
  <2> HIDE DEF e
  <2> QED
    BY <1>2, <2>1, TagsAre, DecodedIs DEF e
<1>3. CASE c = ">"
  <2>1. e = "&gt;"
    BY <1>3 DEF Escaped
  <2> HIDE DEF e
  <2> QED
    BY <1>3, <2>1, TagsAre, DecodedIs DEF e
<1>4. CASE c = "&"
  <2>1. e = "&amp;"
    BY <1>4 DEF Escaped
  <2> HIDE DEF e
  <2> QED
    BY <1>4, <2>1, TagsAre, DecodedIs DEF e
<1>5. CASE c # "<" /\ c # ">" /\ c # "&"
  <2>1. e = c
    BY <1>5 DEF Escaped
  <2> HIDE DEF e
  <2> QED
    BY <1>1, <1>5, <2>1 DEF e
<1> QED
  BY <1>2, <1>3, <1>4, <1>5

(* What is escaped is decoded.                                             *)
LEMMA DecodesEscaped ==
    ASSUME NEW t \in Seq(Characters)
    PROVE  DecodeEntities([i \in DOMAIN t |-> Escaped(t[i])]) = t
<1> DEFINE n == Len(t)
           T == {Escaped(c) : c \in Characters}
           U == T \cup Characters
           e == [i \in DOMAIN t |-> Escaped(t[i])]
           S == Entities \cup {"&"}
           E == DecodeEnds(e)
           M == DecodeMakes(e)
           pieces == [i \in DOMAIN t |-> <<t[i]>>]
<1>1. n \in Nat /\ DOMAIN t = 1..n /\ \A i \in 1..n : t[i] \in Characters
  BY LenProperties, ElementOfSeq
<1>2. e \in Seq(T) /\ Len(e) = n /\ \A i \in 1..n : e[i] = Escaped(t[i])
  <2>1. e \in [1..n -> T]
    BY <1>1
  <2>2. \A i \in 1..n : e[i] = Escaped(t[i])
    BY <1>1
  <2> HIDE DEF T, n, e
  <2> QED
    BY <1>1, <2>1, <2>2, FcnIsSeq
<1> HIDE DEF n, T, e
<1>3. PICK f : DecodeEntities(e) = f[1] /\ ScanFrom(f, e, S, E, M)
  BY <1>1, <1>2, DecodeEntitiesUnfold
<1>4. Ends(e, E)
  BY <1>1, <1>2, ScanEnds
<1>5. ASSUME NEW k \in 1..Len(e), e[k] \in S
      PROVE  M[k] = <<t[k]>> /\ E[k] = k
  <2>1. e[k] = Escaped(t[k]) /\ t[k] \in Characters
    BY <1>1, <1>2
  <2>2. e[k] # "&" /\ e[k] \in DOMAIN Decoded /\ Decoded[e[k]] = t[k]
    BY <1>5, <2>1, EscapedFacts
  <2> QED
    BY <2>2 DEF DecodeMakes, DecodeEnds
<1> HIDE DEF E, M, S
<1>6. Makes(e, S, M, U)
  <2> SUFFICES ASSUME NEW k \in 1..Len(e), e[k] \in S PROVE M[k] \in Seq(U)
    BY DEF Makes
  <2>1. t[k] \in U /\ M[k] = <<t[k]>>
    BY <1>1, <1>2, <1>5
  <2> HIDE DEF U
  <2> QED
    BY <2>1
<1> HIDE DEF U
<1>7. Gives(f, e, U)
  <2>1. T \subseteq U
    BY DEF U
  <2> QED
    BY <1>2, <1>3, <1>4, <1>6, <2>1, ScanType
<1> DEFINE g == [k \in 0..n |-> f[k + 1]]
<1>8. ASSUME NEW k \in 1..n
      PROVE  f[k] = <<t[k]>> \o f[k + 1]
  <2>1. CASE e[k] \in S
    <3>0. k \in 1..Len(e) /\ k # None
      BY <1>1, <1>2 DEF None
    <3>1. M[k] = <<t[k]>> /\ E[k] = k /\ E[k] # None
      BY <1>5, <2>1, <3>0
    <3>2. M[k] \in Seq(U)
      BY <1>6, <2>1, <3>0 DEF Makes
    <3>2a. /\ e \in Seq(T) /\ ScanFrom(f, e, S, E, M) /\ k \in 1..Len(e) /\ e[k] \in S
           /\ E[k] # None /\ M[k] \in Seq(U)
      BY <1>2, <1>3, <2>1, <3>0, <3>1, <3>2
    <3>3. Goes(f, k, M[k], E[k] + 1)
      BY <3>2a, ScanStops
    <3> QED
      BY <3>1, <3>3 DEF Goes
  <2>2. CASE e[k] \notin S
    <3>1. k \in 1..Len(e) /\ T \subseteq U
      BY <1>2 DEF U
    <3>1a. /\ e \in Seq(T) /\ ScanFrom(f, e, S, E, M) /\ k \in 1..Len(e) /\ e[k] \notin S
           /\ Ends(e, E) /\ T \subseteq U
           /\ Makes(e, S, M, U) /\ Gives(f, e, U)
      BY <1>2, <1>3, <1>4, <1>6, <1>7, <2>2, <3>1
    <3>2. Goes(f, k, <<e[k]>>, k + 1)
      BY <3>1a, ScanPasses
    <3>3. e[k] = t[k]
      <4>1. e[k] = Escaped(t[k]) /\ t[k] \in Characters /\ e[k] \notin Entities
        BY <1>1, <1>2, <2>2 DEF S
      <4> QED
        BY <4>1, EscapedFacts
    <3> QED
      BY <3>2, <3>3 DEF Goes
  <2> QED
    BY <2>1, <2>2
<1>9. pieces \in Seq(Seq(Characters)) /\ Len(pieces) = n /\ \A k \in 1..n : pieces[k] = <<t[k]>>
  <2> DEFINE Q == Seq(Characters)
  <2>0. \A k \in 1..n : pieces[k] = <<t[k]>> /\ <<t[k]>> \in Q
    BY <1>1
  <2>1. pieces \in [1..n -> Q]
    <3> HIDE DEF Q
    <3> QED
      BY <1>1, <2>0
  <2> HIDE DEF pieces, Q
  <2> QED
    BY <1>1, <2>0, <2>1, FcnIsSeq DEF Q
<1> HIDE DEF pieces
<1>10. IsChain(g, pieces)
  <2> SUFFICES ASSUME NEW k \in 1..n PROVE g[k - 1] = pieces[k] \o g[k]
    BY <1>9 DEF IsChain
  <2>1. k - 1 \in 0..n /\ k \in 0..n /\ k - 1 + 1 = k
    BY <1>1
  <2>2. g[k - 1] = f[k] /\ g[k] = f[k + 1]
    BY <2>1
  <2> HIDE DEF g
  <2> QED
    BY <1>8, <1>9, <2>2
<1>11. g[Len(pieces)] = <<>>
  <2>1. f[Len(e) + 1] = <<>>
    BY <1>2, <1>3, ScanOver
  <2>2. n \in 0..n
    BY <1>1
  <2> QED
    BY <1>2, <1>9, <2>1, <2>2
<1>12. g[0] = f[1]
  <2>1. 0 \in 0..n
    BY <1>1
  <2> QED
    BY <2>1
<1> HIDE DEF g
<1>13. g[0] = FlattenSeq(pieces)
  BY <1>9, <1>10, <1>11, ChainEnds
<1>14. FlattenSeq(pieces) = t
  BY FlattenSingles DEF pieces
<1> QED
  BY <1>3, <1>12, <1>13, <1>14 DEF e

CellCharacters == {Escaped(c) : c \in Characters} \cup {"<b>"}

TextPiece(t, tagged, i) == (IF i \in tagged THEN <<"<b>">> ELSE <<>>) \o <<Escaped(t[i])>>

(* A character is written escaped, with a tag in front where there is one. *)
LEMMA TextPieceIs ==
    ASSUME NEW t, NEW tagged, NEW i, t[i] \in Characters
    PROVE  /\ TextPiece(t, tagged, i) \in Seq(CellCharacters)
           /\ i \in tagged => /\ Len(TextPiece(t, tagged, i)) = 2
                              /\ TextPiece(t, tagged, i)[1] = "<b>"
                              /\ TextPiece(t, tagged, i)[2] = Escaped(t[i])
           /\ i \notin tagged => /\ Len(TextPiece(t, tagged, i)) = 1
                                 /\ TextPiece(t, tagged, i)[1] = Escaped(t[i])
<1> DEFINE e == Escaped(t[i])
           b == "<b>"
<1>1. e \in CellCharacters /\ b \in CellCharacters
  BY DEF CellCharacters
<1> HIDE DEF e, b
<1>2. CASE i \in tagged
  <2>1. TextPiece(t, tagged, i) = <<b>> \o <<e>>
    BY <1>2 DEF TextPiece, e, b
  <2> DEFINE y == <<e>>
             x == <<b>> \o y
  <2>2. y \in Seq(CellCharacters) /\ Len(y) = 1 /\ y[1] = e
    BY <1>1
  <2> HIDE DEF y
  <2>3. /\ x \in Seq(CellCharacters) /\ Len(x) = Len(y) + 1 /\ x[1] = b
        /\ \A k \in 1..Len(y) : x[k + 1] = y[k]
    BY <1>1, <2>2, Prepended, SMTT(30)
  <2> HIDE DEF x
  <2>4. Len(x) = 2 /\ x[2] = e
    <3>1. 1 \in 1..Len(y) /\ 1 + 1 = 2 /\ Len(y) + 1 = 2
      BY <2>2
    <3> QED
      BY <2>2, <2>3, <3>1
  <2>5. TextPiece(t, tagged, i) = x
    BY <2>1 DEF x, y
  <2> QED
    BY <1>2, <2>3, <2>4, <2>5 DEF e, b
<1>3. CASE i \notin tagged
  <2>1. TextPiece(t, tagged, i) = <<>> \o <<e>>
    BY <1>3 DEF TextPiece, e
  <2>2. <<>> \o <<e>> = <<e>>
    OBVIOUS
  <2>3. TextPiece(t, tagged, i) = <<e>>
    BY <2>1, <2>2
  <2>4. <<e>> \in Seq(CellCharacters) /\ Len(<<e>>) = 1 /\ <<e>>[1] = e
    BY <1>1
  <2> QED
    BY <1>3, <2>3, <2>4 DEF e
<1> QED
  BY <1>2, <1>3

(* A text is written character by character. *)
LEMMA WrittenTextPieces ==
    ASSUME NEW t \in Seq(Characters), NEW tagged
    PROVE  /\ [i \in DOMAIN t |-> TextPiece(t, tagged, i)] \in Seq(Seq(CellCharacters))
           /\ Len([i \in DOMAIN t |-> TextPiece(t, tagged, i)]) = Len(t)
           /\ WrittenText(t, tagged) = FlattenSeq([i \in DOMAIN t |-> TextPiece(t, tagged, i)])
           /\ WrittenText(t, tagged) \in Seq(CellCharacters)
<1> DEFINE n == Len(t)
           Q == Seq(CellCharacters)
           seqs == [i \in DOMAIN t |-> TextPiece(t, tagged, i)]
<1>1. n \in Nat /\ DOMAIN t = 1..n /\ \A i \in 1..n : t[i] \in Characters
  BY LenProperties, ElementOfSeq
<1>2. \A i \in 1..n : TextPiece(t, tagged, i) \in Q
  BY <1>1, TextPieceIs
<1>3. seqs \in [1..n -> Q]
  <2> HIDE DEF Q
  <2> QED
    BY <1>1, <1>2
<1>4. WrittenText(t, tagged) = FlattenSeq(seqs)
  BY DEF WrittenText, TextPiece
<1> HIDE DEF seqs, n, Q
<1>5. seqs \in Seq(Q) /\ Len(seqs) = n
  BY <1>1, <1>3, FcnIsSeq
<1>6. FlattenSeq(seqs) \in Seq(CellCharacters)
  BY <1>5, FlattenType DEF Q
<1> QED
  BY <1>4, <1>5, <1>6 DEF seqs, n, Q

(* The tags in a cell are stripped, and nothing else.                      *)
LEMMA StripsWritten ==
    ASSUME NEW t \in Seq(Characters), NEW tagged
    PROVE  StripTags(WrittenText(t, tagged)) = [i \in DOMAIN t |-> Escaped(t[i])]
<1> DEFINE n == Len(t)
           T == CellCharacters
           seqs == [i \in DOMAIN t |-> TextPiece(t, tagged, i)]
           s == WrittenText(t, tagged)
           S == Tags \cup {"<"}
           E == StripEnds(s)
           M == StripMakes(s)
           e == [i \in DOMAIN t |-> Escaped(t[i])]
           pieces == [i \in DOMAIN e |-> <<e[i]>>]
<1>1. n \in Nat /\ DOMAIN t = 1..n /\ \A i \in 1..n : t[i] \in Characters
  BY LenProperties, ElementOfSeq
<1>2. /\ seqs \in Seq(Seq(T)) /\ Len(seqs) = n /\ s = FlattenSeq(seqs) /\ s \in Seq(T)
      /\ \A i \in 1..n : seqs[i] = TextPiece(t, tagged, i)
  <2>1. /\ seqs \in Seq(Seq(T)) /\ Len(seqs) = n /\ s = FlattenSeq(seqs) /\ s \in Seq(T)
    BY WrittenTextPieces
  <2>2. \A i \in 1..n : seqs[i] = TextPiece(t, tagged, i)
    BY <1>1
  <2> QED
    BY <2>1, <2>2
<1>3. e \in Seq(T) /\ Len(e) = n /\ DOMAIN e = 1..n /\ \A i \in 1..n : e[i] = Escaped(t[i])
  <2>1. \A i \in 1..n : Escaped(t[i]) \in T
    BY <1>1 DEF CellCharacters
  <2> HIDE DEF T
  <2>2. e \in [1..n -> T]
    BY <1>1, <2>1
  <2>3. \A i \in 1..n : e[i] = Escaped(t[i])
    BY <1>1
  <2> HIDE DEF n, e
  <2> QED
    BY <1>1, <2>2, <2>3, FcnIsSeq
<1> HIDE DEF n, seqs, s, e
<1>4. Len(s) \in Nat
  BY <1>2, LenProperties
<1>5. PICK f : StripTags(s) = f[1] /\ ScanFrom(f, s, S, E, M)
  BY <1>4, StripTagsUnfold
<1>6. Ends(s, E)
  BY <1>4, ScanEnds
<1> DEFINE U == T \cup {"newline"}
<1>7. Makes(s, S, M, U) /\ T \subseteq U
  <2>1. \A k \in 1..Len(s) : M[k] = <<"newline">> \/ M[k] = <<>>
    BY DEF StripMakes
  <2>2. <<"newline">> \in Seq(U) /\ <<>> \in Seq(U)
    OBVIOUS
  <2> HIDE DEF U, M
  <2> QED
    BY <2>1, <2>2 DEF Makes, U
<1>8. \A k \in 1..Len(s) : s[k] = "<b>" => s[k] \in S /\ E[k] = k /\ M[k] = <<>>
  BY TagsAre DEF StripEnds, StripMakes, LineBreaks
<1>9. "<b>" # "<"
  OBVIOUS
<1> HIDE DEF E, M, S, U, T
<1>10. Gives(f, s, U)
  BY <1>2, <1>5, <1>6, <1>7, ScanType
<1>11. PICK F \in [0..Len(seqs) -> Seq(T)] : ArePartsOf(F, seqs)
  BY <1>2, FlattenParts
<1>12. ASSUME NEW i \in 1..Len(s), s[i] = "<b>"
       PROVE  f[i] = f[i + 1]
  <2>1. s[i] \in S /\ E[i] = i /\ M[i] = <<>> /\ i # None /\ i \in Nat
    BY <1>4, <1>8, <1>12 DEF None
  <2>2. /\ s \in Seq(T) /\ ScanFrom(f, s, S, E, M) /\ i \in 1..Len(s) /\ s[i] \in S
        /\ E[i] # None /\ M[i] \in Seq(U)
    BY <1>2, <1>5, <2>1
  <2>3. Goes(f, i, M[i], E[i] + 1)
    BY <2>2, ScanStops
  <2>4. f[i] = <<>> \o f[i + 1]
    BY <2>1, <2>3 DEF Goes
  <2>5. f[i + 1] \in Seq(U)
    <3>1. i + 1 \in 1..(Len(s) + 1)
      BY <1>4
    <3> QED
      BY <1>10, <3>1 DEF Gives
  <2> QED
    BY <2>4, <2>5, ConcatEmptySeq
<1>13. ASSUME NEW i \in 1..Len(s), NEW c \in Characters, s[i] = Escaped(c)
       PROVE  f[i] = <<Escaped(c)>> \o f[i + 1]
  <2>1. s[i] \notin S
    BY <1>13, EscapedFacts DEF S
  <2>2. /\ s \in Seq(T) /\ ScanFrom(f, s, S, E, M) /\ i \in 1..Len(s) /\ s[i] \notin S
        /\ Ends(s, E) /\ T \subseteq U /\ Makes(s, S, M, U) /\ Gives(f, s, U)
    BY <1>2, <1>5, <1>6, <1>7, <1>10, <2>1
  <2>3. Goes(f, i, <<s[i]>>, i + 1)
    BY <2>2, ScanPasses
  <2> QED
    BY <1>13, <2>3 DEF Goes
<1>14. ASSUME NEW k \in 1..n
       PROVE  f[Len(F[k - 1]) + 1] = <<e[k]>> \o f[Len(F[k]) + 1]
  <2> DEFINE p == Len(F[k - 1])
             q == Len(F[k])
             w == TextPiece(t, tagged, k)
  <2>1. StandsAt(s, p, w) /\ q = p + Len(w) /\ p \in Nat
    <3>1. /\ StandsAt(FlattenSeq(seqs), Len(F[k - 1]), seqs[k])
          /\ Len(F[k]) = Len(F[k - 1]) + Len(seqs[k]) /\ Len(F[k - 1]) \in Nat
      BY <1>2, <1>11, PiecesStand
    <3> QED
      BY <1>2, <3>1
  <2>2. t[k] \in Characters /\ e[k] = Escaped(t[k])
    BY <1>1, <1>3
  <2>3. /\ k \in tagged => Len(w) = 2 /\ w[1] = "<b>" /\ w[2] = Escaped(t[k])
        /\ k \notin tagged => Len(w) = 1 /\ w[1] = Escaped(t[k])
    BY <2>2, TextPieceIs
  <2>4. p + Len(w) <= Len(s) /\ \A j \in 1..Len(w) : s[p + j] = w[j]
    BY <2>1 DEF StandsAt
  <2>4a. /\ p \in Nat /\ q = p + Len(w) /\ p + Len(w) <= Len(s) /\ Len(s) \in Nat
         /\ (k \in tagged => Len(w) = 2) /\ (k \notin tagged => Len(w) = 1)
    BY <1>4, <2>1, <2>3, <2>4
  <2> HIDE DEF p, q, w
  <2>5. CASE k \in tagged
    <3> DEFINE i == p + 1
               j == p + 2
    <3>1. i \in 1..Len(s) /\ j \in 1..Len(s) /\ i + 1 = j /\ j + 1 = q + 1
      BY <2>4a, <2>5
    <3>2. s[i] = "<b>" /\ s[j] = Escaped(t[k])
      <4>1. 1 \in 1..Len(w) /\ 2 \in 1..Len(w)
        BY <2>3, <2>5
      <4> QED
        BY <2>3, <2>4, <2>5, <4>1
    <3> HIDE DEF i, j
    <3>3. f[i] = f[i + 1]
      BY <1>12, <3>1, <3>2
    <3>4. f[j] = <<Escaped(t[k])>> \o f[j + 1]
      BY <1>13, <2>2, <3>1, <3>2
    <3> QED
      BY <2>2, <3>1, <3>3, <3>4 DEF i, p, q
  <2>6. CASE k \notin tagged
    <3> DEFINE j == p + 1
    <3>0. Len(w) = 1
      BY <2>4a, <2>6, Zenon
    <3>0a. p \in Nat /\ q = p + Len(w) /\ p + Len(w) <= Len(s) /\ Len(s) \in Nat
      BY <2>4a
    <3>1. j \in 1..Len(s) /\ j + 1 = q + 1
      BY <3>0, <3>0a
    <3>2. s[j] = Escaped(t[k])
      <4>1. 1 \in 1..Len(w)
        BY <3>0
      <4> QED
        BY <2>3, <2>4, <2>6, <4>1
    <3> HIDE DEF j
    <3>3. f[j] = <<Escaped(t[k])>> \o f[j + 1]
      BY <1>13, <2>2, <3>1, <3>2
    <3> QED
      BY <2>2, <3>1, <3>3 DEF j, p, q
  <2> QED
    BY <2>5, <2>6
<1> DEFINE g == [k \in 0..n |-> f[Len(F[k]) + 1]]
<1>15. pieces \in Seq(Seq(T)) /\ Len(pieces) = n /\ \A k \in 1..n : pieces[k] = <<e[k]>>
  <2> DEFINE Q == Seq(T)
  <2>0. \A k \in 1..n : pieces[k] = <<e[k]>> /\ <<e[k]>> \in Q
    <3>1. \A k \in 1..n : e[k] \in T
      BY <1>3, ElementOfSeq
    <3> QED
      BY <1>3, <3>1
  <2>1. pieces \in [1..n -> Q]
    <3> HIDE DEF Q
    <3> QED
      BY <1>3, <2>0
  <2> HIDE DEF pieces, Q
  <2> QED
    BY <1>1, <2>0, <2>1, FcnIsSeq DEF Q
<1> HIDE DEF pieces
<1>16. IsChain(g, pieces)
  <2> SUFFICES ASSUME NEW k \in 1..n PROVE g[k - 1] = pieces[k] \o g[k]
    BY <1>15 DEF IsChain
  <2>1. k - 1 \in 0..n /\ k \in 0..n
    BY <1>1
  <2>2. g[k - 1] = f[Len(F[k - 1]) + 1] /\ g[k] = f[Len(F[k]) + 1]
    BY <2>1
  <2> HIDE DEF g
  <2> QED
    BY <1>14, <1>15, <2>2
<1>17. g[Len(pieces)] = <<>>
  <2>1. f[Len(s) + 1] = <<>>
    BY <1>2, <1>5, ScanOver
  <2>2. n \in 0..n /\ F[n] = s
    BY <1>1, <1>2, <1>11 DEF ArePartsOf
  <2> QED
    BY <1>15, <2>1, <2>2
<1>18. g[0] = f[1]
  <2>1. 0 \in 0..n /\ F[0] = <<>> /\ Len(<<>>) + 1 = 1
    BY <1>1, <1>11 DEF ArePartsOf
  <2> QED
    BY <2>1
<1> HIDE DEF g
<1>19. g[0] = FlattenSeq(pieces)
  BY <1>15, <1>16, <1>17, ChainEnds
<1>20. FlattenSeq(pieces) = e
  BY <1>3, FlattenSingles DEF pieces
<1> QED
  BY <1>5, <1>18, <1>19, <1>20 DEF e, s

(* Text in a cell never holds the tags around the cell. *)
LEMMA CellCharactersApart ==
    CellCharacters \cap {"<table>", "<table border=1>", "</table>", "<tr>", "</tr>", "</td>", "</th>"} = {}
<1> DEFINE A == {"<table>", "<table border=1>", "</table>", "<tr>", "</tr>", "</td>", "</th>"}
<1>1. A \subseteq Tags /\ "<b>" \notin A
  BY TagsAre
<1>2. ASSUME NEW x \in CellCharacters PROVE x \notin A
  <2>1. CASE x = "<b>"
    BY <1>1, <2>1
  <2>2. CASE x # "<b>"
    <3>1. PICK c \in Characters : x = Escaped(c)
      BY <2>2 DEF CellCharacters
    <3>2. x \notin Tags
      BY <3>1, EscapedFacts
    <3> HIDE DEF A
    <3> QED
      BY <1>1, <3>2
  <2> QED
    BY <2>1, <2>2
<1> QED
  BY <1>2

(* A row of one cell parses to the text of that cell, *)
LEMMA OneCell ==
    ASSUME NEW w \in Seq(CellCharacters)
    PROVE  Cells(Element("<td>", w, "</td>")) = <<[text |-> CellText(w), rowSpan |-> 1]>>
<1> DEFINE open == "<td>"
           close == "</td>"
           T == CellCharacters \cup {open, close}
           row == Element(open, w, close)
           e == Len(w) + 2
           A == {"</td>"}
           B == {"</th>"}
<1>1. /\ w \in Seq(T) /\ open \in T /\ close \in T /\ Len(w) \in Nat
      /\ \A k \in 1..Len(w) : w[k] \notin A /\ w[k] \notin B
  <2>1. \A k \in 1..Len(w) : w[k] \in CellCharacters
    BY ElementOfSeq
  <2>2. \A k \in 1..Len(w) : w[k] \notin A /\ w[k] \notin B
    BY <2>1, CellCharactersApart
  <2> QED
    BY <2>2, SeqMonotonic, LenProperties
<1> HIDE DEF T, open, close
<1>2. /\ row \in Seq(T) /\ Len(row) = e /\ row[1] = open /\ row[Len(w) + 2] = close
      /\ \A k \in 1..Len(w) : row[k + 1] = w[k]
  BY <1>1, ElementFacts
<1>2a. e \in Nat /\ e >= 2 /\ Len(row) \in Nat
  BY <1>1, <1>2
<1> HIDE DEF row, e
<1>3. CellStands(row, 1, e)
  <2>1. row[1] = "<td>" /\ row[e] = "</td>"
    BY <1>2 DEF open, close, e
  <2>2. \A k \in (1 + 1)..(e - 1) : row[k] \notin A /\ row[k] \notin B
    <3> SUFFICES ASSUME NEW k \in (1 + 1)..(e - 1) PROVE row[k] \notin A /\ row[k] \notin B
      OBVIOUS
    <3> DEFINE j == k - 1
    <3>1. j \in 1..Len(w) /\ j + 1 = k
      BY <1>1 DEF e
    <3> HIDE DEF j, A, B
    <3> QED
      BY <1>1, <1>2, <3>1
  <2> QED
    BY <2>1, <2>2 DEF CellStands
<1>4. ~COver(row, 1) /\ CStart(row, 1) = 1 /\ CEnd(row, 1) = e
  <2> DEFINE one == 1
  <2>1. Len(row) \in Nat /\ one \in 1..Len(row) /\ e \in (one + 1)..Len(row) /\ CellStands(row, one, e)
    BY <1>2, <1>2a, <1>3
  <2> HIDE DEF one
  <2>2. ~COver(row, one) /\ CStart(row, one) = one /\ CEnd(row, one) = e
    BY <2>1, CellAt
  <2> QED
    BY <2>2 DEF one
<1>5. SubSeq(row, 1 + 1, e - 1) = w
  <2> DEFINE one == 1
  <2>1. StandsAt(row, one, w)
    <3>1. one \in Nat /\ one + Len(w) <= Len(row) /\ \A k \in 1..Len(w) : row[one + k] = w[k]
      <4>1. \A k \in 1..Len(w) : one + k = k + 1
        BY <1>1
      <4> QED
        BY <1>1, <1>2, <4>1 DEF e
    <3> QED
      BY <1>1, <1>2a, <3>1 DEF StandsAt
  <2>2. one + Len(w) = e - 1
    BY <1>1 DEF e
  <2> HIDE DEF one
  <2>3. SubSeq(row, one + 1, one + Len(w)) = w
    BY <1>1, <1>2, <2>1, PartStands
  <2> QED
    BY <2>2, <2>3 DEF one
<1>6. CFound(row, 1) = [text |-> CellText(w), rowSpan |-> 1]
  <2>1. RowSpan(row[1]) = 1
    BY <1>2 DEF RowSpan, open
  <2> QED
    BY <1>4, <1>5, <2>1 DEF CFound
<1>7. PICK f : Cells(row) = f[1] /\ CFrom(f, row)
  BY <1>2a, CellsUnfold
<1>8. f[1] = <<CFound(row, 1)>> \o f[e + 1]
  <2>1. 1 \in 1..(Len(row) + 1)
    BY <1>2a
  <2> QED
    BY <1>4, <1>7, <2>1 DEF CFrom
<1>9. f[e + 1] = <<>>
  <2> DEFINE i == e + 1
  <2>1. i \in 1..(Len(row) + 1) /\ \A k : k \notin i..Len(row)
    BY <1>2, <1>2a
  <2> HIDE DEF i
  <2>2. CStart(row, i) = None
    <3>1. /\ CStart(row, i) = FindOpen(row, "td", i) \/ CStart(row, i) = FindOpen(row, "th", i)
          /\ FindOpen(row, "td", i) = None \/ FindOpen(row, "td", i) \in i..Len(row)
          /\ FindOpen(row, "th", i) = None \/ FindOpen(row, "th", i) \in i..Len(row)
      BY <1>2a, <2>1, CTagIs
    <3> QED
      BY <2>1, <3>1
  <2>3. COver(row, i)
    BY <2>2 DEF COver
  <2> QED
    BY <1>7, <2>1, <2>3 DEF CFrom, i
<1>10. <<CFound(row, 1)>> \o <<>> = <<CFound(row, 1)>>
  <2> DEFINE x == CFound(row, 1)
  <2> HIDE DEF x
  <2>1. <<x>> \in Seq({x})
    OBVIOUS
  <2>2. <<x>> \o <<>> = <<x>>
    BY <2>1, ConcatEmptySeq
  <2> QED
    BY <2>2 DEF x
<1> QED
  BY <1>6, <1>7, <1>8, <1>9, <1>10 DEF row, open, close

(* and so does a table of one row. *)
LEMMA OneCellTable ==
    ASSUME NEW w \in Seq(CellCharacters)
    PROVE  TableRows(Element("<table>", Element("<tr>", Element("<td>", w, "</td>"), "</tr>"), "</table>"))
             = <<<<[text |-> CellText(w), rowSpan |-> 1]>>>>
<1> DEFINE Td == {"<td>", "</td>"}
           T == CellCharacters \cup Td \cup {"<tr>", "</tr>", "<table>", "</table>"}
           cell == Element("<td>", w, "</td>")
           row == Element("<tr>", cell, "</tr>")
           html == Element("<table>", row, "</table>")
           m == Len(w)
           L == m + 6
           found == <<[text |-> CellText(w), rowSpan |-> 1]>>
           opens == {"<table>", "<table border=1>"}
           closes == {"</table>"}
           ro == {"<tr>"}
           rc == {"</tr>"}
<1>1. /\ cell \in Seq(T) /\ Len(cell) = m + 2 /\ m \in Nat
      /\ \A k \in 1..Len(cell) : cell[k] \in CellCharacters \cup Td
  <2> DEFINE C == CellCharacters \cup Td
             o == "<td>"
             c == "</td>"
  <2>1. w \in Seq(C) /\ o \in C /\ c \in C /\ C \subseteq T
    BY SeqMonotonic
  <2> HIDE DEF C, o, c, T
  <2>2. Element(o, w, c) \in Seq(C) /\ Len(Element(o, w, c)) = Len(w) + 2
    BY <2>1, ElementFacts
  <2> DEFINE x == Element(o, w, c)
  <2>3. x \in Seq(T) /\ \A k \in 1..Len(x) : x[k] \in C
    <3>1. x \in Seq(C)
      BY <2>2
    <3> HIDE DEF x
    <3> QED
      BY <2>1, <3>1, SeqMonotonic, ElementOfSeq
  <2>4. m \in Nat
    BY LenProperties
  <2> QED
    BY <2>2, <2>3, <2>4 DEF o, c, C
<1> HIDE DEF cell, Td
<1>2. /\ row \in Seq(T) /\ Len(row) = m + 4
  <2> DEFINE o == "<tr>"
             c == "</tr>"
  <2>1. o \in T /\ c \in T
    OBVIOUS
  <2> HIDE DEF T, o, c
  <2>2. Element(o, cell, c) \in Seq(T) /\ Len(Element(o, cell, c)) = Len(cell) + 2
    BY <1>1, <2>1, ElementFacts
  <2>3. Len(cell) + 2 = m + 4
    BY <1>1
  <2> QED
    BY <2>2, <2>3 DEF o, c
<1> HIDE DEF row
<1>3. /\ html \in Seq(T) /\ Len(html) = L /\ L \in Nat /\ StandsAt(html, 0, html)
  <2> DEFINE o == "<table>"
             c == "</table>"
  <2>1. o \in T /\ c \in T
    OBVIOUS
  <2> HIDE DEF T, o, c
  <2>2. Element(o, row, c) \in Seq(T) /\ Len(Element(o, row, c)) = Len(row) + 2
    BY <1>2, <2>1, ElementFacts
  <2>3. Len(row) + 2 = m + 6 /\ m + 6 \in Nat
    BY <1>1, <1>2
  <2>4. html \in Seq(T) /\ Len(html) = L /\ L \in Nat
    BY <2>2, <2>3 DEF o, c
  <2> HIDE DEF html, L
  <2>5. \A k \in 1..Len(html) : html[0 + k] = html[k]
    <3>1. \A k \in 1..Len(html) : 0 + k = k
      BY <2>4
    <3> QED
      BY <3>1
  <2> QED
    BY <2>4, <2>5 DEF StandsAt
<1>4. html[1] = "<table>" /\ StandsAt(html, 1, row) /\ html[L] = "</table>"
  <2> DEFINE o == "<table>"
             c == "</table>"
             z == 0
  <2>1. o \in T /\ c \in T /\ StandsAt(html, z, Element(o, row, c))
    BY <1>3
  <2> HIDE DEF T, o, c, html, z
  <2>2. html[z + 1] = o /\ StandsAt(html, z + 1, row) /\ html[z + Len(row) + 2] = c
    BY <1>2, <2>1, ElementStands
  <2>3. z + 1 = 1 /\ z + Len(row) + 2 = L
    BY <1>1, <1>2 DEF z
  <2> QED
    BY <2>2, <2>3 DEF o, c
<1>5. html[2] = "<tr>" /\ StandsAt(html, 2, cell) /\ html[m + 5] = "</tr>"
  <2> DEFINE o == "<tr>"
             c == "</tr>"
             one == 1
  <2>1. o \in T /\ c \in T /\ StandsAt(html, one, Element(o, cell, c))
    BY <1>4 DEF row
  <2> HIDE DEF T, o, c, html, one
  <2>2. html[one + 1] = o /\ StandsAt(html, one + 1, cell) /\ html[one + Len(cell) + 2] = c
    BY <1>1, <2>1, ElementStands
  <2>3. one + 1 = 2 /\ one + Len(cell) + 2 = m + 5
    BY <1>1 DEF one
  <2> QED
    BY <2>2, <2>3 DEF o, c
<1> HIDE DEF html
<1>6. \A l \in 3..(m + 4) : html[l] \in CellCharacters \cup Td
  <2> SUFFICES ASSUME NEW l \in 3..(m + 4) PROVE html[l] \in CellCharacters \cup Td
    OBVIOUS
  <2> DEFINE k == l - 2
             two == 2
  <2>1. k \in 1..Len(cell) /\ two + k = l /\ StandsAt(html, two, cell)
    BY <1>1, <1>5
  <2> HIDE DEF k, two
  <2>2. html[two + k] = cell[k]
    BY <2>1 DEF StandsAt
  <2> QED
    BY <1>1, <2>1, <2>2
<1>7. \A l \in 3..(m + 4) : html[l] \notin closes /\ html[l] \notin rc
  BY <1>6, CellCharactersApart DEF Td
<1> HIDE DEF T, found
<1>8. TStart(html) = 1 /\ TEnd(html) = L
  <2> DEFINE one == 1
             two == 2
  <2>1. /\ one \in one..Len(html) /\ one \in Nat \ {0} /\ Len(html) \in Nat /\ html[one] \in opens
        /\ \A l \in one..(one - 1) : html[l] \notin opens
    BY <1>1, <1>3, <1>4
  <2>2. /\ L \in two..Len(html) /\ two \in Nat \ {0} /\ Len(html) \in Nat /\ html[L] \in closes
    BY <1>1, <1>3, <1>4
  <2>3. \A l \in two..(L - 1) : html[l] \notin closes
    <3>1. \A l \in two..(L - 1) : l = 2 \/ l \in 3..(m + 4) \/ l = m + 5
      BY <1>1
    <3> QED
      BY <1>5, <1>7, <3>1
  <2>4. html[1] = "<table>" /\ one = 1 /\ two = 1 + 1
    BY <1>4
  <2> HIDE DEF one, two, opens, closes, L
  <2>5. FirstIn(html, opens, one) = one
    BY <2>1, FirstInIs
  <2>6. FirstIn(html, closes, two) = L
    BY <2>2, <2>3, FirstInIs
  <2>7. TStart(html) = 1
    BY <2>4, <2>5, OpensAs DEF TStart, opens
  <2>8. FindClose(html, "table", two) = L
    BY <2>6, OpensAs DEF closes
  <2>9. TEnd(html) = FindClose(html, "table", two)
    <3>1. TStart(html) + 1 = two
      BY <2>4, <2>7
    <3> QED
      BY <3>1 DEF TEnd
  <2> QED
    BY <2>7, <2>8, <2>9
<1>9. PICK f : RFrom(f, html, L) /\ \A i : RowsFrom(html, i, L) = f[i]
  <2>1. Len(html) \in Nat
    BY <1>3
  <2> HIDE DEF L
  <2> QED
    BY <2>1, RowsUnfold
<1>10. TableRows(html) = f[2]
  <2>1. L # None /\ 1 # None
    BY <1>3, <1>1 DEF None
  <2> HIDE DEF L
  <2>2. TableRows(html) = RowsFrom(html, 1 + 1, L)
    BY <1>8, <2>1 DEF TableRows, TStart, TEnd
  <2> QED
    BY <1>9, <2>2
<1>11. RStart(html, 2) = 2 /\ REnd(html, 2) = m + 5
  <2> DEFINE two == 2
             three == 3
             e == m + 5
  <2>1. /\ two \in two..Len(html) /\ two \in Nat \ {0} /\ Len(html) \in Nat /\ html[two] \in ro
        /\ \A l \in two..(two - 1) : html[l] \notin ro
    BY <1>1, <1>3, <1>5
  <2>2. /\ e \in three..Len(html) /\ three \in Nat \ {0} /\ html[e] \in rc
        /\ \A l \in three..(e - 1) : html[l] \notin rc
    <3>1. e \in three..Len(html) /\ three \in Nat \ {0} /\ html[e] \in rc /\ e - 1 = m + 4
      BY <1>1, <1>3, <1>5
    <3> QED
      BY <1>7, <3>1
  <2>3. two = 2 /\ three = 2 + 1
    OBVIOUS
  <2> HIDE DEF two, three, e, ro, rc
  <2>4. FirstIn(html, ro, two) = two
    BY <2>1, FirstInIs
  <2>5. FirstIn(html, rc, three) = e
    BY <2>1, <2>2, FirstInIs
  <2>6. RStart(html, 2) = 2
    BY <2>3, <2>4, OpensAs DEF RStart, ro
  <2>7. FindClose(html, "tr", three) = e
    BY <2>5, OpensAs DEF rc
  <2>8. REnd(html, 2) = FindClose(html, "tr", three)
    <3>1. RStart(html, 2) + 1 = three
      BY <2>3, <2>6
    <3> QED
      BY <3>1 DEF REnd
  <2> QED
    BY <2>6, <2>7, <2>8 DEF e
<1>12. RCells(html, 2) = found
  <2> DEFINE two == 2
  <2>1. StandsAt(html, two, cell) /\ two + Len(cell) = m + 5 - 1 /\ two = 2
    BY <1>1, <1>5
  <2> HIDE DEF two
  <2>2. SubSeq(html, two + 1, two + Len(cell)) = cell
    BY <1>1, <1>3, <2>1, PartStands
  <2>3. RCells(html, 2) = Cells(cell)
    <3>1. RStart(html, 2) + 1 = two + 1 /\ REnd(html, 2) - 1 = two + Len(cell)
      BY <1>11, <2>1
    <3> QED
      BY <2>2, <3>1 DEF RCells
  <2> QED
    BY <2>3, OneCell DEF cell, found
<1>13. f[2] = <<found>> \o f[m + 6]
  <2>1. ~ROver(html, L, 2)
    BY <1>1, <1>11 DEF ROver, None
  <2>2. RPiece(html, 2) = <<found>>
    <3>1. found # <<>>
      BY DEF found
    <3> QED
      BY <1>12, <3>1 DEF RPiece
  <2>3. 2 \in 1..(Len(html) + 1)
    BY <1>1, <1>3
  <2>4. f[2] = RPiece(html, 2) \o f[REnd(html, 2) + 1]
    <3> HIDE DEF L
    <3> QED
      BY <1>9, <2>1, <2>3 DEF RFrom
  <2>5. m + 5 + 1 = m + 6
    BY <1>1
  <2> QED
    BY <1>11, <2>2, <2>4, <2>5
<1>14. f[m + 6] = <<>>
  <2> DEFINE i == m + 6
  <2>1. /\ i \in 1..(Len(html) + 1) /\ i \in Nat \ {0} /\ Len(html) \in Nat
        /\ \A l \in i..Len(html) : html[l] \notin ro
    <3>1. i \in 1..(Len(html) + 1) /\ i \in Nat \ {0} /\ Len(html) \in Nat /\ \A l \in i..Len(html) : l = L
      BY <1>1, <1>3
    <3> QED
      BY <1>4, <3>1
  <2> HIDE DEF i, L, ro
  <2>2. FirstIn(html, ro, i) = None
    BY <2>1, FirstInNone
  <2>3. RStart(html, i) = None
    BY <2>2, OpensAs DEF RStart, ro
  <2>4. ROver(html, L, i)
    BY <2>3 DEF ROver
  <2> QED
    BY <1>9, <2>1, <2>4 DEF RFrom, i
<1>15. <<found>> \o <<>> = <<found>>
  <2>1. <<found>> \in Seq({found})
    OBVIOUS
  <2> QED
    BY <2>1, ConcatEmptySeq
<1> QED
  BY <1>10, <1>13, <1>14, <1>15 DEF html, row, cell, found

(* Every text that is written in a cell is shown as it was. *)
LEMMA CellTextFaithfulHolds ==
    ASSUME AnswerInv
    PROVE  CellTextFaithful
<1> SUFFICES ASSUME answer.kind = "cell"
             PROVE  TableRows(Element("<table>", Element("<tr>", Element("<td>", answer.written, "</td>"), "</tr>"),
                                      "</table>")) = <<<<[text |-> answer.meant, rowSpan |-> 1]>>>>
  BY DEF CellTextFaithful
<1>1. answer.meant \in CellTexts
  BY DEF AnswerInv
<1>2. PICK tagged \in SUBSET DOMAIN answer.meant : answer.written = WrittenText(answer.meant, tagged)
  BY DEF AnswerInv
<1> DEFINE t == answer.meant
           w == answer.written
<1>3. t \in Seq(Characters) /\ w = WrittenText(t, tagged)
  BY <1>1, <1>2, ViewsAssumption
<1> HIDE DEF t, w
<1>4. w \in Seq(CellCharacters)
  BY <1>3, WrittenTextPieces
<1>5. CellText(w) = t
  BY <1>3, StripsWritten, DecodesEscaped DEF CellText
<1> QED
  BY <1>4, <1>5, OneCellTable DEF t, w

(***************************************************************************)
(* The detections of a page                                                *)
(***************************************************************************)
(* A header with boxes is its label and the boxes up to the last one, and  *)
(* that one.                                                               *)
LEMMA HeaderFront ==
    ASSUME NEW b \in Blocks, b.boxes # <<>>
    PROVE  /\ SubSeq(HeaderOf(b), 1, Len(HeaderOf(b)) - 1) = Label(b)
           /\ HeaderOf(b)[Len(HeaderOf(b))] = Last(b.boxes)
           /\ Len(HeaderOf(b)) = Len(b.label) + Len(b.boxes)
           /\ Label(b) # <<>> <=> Len(HeaderOf(b)) # 1
<1> DEFINE X == Boxes \cup BadBoxes
           T == Words \cup X
           h == HeaderOf(b)
           label == b.label
           boxes == b.boxes
           p == Len(label)
           q == Len(boxes)
           m == Len(h)
           fb == SubSeq(boxes, 1, q - 1)
           lb == label \o fb
           fh == SubSeq(h, 1, m - 1)
<1>1. label \in Seq(Words) /\ boxes \in Seq(X)
  BY DEF Blocks
<1>2. label \in Seq(T) /\ boxes \in Seq(T) /\ p \in Nat /\ q \in Nat /\ q >= 1
  <2>1. label \in Seq(T) /\ boxes \in Seq(T)
    BY <1>1, SeqMonotonic
  <2>2. q \in Nat \ {0}
    BY <1>1, EmptySeq
  <2>3. p \in Nat
    BY <1>1, LenProperties
  <2> QED
    BY <2>1, <2>2, <2>3
<1>3. h = label \o boxes /\ Label(b) = lb /\ Last(boxes) = boxes[q]
  BY DEF HeaderOf, Label, Front, Last
<1> HIDE DEF h, label, boxes, T, X
<1>4. /\ h \in Seq(T) /\ m = p + q /\ m \in Nat
      /\ \A i \in 1..(p + q) : h[i] = IF i <= p THEN label[i] ELSE boxes[i - p]
  <2>1. /\ label \o boxes \in Seq(T) /\ Len(label \o boxes) = Len(label) + Len(boxes)
        /\ \A i \in 1..(Len(label) + Len(boxes)) :
             (label \o boxes)[i] = IF i <= Len(label) THEN label[i] ELSE boxes[i - Len(label)]
    BY <1>2, ConcatProperties
  <2> QED
    BY <1>2, <1>3, <2>1
<1> DEFINE r == q - 1
           z == m - 1
<1>5. fb \in Seq(T) /\ Len(fb) = r /\ \A i \in 1..r : fb[i] = boxes[i]
  <2>1. r \in 0..Len(boxes)
    BY <1>2
  <2> HIDE DEF r
  <2>2. /\ SubSeq(boxes, 1, r) \in Seq(T) /\ Len(SubSeq(boxes, 1, r)) = r
        /\ \A i \in 1..r : SubSeq(boxes, 1, r)[i] = boxes[i]
    BY <1>2, <2>1, BeginningOf
  <2> QED
    BY <2>2 DEF r
<1>6. fh \in Seq(T) /\ Len(fh) = z /\ \A i \in 1..z : fh[i] = h[i]
  <2>1. z \in 0..Len(h)
    BY <1>2, <1>4
  <2> HIDE DEF z
  <2>2. /\ SubSeq(h, 1, z) \in Seq(T) /\ Len(SubSeq(h, 1, z)) = z
        /\ \A i \in 1..z : SubSeq(h, 1, z)[i] = h[i]
    BY <1>4, <2>1, BeginningOf
  <2> QED
    BY <2>2 DEF z
<1> HIDE DEF fb, fh, r, z
<1>7. /\ lb \in Seq(T) /\ Len(lb) = p + r
      /\ \A i \in 1..(p + r) : lb[i] = IF i <= p THEN label[i] ELSE fb[i - p]
  <2>1. /\ label \o fb \in Seq(T) /\ Len(label \o fb) = Len(label) + Len(fb)
        /\ \A i \in 1..(Len(label) + Len(fb)) :
             (label \o fb)[i] = IF i <= Len(label) THEN label[i] ELSE fb[i - Len(label)]
    BY <1>2, <1>5, ConcatProperties
  <2> QED
    BY <1>5, <2>1
<1> HIDE DEF lb, p, q, m
<1>8. r = q - 1 /\ z = m - 1 /\ z = p + r /\ p \in Nat /\ r \in Nat /\ z \in Nat
  BY <1>2, <1>4 DEF r, z
<1>9. fh = lb
  <2>1. Len(fh) = Len(lb)
    BY <1>6, <1>7, <1>8
  <2>2. ASSUME NEW i \in 1..Len(fh) PROVE fh[i] = lb[i]
    <3>1. i \in 1..z /\ i \in 1..(p + r) /\ i \in 1..(p + q)
      BY <1>2, <1>6, <1>8
    <3>2. CASE i <= p
      BY <1>4, <1>6, <1>7, <3>1, <3>2
    <3>3. CASE ~(i <= p)
      <4>1. i - p \in 1..r
        BY <1>8, <3>1, <3>3
      <4>2. fh[i] = boxes[i - p] /\ lb[i] = fb[i - p]
        BY <1>4, <1>6, <1>7, <3>1, <3>3
      <4> QED
        BY <1>5, <4>1, <4>2
    <3> QED
      BY <3>2, <3>3
  <2> QED
    BY <1>6, <1>7, <2>1, <2>2, SeqEqual
<1>10. h[m] = boxes[q]
  <2>1. m \in 1..(p + q) /\ ~(m <= p) /\ m - p = q
    BY <1>2, <1>4
  <2> QED
    BY <1>4, <2>1
<1>11. lb # <<>> <=> m # 1
  <2>1. lb = <<>> <=> Len(lb) = 0
    BY <1>7, EmptySeq
  <2> QED
    BY <1>4, <1>7, <1>8, <2>1
<1> QED
  BY <1>3, <1>4, <1>9, <1>10, <1>11 DEF fh, lb, h, m, label, boxes, p, q

(* A header is read as it was meant, or not at all.                        *)
LEMMA HeaderAsMeant ==
    ASSUME NEW b \in Blocks
    PROVE  DetectionHeader(HeaderOf(b)) =
              IF WellFormed(b) THEN {[label |-> Label(b), bbox |-> Last(b.boxes)]} ELSE {}
<1> DEFINE X == Boxes \cup BadBoxes
           h == HeaderOf(b)
           p == Len(b.label)
           q == Len(b.boxes)
           m == Len(h)
           at == {k \in DOMAIN h : h[k] \in X}
           last == CHOOSE k \in at : \A l \in at : l <= k
<1>1. /\ b.label \in Seq(Words) /\ b.boxes \in Seq(X) /\ p \in Nat /\ q \in Nat
      /\ \A i \in 1..p : b.label[i] \in Words
      /\ \A i \in 1..q : b.boxes[i] \in X
  <2>1. b.label \in Seq(Words) /\ b.boxes \in Seq(X)
    BY DEF Blocks
  <2> QED
    BY <2>1, LenProperties, ElementOfSeq
<1>2. DetectionHeader(h) = IF at = {} \/ last = 1 \/ h[last] \in BadBoxes THEN {}
                           ELSE {[label |-> SubSeq(h, 1, last - 1), bbox |-> h[last]]}
  BY DEF DetectionHeader
<1>3. /\ DOMAIN h = 1..m /\ m = p + q
      /\ \A i \in 1..(p + q) : h[i] = IF i <= p THEN b.label[i] ELSE b.boxes[i - p]
  <2> DEFINE T == Words \cup X
             x == b.label
             y == b.boxes
  <2>1. x \in Seq(T) /\ y \in Seq(T) /\ h = x \o y
    BY <1>1, SeqMonotonic DEF HeaderOf
  <2> HIDE DEF T, x, y, h
  <2>2. /\ x \o y \in Seq(T) /\ Len(x \o y) = Len(x) + Len(y)
        /\ \A i \in 1..(Len(x) + Len(y)) :
             (x \o y)[i] = IF i <= Len(x) THEN x[i] ELSE y[i - Len(x)]
    BY <2>1, ConcatProperties
  <2>3. DOMAIN (x \o y) = 1..Len(x \o y)
    BY <2>2, LenProperties
  <2> QED
    BY <2>1, <2>2, <2>3 DEF x, y
<1> HIDE DEF h, X, p, q, m
<1>4. Words \cap X = {}
  BY MarkupApart DEF X
<1>5. CASE b.boxes = <<>>
  <2>1. q = 0
    BY <1>5, EmptySeq DEF q
  <2>2. at = {}
    <3>1. \A k \in 1..m : k \in 1..p /\ k <= p /\ k \in 1..(p + q)
      BY <1>1, <1>3, <2>1
    <3>2. \A k \in 1..m : h[k] \in Words
      BY <1>1, <1>3, <3>1
    <3> QED
      BY <1>3, <1>4, <3>2
  <2> HIDE DEF at, last
  <2>3. ~WellFormed(b)
    BY <1>5 DEF WellFormed
  <2> QED
    BY <1>2, <2>2, <2>3 DEF h
<1>6. CASE b.boxes # <<>>
  <2>1. /\ SubSeq(h, 1, m - 1) = Label(b) /\ h[m] = Last(b.boxes)
        /\ Label(b) # <<>> <=> m # 1
    BY <1>6, HeaderFront DEF h, m
  <2>2. q >= 1 /\ m \in Nat /\ m \in 1..m
    <3>1. q \in Nat \ {0}
      BY <1>1, <1>6, EmptySeq DEF q
    <3> QED
      BY <1>1, <1>3, <3>1
  <2>3. m \in at
    <3>1. Last(b.boxes) \in X
      <4>1. q \in 1..q /\ Last(b.boxes) = b.boxes[q]
        BY <1>1, <2>2 DEF Last, q
      <4> QED
        BY <1>1, <4>1
    <3> QED
      BY <1>3, <2>1, <2>2, <3>1
  <2>4. \A l \in at : l <= m /\ l \in Nat
    BY <1>3, <2>2
  <2> HIDE DEF at
  <2>5. last = m
    <3>1. \A k \in at : (\A l \in at : l <= k) => k = m
      BY <2>2, <2>3, <2>4
    <3> QED
      BY <2>3, <2>4, <3>1
  <2> HIDE DEF last
  <2>6. Last(b.boxes) \in Boxes <=> h[m] \notin BadBoxes
    <3>1. h[m] \in X
      BY <2>3 DEF at
    <3> QED
      BY <2>1, <3>1, BoxesApart DEF X
  <2>7. WellFormed(b) <=> ~(m = 1 \/ h[m] \in BadBoxes)
    BY <1>6, <2>1, <2>6 DEF WellFormed
  <2>8. at # {}
    BY <2>3
  <2> QED
    BY <1>2, <2>1, <2>5, <2>7, <2>8 DEF h
<1> QED
  BY <1>5, <1>6

DetectionMeant(b) == [label |-> Label(b), bbox |-> Last(b.boxes), text |-> WrittenBody(b)]

DetectionPiece(b) == IF WellFormed(b) THEN <<DetectionMeant(b)>> ELSE <<>>

HeaderTokens == Words \cup Boxes \cup BadBoxes

(* A header is made of words and boxes, *)
LEMMA HeaderType ==
    ASSUME NEW b \in Blocks
    PROVE  HeaderOf(b) \in Seq(HeaderTokens)
<1>1. b.label \in Seq(Words) /\ b.boxes \in Seq(Boxes \cup BadBoxes)
  BY DEF Blocks
<1>2. b.label \in Seq(HeaderTokens) /\ b.boxes \in Seq(HeaderTokens)
  BY <1>1, SeqMonotonic DEF HeaderTokens
<1> QED
  BY <1>2, ConcatProperties DEF HeaderOf

(* none of which is markup of a detection. *)
LEMMA HeaderApart == HeaderTokens \cap {Det, DetEnd} = {} /\ Det # DetEnd
<1>1. Words \cap {Det, DetEnd} = {}
  <2>1. DetEnd \in Tags
    BY DEF Tags
  <2> QED
    BY <2>1, MarkupApart
<1>2. (Boxes \cup BadBoxes) \cap {Det, DetEnd} = {} /\ Det # DetEnd
  BY DEF Boxes, BadBoxes, Det, DetEnd
<1> QED
  BY <1>1, <1>2 DEF HeaderTokens

(* Where a block stands: its markers, its header and its body              *)
BlockStands(s, p, b, q, next) ==
    /\ p \in Nat /\ Len(s) \in Nat /\ q \in (p + 2)..next /\ next \in Nat /\ next <= Len(s)
    /\ q = p + Len(HeaderOf(b)) + 2 /\ Len(HeaderOf(b)) \in Nat
    /\ next = q + Len(WrittenBody(b)) /\ Len(WrittenBody(b)) \in Nat
    /\ s[p + 1] = Det /\ s[q] = DetEnd
    /\ StandsAt(s, p + 1, HeaderOf(b)) /\ StandsAt(s, q, WrittenBody(b))

(* Where a block stands, its parts stand. *)
LEMMA BlockParts ==
    ASSUME NEW s, NEW b \in Blocks, NEW p, StandsAt(s, p, WrittenBlock(b))
    PROVE  BlockStands(s, p, b, p + Len(HeaderOf(b)) + 2, p + Len(WrittenBlock(b)))
<1> DEFINE h == HeaderOf(b)
           front == Element(Det, h, DetEnd)
           body == WrittenBody(b)
           whole == WrittenBlock(b)
<1>1. h \in Seq(Tokens) /\ body \in Seq(Tokens) /\ Det \in Tokens /\ DetEnd \in Tokens
  <2>1. DetEnd \in Tags
    BY DEF Tags
  <2> QED
    BY <2>1, WrittenBlockType, WordsAreTokens DEF HeaderOf
<1>2. IsConcat(whole, front, body)
  BY DEF IsConcat, WrittenBlock, HeaderOf
<1> HIDE DEF h, body, whole
<1>3. front \in Seq(Tokens) /\ Len(front) = Len(h) + 2
  BY <1>1, ElementFacts
<1>4. /\ StandsAt(s, p, front) /\ StandsAt(s, p + Len(front), body)
      /\ Len(front) \in Nat /\ Len(body) \in Nat /\ Len(whole) = Len(front) + Len(body)
  <2> HIDE DEF front
  <2>1. StandsAt(s, p, whole)
    BY DEF whole
  <2> QED
    BY <1>1, <1>2, <1>3, <2>1, ConcatStands
<1>5. /\ Len(h) \in Nat /\ p \in Nat /\ Len(s) \in Nat /\ p + Len(h) + 2 <= Len(s)
      /\ s[p + 1] = Det /\ StandsAt(s, p + 1, h) /\ s[p + Len(h) + 2] = DetEnd
  BY <1>1, <1>4, ElementStands
<1> DEFINE q == p + Len(h) + 2
           next == p + Len(whole)
<1>6. q = p + Len(front)
  BY <1>3, <1>5
<1>7. StandsAt(s, q, body) /\ q \in Nat /\ next = q + Len(body)
  BY <1>3, <1>4, <1>5, <1>6
<1>8. next <= Len(s)
  BY <1>7 DEF StandsAt
<1>9. q \in (p + 2)..next /\ next \in Nat
  BY <1>4, <1>5, <1>7
<1> QED
  BY <1>4, <1>5, <1>7, <1>8, <1>9 DEF BlockStands, h, body, whole

(* Only the beginning of a block opens a detection, and only its header is *)
(* closed.                                                                 *)
LEMMA NoDetInBody ==
    ASSUME NEW s, NEW b \in Blocks, NEW p, NEW q, NEW next, BlockStands(s, p, b, q, next)
    PROVE  /\ \A l \in (q + 1)..next : s[l] # Det
           /\ \A l \in (p + 2)..(q - 1) : s[l] # DetEnd
<1> DEFINE h == HeaderOf(b)
           body == WrittenBody(b)
<1>1. /\ p \in Nat /\ q \in Nat /\ next \in Nat /\ q = p + Len(h) + 2 /\ next = q + Len(body)
      /\ Len(h) \in Nat /\ Len(body) \in Nat
      /\ \A k \in 1..Len(h) : s[p + 1 + k] = h[k]
      /\ \A k \in 1..Len(body) : s[q + k] = body[k]
  BY DEF BlockStands, StandsAt
<1>2. \A k \in 1..Len(h) : h[k] \in HeaderTokens
  BY HeaderType, ElementOfSeq
<1>3. \A k \in 1..Len(body) : body[k] \in BodyTokens
  BY WrittenBodyType, ElementOfSeq
<1> HIDE DEF h, body
<1>4. ASSUME NEW l \in (q + 1)..next PROVE s[l] # Det
  <2> DEFINE k == l - q
  <2>1. k \in 1..Len(body) /\ q + k = l
    BY <1>1
  <2> HIDE DEF k
  <2>2. s[q + k] \in BodyTokens
    BY <1>1, <1>3, <2>1
  <2> QED
    BY <2>1, <2>2, MarkupApart
<1>5. ASSUME NEW l \in (p + 2)..(q - 1) PROVE s[l] # DetEnd
  <2> DEFINE k == l - (p + 1)
  <2>1. k \in 1..Len(h) /\ p + 1 + k = l
    BY <1>1
  <2> HIDE DEF k
  <2>2. s[p + 1 + k] \in HeaderTokens
    BY <1>1, <1>2, <2>1
  <2> QED
    BY <2>1, <2>2, HeaderApart
<1> QED
  BY <1>4, <1>5

(* After a block the page ends or the next block begins.                   *)
EndsAt(s, next) == next = Len(s) \/ (next < Len(s) /\ s[next + 1] = Det)

(* Where a block stands up to the next one or the end, the loop finds its  *)
(* header and body.                                                        *)
LEMMA BlockFound ==
    ASSUME NEW T, NEW s \in Seq(T), NEW b \in Blocks, NEW p, NEW q, NEW next,
           BlockStands(s, p, b, q, next), EndsAt(s, next)
    PROVE  /\ ~DOver(s, p + 1) /\ DEnd(s, p + 1) = q /\ DUpTo(s, p + 1) = next
           /\ DHead(s, p + 1) = DetectionHeader(HeaderOf(b))
           /\ SubSeq(s, q + 1, next) = WrittenBody(b)
<1> DEFINE i == p + 1
           j == p + 2
           m == q + 1
           z == next + 1
           L == Len(s)
<1>1. /\ p \in Nat /\ q \in Nat /\ next \in Nat /\ L \in Nat /\ next <= L
      /\ p + 2 <= q /\ q <= next /\ s[p + 1] = Det /\ s[q] = DetEnd
      /\ q = p + Len(HeaderOf(b)) + 2 /\ Len(HeaderOf(b)) \in Nat
      /\ next = q + Len(WrittenBody(b))
  BY DEF BlockStands
<1>2. /\ \A l \in (q + 1)..next : s[l] # Det
      /\ \A l \in (p + 2)..(q - 1) : s[l] # DetEnd
  BY NoDetInBody
<1>3. i \in Nat \ {0} /\ j \in Nat \ {0} /\ m \in Nat \ {0} /\ z \in Nat \ {0} /\ j = i + 1 /\ i # None
  BY <1>1 DEF None
<1>4. DStart(s, i) = i
  <2>1. s[i] \in {Det} /\ i \in i..L /\ \A l \in i..(i - 1) : s[l] \notin {Det}
    BY <1>1
  <2> HIDE DEF i
  <2>2. FirstIn(s, {Det}, i) = i
    BY <1>1, <1>3, <2>1, FirstInIs
  <2> QED
    BY <2>2 DEF DStart
<1>5. DEnd(s, i) = q
  <2>1. s[q] \in {DetEnd} /\ q \in j..L /\ \A l \in j..(q - 1) : s[l] \notin {DetEnd}
    BY <1>1, <1>2
  <2>2. DEnd(s, i) = FirstIn(s, {DetEnd}, j)
    BY <1>3, <1>4 DEF DEnd
  <2> HIDE DEF i, j
  <2>3. FirstIn(s, {DetEnd}, j) = q
    BY <1>1, <1>3, <2>1, FirstInIs
  <2> QED
    BY <2>2, <2>3
<1>6. ~DOver(s, i)
  <2>1. q # None /\ DStart(s, i) # None
    BY <1>1, <1>3, <1>4 DEF None
  <2> QED
    BY <1>5, <2>1 DEF DOver
<1>7. DUpTo(s, i) = next
  <2>1. DNext(s, i) = FirstIn(s, {Det}, m)
    BY <1>5 DEF DNext
  <2>2. CASE next = L
    <3>1. \A l \in m..L : s[l] \notin {Det}
      BY <1>2, <2>2
    <3> HIDE DEF m
    <3>2. FirstIn(s, {Det}, m) = None
      BY <1>1, <1>3, <3>1, FirstInNone
    <3> QED
      BY <2>1, <2>2, <3>2 DEF DUpTo
  <2>3. CASE next < L /\ s[next + 1] = Det
    <3>1. z \in m..L /\ s[z] \in {Det}
      BY <1>1, <2>3
    <3>2. \A l \in m..(z - 1) : s[l] \notin {Det}
      BY <1>1, <1>2
    <3>3. z # None /\ z - 1 = next
      BY <1>1 DEF None
    <3> HIDE DEF m, z
    <3>4. FirstIn(s, {Det}, m) = z
      BY <1>1, <1>3, <3>1, <3>2, FirstInIs
    <3>5. DNext(s, i) = z
      BY <2>1, <3>4
    <3> QED
      BY <3>3, <3>5 DEF DUpTo
  <2> QED
    BY <2>2, <2>3 DEF EndsAt
<1>8. DHead(s, i) = DetectionHeader(HeaderOf(b))
  <2>1. StandsAt(s, i, HeaderOf(b)) /\ HeaderOf(b) \in Seq(HeaderTokens)
    BY HeaderType DEF BlockStands
  <2>2. i + 1 = DStart(s, i) + 1 /\ i + Len(HeaderOf(b)) = DEnd(s, i) - 1
    BY <1>1, <1>4, <1>5
  <2> HIDE DEF i
  <2>3. SubSeq(s, i + 1, i + Len(HeaderOf(b))) = HeaderOf(b)
    BY <2>1, PartStands
  <2> QED
    BY <2>2, <2>3 DEF DHead
<1>9. SubSeq(s, q + 1, next) = WrittenBody(b)
  <2>1. StandsAt(s, q, WrittenBody(b)) /\ WrittenBody(b) \in Seq(BodyTokens)
    BY WrittenBodyType DEF BlockStands
  <2>2. SubSeq(s, q + 1, q + Len(WrittenBody(b))) = WrittenBody(b)
    BY <2>1, PartStands
  <2> QED
    BY <1>1, <2>2
<1> QED
  BY <1>5, <1>6, <1>7, <1>8, <1>9

(* A block is found as it was meant, or skipped.                           *)
LEMMA BlockAt ==
    ASSUME NEW T, NEW s \in Seq(T), NEW f, DFrom(f, s), NEW b \in Blocks, NEW p, NEW q, NEW next,
           BlockStands(s, p, b, q, next), EndsAt(s, next)
    PROVE  Goes(f, p + 1, DetectionPiece(b), next + 1)
<1> DEFINE i == p + 1
           m == q + 1
           z == next + 1
           L == Len(s)
           x == [label |-> Label(b), bbox |-> Last(b.boxes)]
<1>1. /\ p \in Nat /\ q \in Nat /\ next \in Nat /\ L \in Nat /\ next <= L /\ p + 2 <= q /\ q <= next
  BY DEF BlockStands
<1>2. /\ ~DOver(s, i) /\ DEnd(s, i) = q /\ DUpTo(s, i) = next
      /\ DHead(s, i) = DetectionHeader(HeaderOf(b))
      /\ SubSeq(s, m, next) = WrittenBody(b)
  BY BlockFound
<1>3. i \in 1..(L + 1) /\ m \in 1..(L + 1) /\ z \in m..(L + 1) /\ z \in 1..(L + 1)
  BY <1>1
<1>4. f[i] = IF DHead(s, i) = {} THEN f[m] ELSE <<DFound(s, i)>> \o f[z]
  <2> HIDE DEF i
  <2> QED
    BY <1>2, <1>3 DEF DFrom
<1>5. CASE WellFormed(b)
  <2>1. DHead(s, i) = {x}
    BY <1>2, <1>5, HeaderAsMeant
  <2>2. (CHOOSE y \in DHead(s, i) : TRUE) = x
    <3> HIDE DEF i, x
    <3> QED
      BY <2>1
  <2>3. DFound(s, i) = DetectionMeant(b)
    <3>1. x.label = Label(b) /\ x.bbox = Last(b.boxes)
      OBVIOUS
    <3> HIDE DEF x, i
    <3>2. DFound(s, i) = [label |-> x.label, bbox |-> x.bbox, text |-> WrittenBody(b)]
      BY <1>2, <2>2 DEF DFound
    <3> QED
      BY <3>1, <3>2 DEF DetectionMeant
  <2>4. DetectionPiece(b) = <<DetectionMeant(b)>>
    BY <1>5 DEF DetectionPiece
  <2> HIDE DEF x, i
  <2>5. f[i] = <<DetectionMeant(b)>> \o f[z]
    BY <1>4, <2>1, <2>3
  <2> QED
    BY <2>4, <2>5 DEF Goes, i
<1>6. CASE ~WellFormed(b)
  <2>1. DHead(s, i) = {}
    BY <1>2, <1>6, HeaderAsMeant
  <2>2. f[m] = f[z]
    <3>1. \A l \in m..(z - 1) : s[l] # Det
      BY <1>1, NoDetInBody
    <3> HIDE DEF m, z
    <3> QED
      BY <1>1, <1>3, <3>1, DSkips
  <2>3. f[z] \in Seq(Found(T))
    <3> HIDE DEF z
    <3> QED
      BY <1>3, DetectionsType
  <2>4. <<>> \o f[z] = f[z]
    BY <2>3, ConcatEmptySeq
  <2>5. f[i] = <<>> \o f[z]
    BY <1>4, <2>1, <2>2, <2>4
  <2>6. DetectionPiece(b) = <<>>
    BY <1>6 DEF DetectionPiece
  <2> QED
    BY <2>5, <2>6 DEF Goes
<1> QED
  BY <1>5, <1>6

(* Where the blocks of a page stand: block k after B[k - 1], up to B[k].   *)
AreBlockPlaces(B, bs) ==
    LET s == Written(bs)
        n == Len(bs)
    IN  /\ B[0] = 1 /\ B[n] = Len(s) /\ s[1] = "preface"
        /\ \A k \in 0..n : B[k] \in Nat
        /\ \A k \in 1..n : /\ B[k] = B[k - 1] + Len(WrittenBlock(bs[k]))
                           /\ StandsAt(s, B[k - 1], WrittenBlock(bs[k]))

(* Every block of a page stands at a place, one right behind the other. *)
LEMMA PageLayout ==
    ASSUME NEW bs \in Seq(Blocks)
    PROVE  \E B : AreBlockPlaces(B, bs)
<1> DEFINE seqs == [i \in DOMAIN bs |-> WrittenBlock(bs[i])]
           flat == FlattenSeq(seqs)
           front == <<"preface">>
           n == Len(bs)
<1>1. n \in Nat /\ DOMAIN bs = 1..n
  BY LenProperties
<1>2. seqs \in Seq(Seq(Tokens)) /\ Len(seqs) = n
  <2>1. seqs \in Seq(Seq(Tokens))
    BY WrittenType
  <2> QED
    BY <1>1, <2>1, LenProperties
<1>3. \A k \in 1..n : seqs[k] = WrittenBlock(bs[k])
  BY <1>1
<1>4. Written(bs) = front \o flat
  BY DEF Written
<1> HIDE DEF seqs
<1>5. PICK F \in [0..Len(seqs) -> Seq(Tokens)] : ArePartsOf(F, seqs)
  BY <1>2, FlattenParts
<1>6. flat \in Seq(Tokens) /\ front \in Seq(Tokens) /\ Len(front) = 1 /\ front[1] = "preface"
  BY <1>2, FlattenType, WordsAreTokens
<1>7. Len(flat) = Len(F[n]) /\ F[0] = <<>> /\ \A k \in 0..n : Len(F[k]) \in Nat
  BY <1>2, <1>5 DEF ArePartsOf
<1> DEFINE B == [k \in 0..n |-> 1 + Len(F[k])]
           s == Written(bs)
<1> HIDE DEF flat, front
<1>8. /\ s \in Seq(Tokens) /\ Len(s) = 1 + Len(flat) /\ Len(s) \in Nat
      /\ \A i \in 1..(1 + Len(flat)) : s[i] = IF i <= 1 THEN front[i] ELSE flat[i - 1]
  <2>1. /\ front \o flat \in Seq(Tokens) /\ Len(front \o flat) = Len(front) + Len(flat)
        /\ \A i \in 1..(Len(front) + Len(flat)) :
             (front \o flat)[i] = IF i <= Len(front) THEN front[i] ELSE flat[i - Len(front)]
    BY <1>6, ConcatProperties
  <2> HIDE DEF s
  <2>2. s = front \o flat
    BY <1>4 DEF s
  <2>3. Len(s) \in Nat
    BY <2>1, <2>2, LenProperties
  <2> QED
    BY <1>6, <2>1, <2>2, <2>3
<1> HIDE DEF s
<1>9. Len(flat) \in Nat /\ Len(<<>>) = 0
  BY <1>1, <1>7
<1>10. B[0] = 1 /\ B[n] = Len(s) /\ s[1] = "preface" /\ \A k \in 0..n : B[k] \in Nat
  <2>1. 0 \in 0..n /\ n \in 0..n /\ 1 \in 1..(1 + Len(flat))
    BY <1>1, <1>9
  <2>2. s[1] = "preface"
    BY <1>6, <1>8, <2>1
  <2> QED
    BY <1>7, <1>8, <1>9, <2>1, <2>2
<1>11. ASSUME NEW k \in 1..n
       PROVE  B[k] = B[k - 1] + Len(WrittenBlock(bs[k])) /\ StandsAt(s, B[k - 1], WrittenBlock(bs[k]))
  <2> DEFINE w == WrittenBlock(bs[k])
             c == Len(F[k - 1])
  <2>1. k \in 0..n /\ k - 1 \in 0..n /\ k \in 1..Len(seqs)
    BY <1>1, <1>2
  <2>2. /\ StandsAt(flat, Len(F[k - 1]), seqs[k]) /\ Len(F[k]) = Len(F[k - 1]) + Len(seqs[k])
        /\ Len(F[k - 1]) \in Nat /\ Len(seqs[k]) \in Nat
    BY <1>2, <1>5, <2>1, PiecesStand DEF flat
  <2>3. StandsAt(flat, c, w) /\ Len(F[k]) = c + Len(w) /\ c \in Nat /\ Len(w) \in Nat
    BY <1>3, <2>2
  <2>4. B[k] = 1 + Len(F[k]) /\ B[k - 1] = 1 + c
    BY <2>1
  <2> HIDE DEF w, c, B
  <2>5. B[k] = B[k - 1] + Len(w)
    BY <2>3, <2>4
  <2>6. c + Len(w) <= Len(flat) /\ \A j \in 1..Len(w) : flat[c + j] = w[j]
    BY <2>3 DEF StandsAt
  <2>7. ASSUME NEW j \in 1..Len(w) PROVE s[1 + c + j] = w[j]
    <3>1. 1 + c + j \in 1..(1 + Len(flat)) /\ ~(1 + c + j <= 1) /\ 1 + c + j - 1 = c + j
      BY <1>9, <2>3, <2>6
    <3>2. s[1 + c + j] = flat[c + j]
      <4> DEFINE l == 1 + c + j
      <4>1. l \in 1..(1 + Len(flat)) /\ ~(l <= 1) /\ l - 1 = c + j
        BY <1>9, <2>3, <2>6, <3>1
      <4> HIDE DEF l
      <4>2. s[l] = flat[l - 1]
        BY <1>8, <4>1
      <4> QED
        BY <4>1, <4>2 DEF l
    <3> QED
      BY <2>6, <3>2
  <2>8. 1 + c \in Nat /\ 1 + c + Len(w) <= Len(s)
    BY <1>8, <1>9, <2>3, <2>6
  <2>9. StandsAt(s, 1 + c, w)
    BY <1>8, <2>3, <2>7, <2>8 DEF StandsAt
  <2> QED
    BY <2>4, <2>5, <2>9 DEF w
<1> HIDE DEF B, n
<1>12. AreBlockPlaces(B, bs)
  BY <1>10, <1>11 DEF AreBlockPlaces, s, n
<1> QED
  BY <1>12

(* A page is found block by block.                                         *)
LEMMA PageFound ==
    ASSUME NEW bs \in Seq(Blocks)
    PROVE  Detections(Written(bs)) = FlattenSeq([i \in DOMAIN bs |-> DetectionPiece(bs[i])])
<1> DEFINE s == Written(bs)
           n == Len(bs)
           L == Len(s)
           D == {DetectionMeant(b) : b \in Blocks}
           seqs == [i \in DOMAIN bs |-> DetectionPiece(bs[i])]
<1>1. n \in Nat /\ DOMAIN bs = 1..n /\ \A k \in 1..n : bs[k] \in Blocks
  BY LenProperties, ElementOfSeq
<1>2. s \in Seq(Tokens) /\ L \in Nat
  BY WrittenType, LenProperties
<1>3. seqs \in Seq(Seq(D)) /\ Len(seqs) = n /\ \A k \in 1..n : seqs[k] = DetectionPiece(bs[k])
  <2>1. \A b \in Blocks : DetectionPiece(b) \in Seq(D)
    <3> TAKE b \in Blocks
    <3>1. DetectionMeant(b) \in D
      OBVIOUS
    <3> HIDE DEF D
    <3>2. <<>> \in Seq(D) /\ <<DetectionMeant(b)>> \in Seq(D)
      BY <3>1
    <3> QED
      BY <3>2 DEF DetectionPiece
  <2> HIDE DEF D
  <2>2. seqs \in [1..n -> Seq(D)]
    BY <1>1, <2>1
  <2>3. \A k \in 1..n : seqs[k] = DetectionPiece(bs[k])
    BY <1>1
  <2> HIDE DEF seqs, n
  <2> QED
    BY <1>1, <2>2, <2>3, FcnIsSeq
<1>4. PICK f : Detections(s) = f[1] /\ DFrom(f, s)
  BY <1>2, DetectionsUnfold
<1>5. PICK B : AreBlockPlaces(B, bs)
  BY PageLayout
<1>6. /\ B[0] = 1 /\ B[n] = L /\ s[1] = "preface"
      /\ \A k \in 0..n : B[k] \in Nat
      /\ \A k \in 1..n : B[k] = B[k - 1] + Len(WrittenBlock(bs[k]))
                         /\ StandsAt(s, B[k - 1], WrittenBlock(bs[k]))
  BY <1>5 DEF AreBlockPlaces
<1> HIDE DEF s, n, D, seqs
<1>7. \A k \in 1..n : BlockStands(s, B[k - 1], bs[k], B[k - 1] + Len(HeaderOf(bs[k])) + 2, B[k])
  <2> TAKE k \in 1..n
  <2> DEFINE p == B[k - 1]
             b == bs[k]
  <2>1. b \in Blocks /\ StandsAt(s, p, WrittenBlock(b)) /\ B[k] = p + Len(WrittenBlock(b))
    BY <1>1, <1>6
  <2> HIDE DEF p, b
  <2>2. BlockStands(s, p, b, p + Len(HeaderOf(b)) + 2, p + Len(WrittenBlock(b)))
    BY <2>1, BlockParts
  <2> QED
    BY <2>1, <2>2 DEF p, b
<1>8. \A k \in 1..n : EndsAt(s, B[k])
  <2> TAKE k \in 1..n
  <2>1. CASE k = n
    BY <1>6, <2>1 DEF EndsAt
  <2>2. CASE k # n
    <3>1. k + 1 \in 1..n /\ k + 1 - 1 = k
      BY <1>1, <2>2
    <3>2. BlockStands(s, B[k], bs[k + 1], B[k] + Len(HeaderOf(bs[k + 1])) + 2, B[k + 1])
      BY <1>7, <3>1
    <3>3. /\ s[B[k] + 1] = Det /\ B[k] \in Nat /\ B[k + 1] \in Nat /\ B[k + 1] <= L
          /\ B[k] + Len(HeaderOf(bs[k + 1])) + 2 \in (B[k] + 2)..B[k + 1]
      BY <3>2 DEF BlockStands
    <3>4. B[k] < L
      BY <1>2, <3>3
    <3> QED
      BY <3>3, <3>4 DEF EndsAt
  <2> QED
    BY <2>1, <2>2
<1> DEFINE g == [k \in 0..n |-> f[B[k] + 1]]
<1>9. \A k \in 1..n : g[k - 1] = seqs[k] \o g[k]
  <2> TAKE k \in 1..n
  <2> DEFINE p == B[k - 1]
             b == bs[k]
             next == B[k]
             q == p + Len(HeaderOf(b)) + 2
  <2>1. k \in 0..n /\ k - 1 \in 0..n
    BY <1>1
  <2>2. b \in Blocks /\ BlockStands(s, p, b, q, next) /\ EndsAt(s, next)
    BY <1>1, <1>7, <1>8
  <2>3. g[k - 1] = f[p + 1] /\ g[k] = f[next + 1] /\ seqs[k] = DetectionPiece(b)
    BY <1>3, <2>1
  <2> HIDE DEF p, b, next, q, g
  <2>4. Goes(f, p + 1, DetectionPiece(b), next + 1)
    BY <1>2, <1>4, <2>2, BlockAt
  <2> QED
    BY <2>3, <2>4 DEF Goes
<1>10. g[0] = f[1]
  <2>1. g[0] = f[2]
    BY <1>1, <1>6
  <2>2. f[1] = f[2]
    <3> DEFINE one == 1
               two == 2
    <3>1. L >= 1
      <4>1. \A k \in 0..n : B[k] >= 1
        <5> DEFINE P == {k \in 0..n : B[k] >= 1}
        <5>1. ASSUME NEW k \in 0..n, \A m \in 0..(k - 1) : m \in P PROVE k \in P
          <6>1. CASE k = 0
            BY <1>1, <1>6, <6>1
          <6>2. CASE k # 0
            <7>1. k \in 1..n /\ k - 1 \in 0..(k - 1) /\ k - 1 \in 0..n
              BY <1>1, <6>2
            <7>2. B[k - 1] >= 1 /\ BlockStands(s, B[k - 1], bs[k], B[k - 1] + Len(HeaderOf(bs[k])) + 2, B[k])
              BY <1>7, <5>1, <7>1
            <7>3. B[k] >= B[k - 1]
              BY <7>2, SMTT(30) DEF BlockStands
            <7>4. B[k] \in Nat /\ B[k - 1] \in Nat
              BY <1>6, <7>1
            <7> QED
              BY <7>2, <7>3, <7>4
          <6> QED
            BY <6>1, <6>2
        <5> HIDE DEF P
        <5>2. \A k \in 0..n : k \in P
          BY <1>1, <5>1, UpTo
        <5> QED
          BY <5>2 DEF P
      <4> QED
        BY <1>1, <1>6, <4>1
    <3>2. one \in 1..(L + 1) /\ two \in one..(L + 1) /\ \A l \in one..(two - 1) : s[l] # Det
      <4>1. s[1] # Det
        BY <1>6 DEF Det
      <4> QED
        BY <1>2, <3>1, <4>1
    <3> HIDE DEF one, two
    <3>3. f[one] = f[two]
      BY <1>2, <1>4, <3>2, DSkips
    <3> QED
      BY <3>3 DEF one, two
  <2> QED
    BY <2>1, <2>2
<1>11. g[n] = <<>>
  <2> DEFINE z == L + 1
  <2>1. g[n] = f[z]
    BY <1>1, <1>6
  <2>2. z \in Nat \ {0} /\ z \in 1..(L + 1) /\ \A l \in z..L : s[l] \notin {Det}
    BY <1>2
  <2> HIDE DEF z, g
  <2>3. FirstIn(s, {Det}, z) = None
    BY <1>2, <2>2, FirstInNone
  <2>4. DOver(s, z)
    BY <2>3 DEF DOver, DStart
  <2> QED
    BY <1>4, <2>1, <2>2, <2>4 DEF DFrom
<1> HIDE DEF g
<1>12. IsChain(g, seqs) /\ g[Len(seqs)] = <<>>
  BY <1>3, <1>9, <1>11 DEF IsChain
<1>13. g[0] = FlattenSeq(seqs)
  BY <1>3, <1>12, ChainEnds
<1> QED
  BY <1>4, <1>10, <1>13 DEF seqs, s

MeantViewPiece(b) == IF WellFormed(b) THEN <<MeantView(b)>> ELSE <<>>

(* No rows are meant by none. *)
LEMMA NoRowsMeant == MeantRows(<<>>) = <<>>
<1> DEFINE seqs == [i \in DOMAIN <<>> |-> IF <<>>[i] = <<>> THEN <<>> ELSE <<MeantRow(<<>>[i])>>]
<1>1. seqs = <<>> /\ seqs \in Seq(Seq({})) /\ Len(seqs) = 0
  OBVIOUS
<1>2. MeantRows(<<>>) = FlattenSeq(seqs)
  BY DEF MeantRows
<1> HIDE DEF seqs
<1>3. PICK F \in [0..Len(seqs) -> Seq({})] : ArePartsOf(F, seqs)
  BY <1>1, FlattenParts
<1>4. F[0] = <<>> /\ F[Len(seqs)] = FlattenSeq(seqs)
  BY <1>3 DEF ArePartsOf
<1> QED
  BY <1>1, <1>2, <1>4

(* A block is viewed as it was meant.                                      *)
LEMMA ViewAsMeant ==
    ASSUME NEW b \in Blocks
    PROVE  ViewOf(DetectionMeant(b)) = MeantView(b)
<1> DEFINE d == DetectionMeant(b)
           table == {<<"table">>, <<"Table">>}
<1>1. d.label = Label(b) /\ d.bbox = Last(b.boxes) /\ d.text = WrittenBody(b)
  BY DEF DetectionMeant
<1> HIDE DEF d
<1>2. TableRows(WrittenBody(b)) = MeantRows(b.rows)
  <2>1. b.rows \in Seq(Seq(CellsMeant)) /\ b.words \in Seq(Words)
    BY DEF Blocks
  <2>2. CASE b.rows = <<>>
    <3>1. WrittenBody(b) = b.words
      BY <2>2 DEF WrittenBody
    <3>2. TableRows(b.words) = <<>>
      BY <2>1, WordsAreNoTable
    <3> QED
      BY <2>2, <3>1, <3>2, NoRowsMeant
  <2>3. CASE b.rows # <<>>
    <3> DEFINE rs == b.rows
    <3>1. rs \in Seq(Seq(CellsMeant)) /\ rs # <<>> /\ WrittenBody(b) = WrittenTable(rs)
      BY <2>1, <2>3 DEF WrittenBody
    <3> HIDE DEF rs
    <3>2. TableRows(WrittenTable(rs)) = MeantRows(rs)
      BY <3>1, TableAsMeant
    <3> QED
      BY <3>1, <3>2 DEF rs
  <2> QED
    BY <2>2, <2>3
<1>3. RowsOf(d) = IF Label(b) \in table THEN MeantRows(b.rows) ELSE <<>>
  BY <1>1, <1>2 DEF RowsOf, IsTable
<1>4. ViewOf(d) = [label |-> Label(b), bbox |-> Last(b.boxes), text |-> WrittenBody(b), rows |-> RowsOf(d)]
  BY <1>1 DEF ViewOf
<1> QED
  BY <1>3, <1>4 DEF d, MeantView

(* A whole page is shown as it was meant.                                  *)
LEMMA PageAsMeant ==
    ASSUME NEW bs \in Seq(Blocks)
    PROVE  DetectionViews(ParseOcrResult(Written(bs))) = MeantViews(bs)
<1> DEFINE n == Len(bs)
           D == {DetectionMeant(b) : b \in Blocks}
           R == {MeantView(b) : b \in Blocks}
           V == [d \in D |-> ViewOf(d)]
           a == [i \in DOMAIN bs |-> DetectionPiece(bs[i])]
           c == [i \in DOMAIN bs |-> MeantViewPiece(bs[i])]
           ds == FlattenSeq(a)
           vs == FlattenSeq(c)
           result == ParseOcrResult(Written(bs))
<1>1. n \in Nat /\ DOMAIN bs = 1..n /\ \A k \in 1..n : bs[k] \in Blocks
  BY LenProperties, ElementOfSeq
<1>2. \A b \in Blocks : /\ DetectionPiece(b) \in Seq(D) /\ MeantViewPiece(b) \in Seq(R)
                        /\ MapsTo(DetectionPiece(b), MeantViewPiece(b), V)
  <2> TAKE b \in Blocks
  <2> DEFINE x == DetectionMeant(b)
             y == MeantView(b)
  <2>1. x \in D /\ y \in R /\ V[x] = y
    BY ViewAsMeant
  <2> HIDE DEF D, R, V, x, y
  <2>2. <<>> \in Seq(D) /\ <<x>> \in Seq(D) /\ <<>> \in Seq(R) /\ <<y>> \in Seq(R)
    BY <2>1
  <2>3. MapsTo(<<>>, <<>>, V) /\ MapsTo(<<x>>, <<y>>, V)
    BY <2>1 DEF MapsTo
  <2> QED
    BY <2>2, <2>3 DEF DetectionPiece, MeantViewPiece, x, y
<1>3. \A k \in 1..n : a[k] = DetectionPiece(bs[k]) /\ c[k] = MeantViewPiece(bs[k])
  BY <1>1
<1>4. MeantViews(bs) = vs
  BY DEF MeantViews, MeantViewPiece
<1>5. Detections(Written(bs)) = ds
  BY PageFound
<1> HIDE DEF D, R, V
<1>6. a \in [1..n -> Seq(D)] /\ c \in [1..n -> Seq(R)]
  BY <1>1, <1>2
<1> HIDE DEF a, c, n
<1>7. a \in Seq(Seq(D)) /\ Len(a) = n /\ c \in Seq(Seq(R)) /\ Len(c) = n
  BY <1>1, <1>6, FcnIsSeq
<1>8. MapsTo(ds, vs, V)
  <2>1. \A k \in 1..Len(a) : MapsTo(a[k], c[k], V)
    BY <1>1, <1>2, <1>3, <1>7
  <2> QED
    BY <1>7, <2>1, FlattenMaps
<1>9. ds \in Seq(D) /\ vs \in Seq(R)
  BY <1>7, FlattenType
<1>10. result.detections = ds /\ result.tables = Tables(ds)
  <2> HIDE DEF ds
  <2> QED
    BY <1>5 DEF ParseOcrResult
<1> HIDE DEF ds, vs, result
<1>11. DetectionViews(result) = ViewsUpTo(ds, Len(ds))
  BY <1>9, <1>10, ViewsUnfold
<1>12. ViewsUpTo(ds, Len(ds)) = vs
  <2>1. Len(ds) \in Nat /\ Len(vs) = Len(ds) /\ DOMAIN vs = 1..Len(vs)
    BY <1>8, <1>9, LenProperties DEF MapsTo
  <2>2. \A j \in 1..Len(ds) : vs[j] = ViewOf(ds[j])
    <3> TAKE j \in 1..Len(ds)
    <3>1. ds[j] \in D
      BY <1>9, ElementOfSeq
    <3>2. vs[j] = V[ds[j]]
      BY <1>8 DEF MapsTo
    <3> QED
      BY <3>1, <3>2 DEF V
  <2>3. vs = [j \in 1..Len(vs) |-> vs[j]]
    BY <1>9, <2>1
  <2> QED
    BY <2>1, <2>2, <2>3 DEF ViewsUpTo
<1> QED
  BY <1>4, <1>11, <1>12 DEF result

(* The answer of every page is what was meant. *)
LEMMA PageShownAsMeantHolds ==
    AnswerInv => PageShownAsMeant
<1> SUFFICES ASSUME AnswerInv, answer.kind = "page", answer.cut = Len(Written(answer.blocks))
             PROVE  DetectionViews(Result) = MeantViews(answer.blocks)
  BY DEF PageShownAsMeant
<1> DEFINE bs == answer.blocks
           s == Written(bs)
<1>1. bs \in Seq(Blocks)
  BY ViewsAssumption DEF AnswerInv
<1> HIDE DEF bs
<1>2. s \in Seq(Tokens)
  BY <1>1, WrittenType
<1>3. DetectionViews(ParseOcrResult(s)) = MeantViews(bs)
  BY <1>1, PageAsMeant
<1> HIDE DEF s
<1>4. SubSeq(s, 1, Len(s)) = s
  BY <1>2, SubSeqFull
<1>5. Result = ParseOcrResult(s)
  BY <1>4 DEF Result, s, bs
<1> QED
  BY <1>3, <1>5 DEF bs

(***************************************************************************)
(* A table that was damaged                                                *)
(***************************************************************************)
(* A row is closed by its last token and no other. *)
LEMMA RowCloses ==
    ASSUME NEW r \in Seq(CellsMeant)
    PROVE  /\ Len(WrittenRow(r)) \in Nat /\ Len(WrittenRow(r)) >= 2
           /\ WrittenRow(r)[Len(WrittenRow(r))] = "</tr>"
           /\ \A k \in 1..(Len(WrittenRow(r)) - 1) : WrittenRow(r)[k] # "</tr>"
<1> DEFINE S == Words \cup CellMarkup
           U == S \cup {"<tr>", "</tr>"}
           inner == RowContent(r)
           w == WrittenRow(r)
           open == "<tr>"
           close == "</tr>"
<1>1. inner \in Seq(S) /\ S \subseteq U /\ open \in U /\ close \in U
  BY RowContentType
<1>2. w = Element(open, inner, close)
  BY WrittenParts
<1>3. \A x \in S : x # close
  BY MarkupApart
<1>3a. open # close
  OBVIOUS
<1> HIDE DEF S, U, inner, w, open, close
<1>4. inner \in Seq(U) /\ Len(inner) \in Nat /\ \A k \in 1..Len(inner) : inner[k] \in S
  BY <1>1, SeqMonotonic, ElementOfSeq, LenProperties
<1>5. /\ Len(w) = Len(inner) + 2 /\ w[1] = open /\ w[Len(inner) + 2] = close
      /\ \A k \in 1..Len(inner) : w[k + 1] = inner[k]
  <2>1. /\ Len(Element(open, inner, close)) = Len(inner) + 2
        /\ Element(open, inner, close)[1] = open
        /\ Element(open, inner, close)[Len(inner) + 2] = close
        /\ \A k \in 1..Len(inner) : Element(open, inner, close)[k + 1] = inner[k]
    BY <1>1, <1>4, ElementFacts
  <2> QED
    BY <1>2, <2>1
<1>6. \A k \in 1..(Len(w) - 1) : w[k] # close
  <2> TAKE k \in 1..(Len(w) - 1)
  <2>1. CASE k = 1
    BY <1>3a, <1>5, <2>1
  <2>2. CASE k # 1
    <3> DEFINE j == k - 1
    <3>1. j \in 1..Len(inner) /\ j + 1 = k
      BY <1>4, <1>5, <2>2
    <3> HIDE DEF j
    <3>2. w[j + 1] = inner[j] /\ inner[j] \in S
      BY <1>4, <1>5, <3>1
    <3> QED
      BY <1>3, <3>1, <3>2
  <2> QED
    BY <2>1, <2>2
<1> QED
  BY <1>4, <1>5, <1>6 DEF w, close

(* The rows of a written table end at E[1], E[2], ..., and nowhere else.   *)
LEMMA RowEnds ==
    ASSUME NEW rs \in Seq(Seq(CellsMeant)), rs # <<>>, NEW P, NEW E, AreRowPlaces(P, E, rs)
    PROVE  /\ \A k \in 1..Len(rs) : WrittenTable(rs)[E[k]] = "</tr>"
           /\ \A l \in 1..Len(WrittenTable(rs)) :
                 WrittenTable(rs)[l] = "</tr>" => \E k \in 1..Len(rs) : l = E[k]
<1> DEFINE html == WrittenTable(rs)
           n == Len(rs)
           L == Len(html)
<1>1. n \in Nat /\ \A k \in 1..n : rs[k] \in Seq(CellsMeant)
  BY LenProperties, ElementOfSeq
<1>2. L \in Nat /\ html[1] = "<table border=1>"
  BY TableFrame
<1>2a. L \in Nat
  BY <1>2
<1>3. /\ E[0] = 1
      /\ \A k \in 1..n : /\ P[k] \in Nat /\ E[k] \in Nat /\ E[k] = P[k] + Len(WrittenRow(rs[k]))
                         /\ E[k - 1] \in Nat /\ E[k - 1] <= P[k] /\ P[k] < E[k] /\ E[k] < L
                         /\ StandsAt(html, P[k], WrittenRow(rs[k]))
                         /\ \A l \in (E[k - 1] + 1)..P[k] : html[l] # "</tr>"
      /\ \A l \in (E[n] + 1)..L : html[l] # "</tr>"
  BY DEF AreRowPlaces
<1> HIDE DEF html, n, L
<1>4. ASSUME NEW k \in 1..n
      PROVE  /\ html[E[k]] = "</tr>"
             /\ \A l \in (P[k] + 1)..(E[k] - 1) : html[l] # "</tr>"
  <2> DEFINE w == WrittenRow(rs[k])
             p == P[k]
  <2>1. /\ Len(w) \in Nat /\ Len(w) >= 2 /\ w[Len(w)] = "</tr>"
        /\ \A j \in 1..(Len(w) - 1) : w[j] # "</tr>"
    BY <1>1, RowCloses
  <2>2. StandsAt(html, p, w) /\ p \in Nat /\ E[k] = p + Len(w)
    BY <1>3
  <2> HIDE DEF w, p
  <2>3. \A j \in 1..Len(w) : html[p + j] = w[j]
    BY <2>2 DEF StandsAt
  <2>4. html[E[k]] = "</tr>"
    BY <2>1, <2>2, <2>3
  <2>5. ASSUME NEW l \in (p + 1)..(E[k] - 1) PROVE html[l] # "</tr>"
    <3> DEFINE j == l - p
    <3>1. j \in 1..(Len(w) - 1) /\ j \in 1..Len(w) /\ p + j = l
      BY <2>1, <2>2
    <3> HIDE DEF j
    <3> QED
      BY <2>1, <2>3, <3>1
  <2> QED
    BY <2>4, <2>5 DEF p
<1>5. ASSUME NEW l \in 1..L, html[l] = "</tr>"
      PROVE  \E k \in 1..n : l = E[k]
  <2> DEFINE Q == {k \in 0..n : l <= E[k]}
  <2>0. l \in Nat /\ l <= L
    BY <1>2a
  <2>1. l # 1
    BY <1>2, <1>5
  <2>2. Q # {}
    <3>1. E[n] \in Nat
      <4>1. CASE n = 0
        BY <1>3, <4>1
      <4>2. CASE n # 0
        <5>1. n \in 1..n
          BY <1>1, <4>2
        <5> QED
          BY <1>3, <5>1
      <4> QED
        BY <4>1, <4>2
    <3>2. l <= E[n]
      <4>1. l \notin (E[n] + 1)..L
        BY <1>3, <1>5
      <4> QED
        BY <1>2a, <2>0, <3>1, <4>1
    <3>3. n \in 0..n
      BY <1>1
    <3> QED
      BY <3>2, <3>3
  <2>3. Q \in SUBSET Nat
    OBVIOUS
  <2> HIDE DEF Q
  <2>4. PICK k \in Q : \A y \in Q : k <= y
    BY <2>2, <2>3, LeastOf
  <2>5. k \in 0..n /\ l <= E[k]
    BY DEF Q
  <2>6. k # 0
    BY <1>3, <2>1, <2>5
  <2>7. k \in 1..n /\ k - 1 \in 0..n /\ ~(k <= k - 1)
    BY <1>1, <2>5, <2>6
  <2>8. ~(l <= E[k - 1])
    BY <2>4, <2>7 DEF Q
  <2>9. /\ P[k] \in Nat /\ E[k] \in Nat /\ E[k - 1] \in Nat /\ l \in Nat
        /\ \A j \in (E[k - 1] + 1)..P[k] : html[j] # "</tr>"
    BY <1>3, <2>0, <2>7
  <2>10. ~(l <= P[k])
    <3>1. l \notin (E[k - 1] + 1)..P[k]
      BY <1>5, <2>9
    <3> QED
      BY <2>8, <2>9, <3>1
  <2>11. l \notin (P[k] + 1)..(E[k] - 1)
    BY <1>4, <1>5, <2>7
  <2>12. l = E[k]
    BY <2>5, <2>9, <2>10, <2>11
  <2> QED
    BY <2>7, <2>12
<1> QED
  BY <1>4, <1>5 DEF html, n, L

(* Rows end one after the other. *)
LEMMA EndsGrow ==
    ASSUME NEW rs, Len(rs) \in Nat, NEW P, NEW E, AreRowPlaces(P, E, rs),
           NEW k \in 0..Len(rs), NEW m \in 0..Len(rs), k < m
    PROVE  E[k] < E[m]
<1>1. m \in 1..Len(rs) /\ m - 1 \in 0..Len(rs) /\ k \in 0..(m - 1)
  OBVIOUS
<1>2. E[k] <= E[m - 1] /\ E[k] \in Nat
  <2> DEFINE j == m - 1
  <2>1. j \in 0..Len(rs) /\ k \in 0..j
    BY <1>1
  <2> HIDE DEF j
  <2>2. E[k] <= E[j] /\ E[k] \in Nat
    BY <2>1, PlacesOrdered
  <2> QED
    BY <2>2 DEF j
<1>3. /\ P[m] \in Nat /\ E[m] \in Nat /\ E[m - 1] \in Nat /\ E[m - 1] <= P[m] /\ P[m] < E[m]
  BY <1>1 DEF AreRowPlaces
<1> QED
  BY <1>2, <1>3

EndsOf(E, m) == {E[k] : k \in 1..m}

(* The first m rows end at m places. *)
LEMMA CountEnds ==
    ASSUME NEW rs, Len(rs) \in Nat, NEW P, NEW E, AreRowPlaces(P, E, rs), NEW m \in 0..Len(rs)
    PROVE  Cardinality(EndsOf(E, m)) = m
<1> DEFINE n == Len(rs)
           X(j) == {E[k] : k \in 1..j}
           Q == {j \in 0..n : IsFiniteSet(X(j)) /\ Cardinality(X(j)) = j}
<1>1. ASSUME NEW j \in 0..n, \A i \in 0..(j - 1) : i \in Q
      PROVE  j \in Q
  <2>1. CASE j = 0
    <3>1. X(j) = {}
      BY <2>1
    <3> HIDE DEF X
    <3> QED
      BY <2>1, <3>1, FS_EmptySet
  <2>2. CASE j # 0
    <3>1. j - 1 \in 0..(j - 1) /\ j - 1 \in 0..n /\ j - 1 \in Nat
      BY <2>2
    <3>2. IsFiniteSet(X(j - 1)) /\ Cardinality(X(j - 1)) = j - 1
      BY <1>1, <3>1
    <3>3. X(j) = X(j - 1) \cup {E[j]}
      BY <3>1, <2>2
    <3>4. E[j] \notin X(j - 1)
      <4>1. \A k \in 1..(j - 1) : E[k] # E[j]
        <5> TAKE k \in 1..(j - 1)
        <5>1. k \in 0..Len(rs) /\ j \in 0..Len(rs) /\ k < j
          BY <3>1
        <5>2. E[k] < E[j] /\ E[k] \in Nat
          BY <5>1, EndsGrow, PlacesOrdered
        <5> QED
          BY <5>2
      <4> QED
        BY <4>1
    <3> DEFINE Y == X(j - 1)
               e == E[j]
    <3>5. IsFiniteSet(Y) /\ e \notin Y /\ Cardinality(Y) = j - 1 /\ X(j) = Y \cup {e}
      BY <3>2, <3>3, <3>4
    <3> HIDE DEF Y, e, X
    <3>6. IsFiniteSet(Y \cup {e}) /\ Cardinality(Y \cup {e}) = Cardinality(Y) + 1
      BY <3>5, FS_AddElement
    <3> QED
      BY <3>1, <3>5, <3>6, SMTT(30)
  <2> QED
    BY <2>1, <2>2
<1> HIDE DEF Q
<1>2. \A j \in 0..n : j \in Q
  BY <1>1, UpTo
<1> QED
  BY <1>2 DEF Q, EndsOf

(* The rows that end up to the c-th token                                  *)
LEMMA EndsBefore ==
    ASSUME NEW rs \in Seq(Seq(CellsMeant)), rs # <<>>, NEW P, NEW E, AreRowPlaces(P, E, rs),
           NEW c \in Nat, c >= 1, c <= Len(WrittenTable(rs))
    PROVE  \E m \in 0..Len(rs) :
              /\ E[m] <= c
              /\ Cardinality({k \in 1..c : WrittenTable(rs)[k] = "</tr>"}) = m
<1> DEFINE n == Len(rs)
           html == WrittenTable(rs)
           Q == {m \in 1..n : c < E[m]}
           R == {k \in 1..c : html[k] = "</tr>"}
<1>1. n \in Nat /\ Len(html) \in Nat
  BY LenProperties, TableFrame
<1>2. E[0] = 1
  BY DEF AreRowPlaces
<1>3. \E m \in 0..n : E[m] <= c /\ \A k \in 1..n : k > m => c < E[k]
  <2>1. CASE Q = {}
    <3>1. n \in 0..n /\ E[n] \in Nat
      BY <1>1, PlacesOrdered
    <3>2. E[n] <= c
      <4>1. CASE n = 0
        BY <1>2, <4>1
      <4>2. CASE n # 0
        <5>1. n \in 1..n
          BY <1>1, <4>2
        <5> QED
          BY <2>1, <3>1, <5>1
      <4> QED
        BY <4>1, <4>2
    <3>3. \A k \in 1..n : ~(k > n)
      BY <1>1
    <3> QED
      BY <3>1, <3>2, <3>3
  <2>2. CASE Q # {}
    <3>1. Q \in SUBSET Nat
      OBVIOUS
    <3> HIDE DEF Q
    <3>2. PICK x \in Q : \A y \in Q : x <= y
      BY <2>2, <3>1, LeastOf
    <3>3. x \in 1..n /\ c < E[x]
      BY DEF Q
    <3>4. x - 1 \in 0..n /\ ~(x <= x - 1)
      BY <1>1, <3>3
    <3> DEFINE m == x - 1
    <3>5. m \in 0..n /\ m + 1 = x /\ ~(x <= m)
      BY <1>1, <3>3, <3>4
    <3> HIDE DEF m
    <3>6. E[m] <= c
      <4>1. CASE m = 0
        BY <1>2, <4>1
      <4>2. CASE m # 0
        <5>1. m \in 1..n
          BY <1>1, <3>5, <4>2
        <5>2. ~(c < E[m])
          BY <3>2, <3>5, <5>1 DEF Q
        <5>3. E[m] \in Nat
          BY <1>1, <3>5, PlacesOrdered
        <5> QED
          BY <5>2, <5>3
      <4> QED
        BY <4>1, <4>2
    <3>7. \A k \in 1..n : k > m => c < E[k]
      <4> TAKE k \in 1..n
      <4>1. CASE k = x
        BY <3>3, <4>1
      <4>2. CASE k > x
        <5>1. x \in 0..Len(rs) /\ k \in 0..Len(rs) /\ x < k
          BY <1>1, <3>3, <4>2
        <5>2. E[x] < E[k] /\ E[x] \in Nat /\ E[k] \in Nat
          BY <1>1, <5>1, EndsGrow, PlacesOrdered
        <5> QED
          BY <3>3, <5>2
      <4> QED
        BY <1>1, <3>3, <3>5, <4>1, <4>2
    <3> QED
      BY <3>5, <3>6, <3>7
  <2> QED
    BY <2>1, <2>2
<1>4. PICK m \in 0..n : E[m] <= c /\ \A k \in 1..n : k > m => c < E[k]
  BY <1>3
<1>5. R = {E[k] : k \in 1..m}
  <2>1. ASSUME NEW k \in 1..m PROVE E[k] \in R
    <3>1. k \in 0..m /\ m \in 0..Len(rs) /\ k \in 1..n
      BY <1>1
    <3>2. E[k] <= E[m] /\ E[k] \in Nat /\ E[k] >= 1 /\ E[m] \in Nat
      BY <1>1, <3>1, PlacesOrdered
    <3>3. html[E[k]] = "</tr>"
      BY <3>1, RowEnds
    <3>4. E[k] \in 1..c
      BY <1>4, <3>2
    <3> QED
      BY <3>3, <3>4
  <2>2. ASSUME NEW l \in R PROVE \E k \in 1..m : l = E[k]
    <3>1. l \in 1..c /\ l \in 1..Len(html) /\ html[l] = "</tr>"
      BY <1>1
    <3>2. PICK k \in 1..n : l = E[k]
      BY <3>1, RowEnds
    <3>3. ~(c < E[k])
      BY <3>1, <3>2
    <3>4. ~(k > m)
      BY <1>4, <3>2, <3>3
    <3>5. k \in 1..m
      BY <1>1, <3>4
    <3> QED
      BY <3>2, <3>5
  <2> HIDE DEF R
  <2> QED
    BY <2>1, <2>2
<1>6. Cardinality(EndsOf(E, m)) = m
  <2>1. m \in 0..Len(rs) /\ Len(rs) \in Nat
    BY <1>1
  <2> QED
    <3> HIDE DEF n
    <3> QED
      BY <2>1, CountEnds
<1> QED
  BY <1>4, <1>5, <1>6 DEF EndsOf

(* The token at one place becomes others, the rest stays.                  *)
IsDamaged(t, s, at, tokens) ==
    /\ Len(t) = Len(s) - 1 + Len(tokens) /\ Len(t) \in Nat /\ Len(tokens) \in Nat
    /\ \A l \in 1..Len(t) :
         t[l] = IF l < at THEN s[l]
                ELSE IF l < at + Len(tokens) THEN tokens[l - at + 1]
                ELSE s[l - Len(tokens) + 1]

(* What a damaged text is, token by token *)
LEMMA DamagedIs ==
    ASSUME NEW T, NEW s \in Seq(T), NEW at \in 1..Len(s), NEW tokens \in Seq(T)
    PROVE  Damaged(s, at, tokens) \in Seq(T) /\ IsDamaged(Damaged(s, at, tokens), s, at, tokens)
<1> DEFINE L == Len(s)
           m == Len(tokens)
           b == at - 1
           e == at + 1
           x == SubSeq(s, 1, b)
           z == SubSeq(s, e, L)
           y == x \o tokens
           t == Damaged(s, at, tokens)
<1>1. L \in Nat /\ m \in Nat /\ at \in Nat /\ 1 <= at /\ at <= L
  BY LenProperties
<1>2. b \in Int /\ b <= L /\ e \in Nat \ {0} /\ b \in 0..L /\ b = at - 1 /\ e = at + 1
  BY <1>1
<1>3. t = y \o z
  BY DEF Damaged, From
<1> HIDE DEF b, e
<1>4. x \in Seq(T) /\ Len(x) = b /\ \A k \in 1..b : x[k] = s[k]
  BY <1>2, BeginningOf
<1>5. z \in Seq(T) /\ Len(z) = L - at /\ \A k \in 1..(L - at) : z[k] = s[at + k]
  <2>1. L \in Int /\ L <= Len(s)
    BY <1>1
  <2> HIDE DEF L
  <2>2. /\ SubSeq(s, e, L) \in Seq(T)
        /\ Len(SubSeq(s, e, L)) = (IF e <= L THEN L - e + 1 ELSE 0)
        /\ \A k \in 1..(L - e + 1) : SubSeq(s, e, L)[k] = s[e + k - 1]
    BY <1>2, <2>1, PartOf
  <2>3. Len(z) = L - at
    BY <1>1, <1>2, <2>2
  <2>4. ASSUME NEW k \in 1..(L - at) PROVE z[k] = s[at + k]
    <3>1. k \in 1..(L - e + 1) /\ e + k - 1 = at + k
      BY <1>1, <1>2
    <3> QED
      BY <2>2, <3>1
  <2> QED
    BY <2>2, <2>3, <2>4
<1> HIDE DEF x, z, t, L
<1>6. /\ y \in Seq(T) /\ Len(y) = b + m
      /\ \A k \in 1..(b + m) : y[k] = IF k <= b THEN x[k] ELSE tokens[k - b]
  <2>1. /\ x \o tokens \in Seq(T) /\ Len(x \o tokens) = Len(x) + Len(tokens)
        /\ \A k \in 1..(Len(x) + Len(tokens)) :
             (x \o tokens)[k] = IF k <= Len(x) THEN x[k] ELSE tokens[k - Len(x)]
    BY <1>4, ConcatProperties
  <2> QED
    BY <1>4, <2>1
<1> HIDE DEF y
<1>7. /\ t \in Seq(T) /\ Len(t) = b + m + (L - at)
      /\ \A k \in 1..(b + m + (L - at)) : t[k] = IF k <= b + m THEN y[k] ELSE z[k - (b + m)]
  <2>1. /\ y \o z \in Seq(T) /\ Len(y \o z) = Len(y) + Len(z)
        /\ \A k \in 1..(Len(y) + Len(z)) :
             (y \o z)[k] = IF k <= Len(y) THEN y[k] ELSE z[k - Len(y)]
    BY <1>5, <1>6, ConcatProperties
  <2>2. Len(y) = b + m /\ Len(z) = L - at
    BY <1>5, <1>6
  <2> QED
    BY <1>3, <2>1, <2>2
<1> HIDE DEF m
<1>8. Len(t) = L - 1 + m /\ Len(t) \in Nat
  BY <1>1, <1>2, <1>7
<1>9. ASSUME NEW l \in 1..Len(t)
      PROVE  t[l] = IF l < at THEN s[l]
                    ELSE IF l < at + m THEN tokens[l - at + 1] ELSE s[l - m + 1]
  <2>0. l \in 1..(b + m + (L - at)) /\ l \in Nat
    BY <1>7, <1>8
  <2>1. CASE l < at
    <3>1. l <= b + m /\ l \in 1..b /\ l \in 1..(b + m) /\ l <= b
      BY <1>1, <1>2, <2>0, <2>1
    <3> QED
      BY <1>4, <1>6, <1>7, <2>0, <2>1, <3>1
  <2>2. CASE ~(l < at) /\ l < at + m
    <3>1. l <= b + m /\ l \in 1..(b + m) /\ ~(l <= b) /\ l - b = l - at + 1
      BY <1>1, <1>2, <2>0, <2>2
    <3>2. t[l] = y[l]
      BY <1>7, <2>0, <3>1
    <3>3. y[l] = tokens[l - b]
      BY <1>6, <3>1
    <3> QED
      BY <2>2, <3>1, <3>2, <3>3
  <2>3. CASE ~(l < at) /\ ~(l < at + m)
    <3> DEFINE k == l - (b + m)
    <3>1. ~(l <= b + m) /\ k \in 1..(L - at) /\ at + k = l - m + 1
      BY <1>1, <1>2, <2>0, <2>3
    <3>2. t[l] = z[k]
      BY <1>7, <2>0, <3>1
    <3> HIDE DEF k
    <3>3. z[k] = s[at + k]
      BY <1>5, <3>1
    <3> QED
      BY <2>3, <3>1, <3>2, <3>3
  <2> QED
    BY <2>1, <2>2, <2>3
<1>10. IsDamaged(t, s, at, tokens)
  BY <1>1, <1>8, <1>9 DEF IsDamaged, L, m
<1> QED
  BY <1>7, <1>10 DEF t

(* Before the damage, the text is as it was. *)
LEMMA DamagedBegins ==
    ASSUME NEW t, NEW s, Len(s) \in Nat, NEW at \in 1..Len(s), NEW tokens,
           IsDamaged(t, s, at, tokens), NEW c \in Nat, c < at
    PROVE  AgreeUpTo(c, t, s)
<1>1. Len(t) \in Nat /\ c <= Len(t) /\ c <= Len(s)
  BY DEF IsDamaged
<1>2. ASSUME NEW l \in 1..c PROVE t[l] = s[l]
  <2>1. l < at /\ l \in 1..Len(t)
    BY <1>1
  <2> QED
    BY <2>1 DEF IsDamaged
<1> QED
  BY <1>1, <1>2 DEF AgreeUpTo

TableTokens == Words \cup Tags

(* A table is written with words and tags. *)
LEMMA TableIsOfWordsAndTags ==
    ASSUME NEW rs \in Seq(Seq(CellsMeant)), rs # <<>>
    PROVE  WrittenTable(rs) \in Seq(TableTokens)
<1>1. CellMarkup \cup RowMarkup \cup TableMarkup \subseteq Tags
  BY TagsAre DEF CellMarkup, RowMarkup, TableMarkup
<1>2. /\ Words \subseteq TableTokens /\ CellMarkup \subseteq TableTokens
      /\ RowMarkup \subseteq TableTokens /\ TableMarkup \subseteq TableTokens
  BY <1>1 DEF TableTokens
<1> QED
  BY <1>2, WrittenTableType

(* What a client opens is the table, damaged twice at most.                *)
LEMMA TwiceDamaged ==
    ASSUME AnswerInv, answer.kind = "damaged"
    PROVE  \E mid, d : \E e, later :
             LET whole == WrittenTable(TableRowsMeant)
             IN  /\ d \in Damages /\ answer.at \in 1..Len(whole)
                 /\ mid \in Seq(TableTokens) /\ answer.html \in Seq(TableTokens)
                 /\ answer.at \in 1..Len(mid) /\ IsDamaged(answer.html, mid, answer.at, d)
                 /\ \/ mid = whole
                    \/ /\ e \in Damages /\ later \in 1..Len(whole) /\ answer.at < later
                       /\ IsDamaged(mid, whole, later, e)
<1> DEFINE whole == WrittenTable(TableRowsMeant)
           at == answer.at
           html == answer.html
<1>1. PICK d \in Damages, e \in Damages : \E later \in at..Len(whole) :
         LET after == IF later = at THEN whole ELSE Damaged(whole, later, e)
         IN  at \in DOMAIN whole /\ html = Damaged(after, at, d)
  BY DEF AnswerInv
<1>2. PICK later \in at..Len(whole) :
         LET after == IF later = at THEN whole ELSE Damaged(whole, later, e)
         IN  at \in DOMAIN whole /\ html = Damaged(after, at, d)
  BY <1>1
<1> DEFINE mid == IF later = at THEN whole ELSE Damaged(whole, later, e)
<1>3. at \in DOMAIN whole /\ html = Damaged(mid, at, d)
  BY <1>2
<1>4. d \in Seq(TableTokens) /\ e \in Seq(TableTokens)
  <2>1. d \in Seq(Tags) /\ e \in Seq(Tags)
    BY ViewsAssumption
  <2> QED
    BY <2>1, SeqMonotonic DEF TableTokens
<1>5. whole \in Seq(TableTokens)
  BY ViewsAssumption, TableIsOfWordsAndTags
<1> HIDE DEF whole, at, html
<1>6. at \in 1..Len(whole) /\ Len(whole) \in Nat
  BY <1>3, <1>5, LenProperties
<1>7. CASE later = at
  <2>1. mid = whole
    BY <1>7
  <2>2. html \in Seq(TableTokens) /\ IsDamaged(html, whole, at, d)
    <3>1. Damaged(whole, at, d) \in Seq(TableTokens) /\ IsDamaged(Damaged(whole, at, d), whole, at, d)
      BY <1>4, <1>5, <1>6, DamagedIs
    <3> QED
      BY <1>3, <2>1, <3>1
  <2> QED
    BY <1>5, <1>6, <2>2 DEF whole, at, html
<1>8. CASE later # at
  <2>1. later \in 1..Len(whole) /\ at < later
    BY <1>6, <1>8
  <2>2. mid = Damaged(whole, later, e)
    BY <1>8
  <2>3. Damaged(whole, later, e) \in Seq(TableTokens) /\ IsDamaged(Damaged(whole, later, e), whole, later, e)
    BY <1>4, <1>5, <2>1, DamagedIs
  <2>4. mid \in Seq(TableTokens) /\ IsDamaged(mid, whole, later, e)
    BY <2>2, <2>3
  <2> HIDE DEF mid
  <2>5. at \in 1..Len(mid)
    BY <1>6, <2>1, <2>4 DEF IsDamaged
  <2>6. Damaged(mid, at, d) \in Seq(TableTokens) /\ IsDamaged(Damaged(mid, at, d), mid, at, d)
    BY <1>4, <2>4, <2>5, DamagedIs
  <2>7. html \in Seq(TableTokens) /\ IsDamaged(html, mid, at, d)
    BY <1>3, <2>6
  <2> QED
    BY <1>6, <2>1, <2>4, <2>5, <2>7 DEF whole, at, html
<1> QED
  BY <1>7, <1>8

(* The rows meant are made of what each row means. *)
LEMMA MeantRowsType ==
    ASSUME NEW rs \in Seq(Seq(CellsMeant)), NEW S, PiecesIn(S, rs, Len(rs))
    PROVE  MeantRows(rs) \in Seq(S)
<1> DEFINE seqs == [i \in DOMAIN rs |-> IF rs[i] = <<>> THEN <<>> ELSE <<MeantRow(rs[i])>>]
           n == Len(rs)
<1>1. DOMAIN rs = 1..n /\ n \in Nat
  BY LenProperties
<1>2. seqs \in [1..n -> Seq(S)]
  BY <1>1 DEF PiecesIn, MeantPiece
<1>3. MeantRows(rs) = FlattenSeq(seqs)
  BY DEF MeantRows
<1> HIDE DEF seqs, n
<1>4. seqs \in Seq(Seq(S))
  BY <1>1, <1>2, FcnIsSeq
<1> QED
  BY <1>3, <1>4, FlattenType

(* The rows that end before the first damage are shown.                    *)
LEMMA RowsBeforeDamage ==
    ASSUME NEW rs \in Seq(Seq(CellsMeant)), rs # <<>>, NEW T, NEW html \in Seq(T),
           NEW c \in Nat, c >= 1, c < Len(WrittenTable(rs)), AgreeUpTo(c, html, WrittenTable(rs)),
           FirstIn(html, {"</table>"}, 2) # None
    PROVE  LET before == Cardinality({k \in 1..c : WrittenTable(rs)[k] = "</tr>"})
           IN  IsPrefix(MeantRows(SubSeq(rs, 1, before)), TableRows(html))
<1> DEFINE whole == WrittenTable(rs)
           L == Len(whole)
           n == Len(rs)
           opens == {"<table>", "<table border=1>"}
           closes == {"</table>"}
           tableEnd == FirstIn(html, closes, 2)
<1>1. /\ L \in Nat /\ whole[1] \in opens
      /\ \A l \in 2..(L - 1) : whole[l] \notin closes
  <2>1. \A l \in 2..(L - 1) : whole[l] \in Words \cup CellMarkup \cup RowMarkup
    BY TableFrame
  <2>2. \A l \in 2..(L - 1) : whole[l] \notin closes
    BY <2>1, MarkupApart
  <2>3. L \in Nat /\ whole[1] \in opens
    BY TableFrame
  <2> QED
    BY <2>2, <2>3
<1>2. n \in Nat /\ \A k \in 1..n : rs[k] \in Seq(CellsMeant)
  BY LenProperties, ElementOfSeq
<1>3. PICK P, E : AreRowPlaces(P, E, rs)
  BY TableLayout
<1>3a. c < L
  OBVIOUS
<1>4. c <= L
  <2>1. L \in Nat
    BY <1>1
  <2> HIDE DEF L
  <2> QED
    BY <1>3a, <2>1
<1>5. PICK m \in 0..n : E[m] <= c /\ Cardinality({k \in 1..c : whole[k] = "</tr>"}) = m
  BY <1>3, <1>4, EndsBefore
<1> HIDE DEF whole, L, n
<1>6. Len(html) \in Nat /\ c <= Len(html) /\ \A l \in 1..c : html[l] = whole[l]
  BY LenProperties DEF AgreeUpTo, whole
<1>7. TStart(html) = 1
  <2> DEFINE one == 1
  <2>1. /\ one \in one..Len(html) /\ \A l \in one..(one - 1) : html[l] \notin opens
        /\ one \in Nat \ {0} /\ Len(html) \in Nat
    BY <1>6
  <2>2. html[one] \in opens
    <3>1. one \in 1..c
      OBVIOUS
    <3>2. html[one] = whole[one]
      BY <1>6, <3>1
    <3> QED
      BY <1>1, <3>2
  <2> HIDE DEF one, opens
  <2>3. FirstIn(html, opens, one) = one
    BY <2>1, <2>2, FirstInIs
  <2> QED
    BY <2>3, OpensAs DEF TStart, opens, one
<1>8. tableEnd \in 2..Len(html) /\ html[tableEnd] \in closes
  <2> DEFINE two == 2
  <2>1. two \in Nat \ {0} /\ FirstIn(html, closes, two) # None
    OBVIOUS
  <2> HIDE DEF two, closes
  <2>2. /\ FirstIn(html, closes, two) = None \/ FirstIn(html, closes, two) \in two..Len(html)
        /\ FirstIn(html, closes, two) # None => html[FirstIn(html, closes, two)] \in closes
    BY <1>6, <2>1, FirstInFacts
  <2> QED
    BY <2>1, <2>2 DEF two
<1>9. TEnd(html) = tableEnd
  <2>1. FindClose(html, "table", 2) = tableEnd
    BY OpensAs
  <2>2. TEnd(html) = FindClose(html, "table", 2)
    <3>1. TStart(html) + 1 = 2
      BY <1>7
    <3> QED
      BY <3>1 DEF TEnd
  <2> QED
    BY <2>1, <2>2
<1> HIDE DEF tableEnd, closes, opens
<1>10. tableEnd \in Nat /\ tableEnd # None /\ tableEnd > c
  <2>1. tableEnd \in Nat /\ tableEnd >= 2 /\ tableEnd <= Len(html)
    BY <1>6, <1>8
  <2>2. ~(tableEnd <= c)
    <3> SUFFICES ASSUME tableEnd <= c PROVE FALSE
      OBVIOUS
    <3>1. tableEnd \in 1..c /\ tableEnd \in 2..(L - 1)
      <4>1. c < L
        BY DEF L, whole
      <4> QED
        BY <1>1, <2>1, <4>1
    <3>2. html[tableEnd] = whole[tableEnd]
      BY <1>6, <3>1
    <3> QED
      BY <1>1, <1>8, <3>1, <3>2
  <2> QED
    BY <2>1, <2>2 DEF None
<1>11. PICK f : RFrom(f, html, tableEnd) /\ \A i : RowsFrom(html, i, tableEnd) = f[i]
  <2>1. Len(html) \in Nat
    BY <1>6
  <2> QED
    BY <2>1, RowsUnfold
<1>12. TableRows(html) = f[2]
  <2>1. 1 # None
    BY DEF None
  <2>2. TableRows(html) = RowsFrom(html, 1 + 1, tableEnd)
    BY <1>7, <1>9, <1>10, <2>1 DEF TableRows, TStart, TEnd
  <2> QED
    BY <1>11, <2>2
<1> DEFINE S == {MeantRow(r) : r \in Seq(CellsMeant)} \cup {RCells(html, i) : i \in 1..(Len(html) + 1)}
<1>13. PiecesIn(S, rs, n)
  <2>1. \A r \in Seq(CellsMeant) : MeantRow(r) \in S
    OBVIOUS
  <2> HIDE DEF S
  <2>2. \A r \in Seq(CellsMeant) : MeantPiece(r) \in Seq(S)
    BY <2>1, EmptySeq DEF MeantPiece
  <2> QED
    BY <1>2, <2>2 DEF PiecesIn
<1>14. \A i \in 1..(Len(html) + 1) : RCells(html, i) \in S
  OBVIOUS
<1> HIDE DEF S
<1>15. \A i \in 1..(Len(html) + 1) : f[i] \in Seq(S)
  BY <1>6, <1>11, <1>14, RowsType
<1>16. E[m] \in Nat /\ E[m] + 1 \in 1..(Len(html) + 1)
  <2>1. E[m] \in Nat /\ E[m] >= 1
    BY <1>2, <1>3, <1>5, PlacesOrdered DEF n
  <2> QED
    BY <1>5, <1>6, <2>1
<1>17. ShowsFirst(m, f, rs, E)
  <2>1. m \in 0..Len(rs) /\ E[m] <= c /\ E[m] <= tableEnd /\ f[E[m] + 1] \in Seq(S)
    <3>1. E[m] <= c /\ E[m] <= tableEnd
      BY <1>5, <1>10, <1>16
    <3> QED
      BY <1>5, <1>15, <1>16, <3>1 DEF n
  <2>2. PiecesIn(S, rs, m)
    <3>1. \A k \in 1..m : k \in 1..n
      BY <1>2, <1>5
    <3> QED
      BY <1>13, <3>1 DEF PiecesIn
  <2>3. AgreeUpTo(c, html, WrittenTable(rs))
    OBVIOUS
  <2> QED
    BY <1>3, <1>10, <1>11, <2>1, <2>2, <2>3, RowsShown
<1>18. SubSeq(rs, 1, m) \in Seq(Seq(CellsMeant)) /\ MeantRows(SubSeq(rs, 1, m)) \in Seq(S)
  <2> DEFINE firstRows == SubSeq(rs, 1, m)
  <2>1. firstRows \in Seq(Seq(CellsMeant)) /\ Len(firstRows) = m /\ \A k \in 1..m : firstRows[k] = rs[k]
    BY <1>5, BeginningOf DEF n
  <2> HIDE DEF firstRows
  <2>2. PiecesIn(S, firstRows, Len(firstRows))
    <3>1. \A k \in 1..m : k \in 1..n
      BY <1>2, <1>5
    <3> QED
      BY <1>13, <2>1, <3>1 DEF PiecesIn
  <2>3. MeantRows(firstRows) \in Seq(S)
    BY <2>1, <2>2, MeantRowsType
  <2> QED
    BY <2>1, <2>3 DEF firstRows
<1>19. IsBeforeOf(MeantRows(SubSeq(rs, 1, m)), TableRows(html), S)
  BY <1>12, <1>15, <1>16, <1>17 DEF ShowsFirst, IsBeforeOf
<1>20. IsPrefix(MeantRows(SubSeq(rs, 1, m)), TableRows(html))
  BY <1>18, <1>19, PrefixOf
<1> QED
  BY <1>5, <1>20 DEF whole

(* No rows are always shown first. *)
LEMMA NoRowsBefore ==
    ASSUME NEW html, Len(html) \in Nat, NEW rs
    PROVE  IsPrefix(MeantRows(SubSeq(rs, 1, 0)), TableRows(html))
<1>1. SubSeq(rs, 1, 0) = <<>>
  BY SubSeqEmpty
<1>2. MeantRows(<<>>) = <<>>
  BY NoRowsMeant
<1>3. \E S : TableRows(html) \in Seq(S)
  <2> DEFINE S == {RCells(html, i) : i \in 1..(Len(html) + 1)}
             tableEnd == TEnd(html)
             i == TStart(html) + 1
  <2>1. CASE TStart(html) = None \/ TEnd(html) = None
    <3>1. TableRows(html) = <<>>
      BY <2>1 DEF TableRows, TStart, TEnd
    <3>2. <<>> \in Seq({})
      BY EmptySeq
    <3> QED
      BY <3>1, <3>2
  <2>2. CASE ~(TStart(html) = None \/ TEnd(html) = None)
    <3>1. \A k \in 1..(Len(html) + 1) : RCells(html, k) \in S
      OBVIOUS
    <3> HIDE DEF S
    <3>2. i \in 1..(Len(html) + 1)
      BY <2>2, TPositions
    <3>3. TableRows(html) = RowsFrom(html, i, tableEnd)
      BY <2>2 DEF TableRows, TStart, TEnd
    <3> HIDE DEF i, tableEnd
    <3>4. PICK f : RFrom(f, html, tableEnd) /\ \A k : RowsFrom(html, k, tableEnd) = f[k]
      BY RowsUnfold
    <3>5. \A k \in 1..(Len(html) + 1) : f[k] \in Seq(S)
      BY <3>1, <3>4, RowsType
    <3> QED
      BY <3>2, <3>3, <3>4, <3>5
  <2> QED
    BY <2>1, <2>2
<1>4. PICK S : TableRows(html) \in Seq(S)
  BY <1>3
<1> DEFINE r == TableRows(html)
<1>5. <<>> \in Seq(S) /\ <<>> \o r = r
  BY <1>4, EmptySeq, ConcatEmptySeq
<1> HIDE DEF r
<1>6. r \in Seq(S)
  BY <1>4 DEF r
<1>7. IsBeforeOf(<<>>, r, S)
  BY <1>5, <1>6 DEF IsBeforeOf
<1>8. IsPrefix(<<>>, r)
  BY <1>5, <1>7, PrefixOf
<1> QED
  BY <1>1, <1>2, <1>8 DEF r

(* The rows that close before any damage are shown as meant, and first. *)
LEMMA DamageIsLocalHolds ==
    ASSUME AnswerInv
    PROVE  DamageIsLocal
<1> SUFFICES ASSUME answer.kind = "damaged", FirstIn(answer.html, {"</table>"}, 2) # None
             PROVE  LET before == Cardinality({k \in 1..(answer.at - 1) : WrittenTable(TableRowsMeant)[k] = "</tr>"})
                    IN  IsPrefix(MeantRows(SubSeq(TableRowsMeant, 1, before)), TableRows(answer.html))
  BY DEF DamageIsLocal
<1> DEFINE rs == TableRowsMeant
           whole == WrittenTable(rs)
           at == answer.at
           html == answer.html
           c == at - 1
<1>1. rs \in Seq(Seq(CellsMeant)) /\ rs # <<>>
  BY ViewsAssumption
<1>2. PICK mid, d : \E e, later :
             /\ d \in Damages /\ at \in 1..Len(whole)
             /\ mid \in Seq(TableTokens) /\ html \in Seq(TableTokens)
             /\ at \in 1..Len(mid) /\ IsDamaged(html, mid, at, d)
             /\ \/ mid = whole
                \/ /\ e \in Damages /\ later \in 1..Len(whole) /\ at < later
                   /\ IsDamaged(mid, whole, later, e)
  BY TwiceDamaged
<1>3. PICK e, later :
             /\ d \in Damages /\ at \in 1..Len(whole)
             /\ mid \in Seq(TableTokens) /\ html \in Seq(TableTokens)
             /\ at \in 1..Len(mid) /\ IsDamaged(html, mid, at, d)
             /\ \/ mid = whole
                \/ /\ e \in Damages /\ later \in 1..Len(whole) /\ at < later
                   /\ IsDamaged(mid, whole, later, e)
  BY <1>2
<1>4. Len(whole) \in Nat
  BY <1>1, TableFrame
<1>5. Len(mid) \in Nat /\ Len(html) \in Nat
  BY <1>3, LenProperties
<1>6. FirstIn(html, {"</table>"}, 2) # None
  OBVIOUS
<1> HIDE DEF rs, whole, at, html, c
<1>7. c \in Nat /\ c < at /\ c < Len(whole) /\ c = at - 1
  BY <1>3, <1>4 DEF c
<1>8. AgreeUpTo(c, html, mid)
  BY <1>3, <1>5, <1>7, DamagedBegins
<1>9. AgreeUpTo(c, mid, whole)
  <2>1. CASE mid = whole
    BY <1>4, <1>7, <2>1 DEF AgreeUpTo
  <2>2. CASE later \in 1..Len(whole) /\ at < later /\ IsDamaged(mid, whole, later, e)
    <3>1. c < later
      BY <1>3, <1>4, <1>7, <2>2
    <3> QED
      BY <1>4, <1>7, <2>2, <3>1, DamagedBegins
  <2> QED
    BY <1>3, <2>1, <2>2
<1>10. AgreeUpTo(c, html, whole)
  BY <1>8, <1>9 DEF AgreeUpTo
<1>11. CASE c = 0
  <2>1. {k \in 1..c : whole[k] = "</tr>"} = {}
    BY <1>11
  <2>2. Cardinality({k \in 1..c : whole[k] = "</tr>"}) = 0
    BY <2>1, FS_EmptySet
  <2>3. IsPrefix(MeantRows(SubSeq(rs, 1, 0)), TableRows(html))
    BY <1>5, NoRowsBefore
  <2> QED
    BY <2>2, <2>3 DEF c, rs, whole, at, html
<1>12. CASE c # 0
  <2>1. c >= 1 /\ c < Len(WrittenTable(rs)) /\ AgreeUpTo(c, html, WrittenTable(rs))
    <3>1. c >= 1
      <4>1. c \in Nat
        BY <1>7
      <4> QED
        BY <1>12, <4>1
    <3> QED
      BY <1>7, <1>10, <3>1 DEF whole
  <2>2. html \in Seq(TableTokens)
    BY <1>3
  <2>3. LET before == Cardinality({k \in 1..c : WrittenTable(rs)[k] = "</tr>"})
        IN  IsPrefix(MeantRows(SubSeq(rs, 1, before)), TableRows(html))
    BY <1>1, <1>6, <1>7, <2>1, <2>2, RowsBeforeDamage
  <2> QED
    BY <2>3 DEF c, rs, whole, at, html
<1> QED
  BY <1>11, <1>12

(***************************************************************************)
(* The words of a text that holds nothing but words and tags               *)
(***************************************************************************)
TextTokens == TableTokens \cup {"newline"}

(* The words of s stand at the places after o.                             *)
Placed(s, o, At) == \A k \in 1..Len(s) : s[k] \in Words => At[s[k]] = o + k

TextRises(out, At, a, b) ==
    /\ \A j \in 1..Len(out) : out[j] = "newline" \/ (out[j] \in Words /\ At[out[j]] \in a..b)
    /\ \A j, k \in 1..Len(out) :
         j < k /\ out[j] # "newline" /\ out[k] # "newline" => At[out[j]] < At[out[k]]

(* Two texts whose words rise, one behind the other *)
LEMMA TextGrows ==
    ASSUME NEW S, NEW x \in Seq(S), NEW y \in Seq(S), NEW c, IsConcat(c, x, y),
           NEW At, NEW a \in Int, NEW m \in Int, NEW b \in Int, a <= m + 1, m <= b,
           TextRises(x, At, a, m), TextRises(y, At, m + 1, b)
    PROVE  TextRises(c, At, a, b)
<1> DEFINE p == Len(x)
           q == Len(y)
<1>1. /\ p \in Nat /\ q \in Nat /\ Len(c) = p + q
      /\ \A i \in 1..(p + q) : c[i] = IF i <= p THEN x[i] ELSE y[i - p]
  <2>1. /\ Len(x \o y) = Len(x) + Len(y)
        /\ \A i \in 1..(Len(x) + Len(y)) : (x \o y)[i] = IF i <= Len(x) THEN x[i] ELSE y[i - Len(x)]
    BY ConcatProperties
  <2> QED
    BY <2>1, LenProperties DEF IsConcat
<1>2. /\ \A j \in 1..p : x[j] = "newline" \/ (x[j] \in Words /\ At[x[j]] \in a..m)
      /\ \A j \in 1..q : y[j] = "newline" \/ (y[j] \in Words /\ At[y[j]] \in (m + 1)..b)
      /\ \A j, k \in 1..p : j < k /\ x[j] # "newline" /\ x[k] # "newline" => At[x[j]] < At[x[k]]
      /\ \A j, k \in 1..q : j < k /\ y[j] # "newline" /\ y[k] # "newline" => At[y[j]] < At[y[k]]
  BY DEF TextRises
<1> HIDE DEF p, q
<1>3. \A j \in 1..(p + q) : \/ j \in 1..p /\ c[j] = x[j]
                            \/ ~(j <= p) /\ j - p \in 1..q /\ c[j] = y[j - p]
  BY <1>1
<1>4. \A j \in 1..Len(c) : c[j] = "newline" \/ (c[j] \in Words /\ At[c[j]] \in a..b)
  <2> TAKE j \in 1..Len(c)
  <2>1. j \in 1..(p + q)
    BY <1>1
  <2>2. CASE j \in 1..p /\ c[j] = x[j]
    <3>1. a..m \subseteq a..b
      OBVIOUS
    <3> QED
      BY <1>2, <2>2, <3>1
  <2>3. CASE j - p \in 1..q /\ c[j] = y[j - p]
    <3>1. (m + 1)..b \subseteq a..b
      OBVIOUS
    <3> QED
      BY <1>2, <2>3, <3>1
  <2> QED
    BY <1>3, <2>1, <2>2, <2>3
<1>5. ASSUME NEW j \in 1..Len(c), NEW k \in 1..Len(c), j < k, c[j] # "newline", c[k] # "newline"
      PROVE  At[c[j]] < At[c[k]]
  <2>1. j \in 1..(p + q) /\ k \in 1..(p + q)
    BY <1>1
  <2>2. CASE j \in 1..p /\ c[j] = x[j] /\ k \in 1..p /\ c[k] = x[k]
    BY <1>2, <1>5, <2>2
  <2>3. CASE j \in 1..p /\ c[j] = x[j] /\ k - p \in 1..q /\ c[k] = y[k - p]
    <3>1. At[c[j]] \in a..m
      BY <1>2, <1>5, <2>3
    <3>2. At[c[k]] \in (m + 1)..b
      BY <1>2, <1>5, <2>3
    <3> QED
      BY <3>1, <3>2
  <2>4. CASE j - p \in 1..q /\ c[j] = y[j - p] /\ k - p \in 1..q /\ c[k] = y[k - p]
    <3>1. j - p < k - p
      BY <1>1, <1>5, <2>1
    <3> QED
      BY <1>2, <1>5, <2>4, <3>1
  <2>5. k \in 1..p => j <= p
    BY <1>1, <1>5, <2>1
  <2> QED
    BY <1>3, <2>1, <2>2, <2>3, <2>4, <2>5
<1> QED
  BY <1>4, <1>5 DEF TextRises

(* Words and tags are no entities, and words are no tags. *)
LEMMA WordsAndTags ==
    /\ "<" \notin TableTokens /\ "&" \notin Words /\ Words \cap Tags = {} /\ Words \cap Entities = {}
    /\ "newline" \notin Entities \cup {"&"}
<1>1. "<" \notin Tags
  BY TagsAre
<1>2. "newline" \notin Entities \cup {"&"}
  BY DecodedIs
<1> QED
  BY <1>1, <1>2, MarkupApart DEF TableTokens

(* Stripping the tags neither repeats nor reorders the words.              *)
LEMMA StripRises ==
    ASSUME NEW s \in Seq(TableTokens), NEW At, NEW o \in Nat, Placed(s, o, At)
    PROVE  /\ StripTags(s) \in Seq(TextTokens)
           /\ TextRises(StripTags(s), At, o + 1, o + Len(s))
<1> DEFINE T == TableTokens
           U == TextTokens
           S == Tags \cup {"<"}
           E == StripEnds(s)
           M == StripMakes(s)
           L == Len(s)
           n == L + 1
<1>1. L \in Nat /\ n \in Nat /\ \A k \in 1..L : s[k] \in T
  BY LenProperties, ElementOfSeq
<1>2. PICK f : StripTags(s) = f[1] /\ ScanFrom(f, s, S, E, M)
  BY <1>1, StripTagsUnfold
<1>3. Ends(s, E)
  BY <1>1, ScanEnds
<1>4. \A k \in 1..L : M[k] = <<"newline">> \/ M[k] = <<>>
  BY DEF StripMakes
<1>5. Makes(s, S, M, U) /\ T \subseteq U
  <2>1. <<"newline">> \in Seq(U) /\ <<>> \in Seq(U)
    BY DEF TextTokens
  <2> HIDE DEF U, M
  <2> QED
    BY <1>4, <2>1 DEF Makes, U, TextTokens
<1>6. \A k \in 1..L : s[k] \in S => E[k] = k
  BY <1>1, WordsAndTags DEF StripEnds
<1>6a. \A k \in 1..L : s[k] \notin S => s[k] \in Words
  BY <1>1 DEF TableTokens
<1> HIDE DEF E, M, S, U, T, L, n
<1>7. Gives(f, s, U)
  BY <1>2, <1>3, <1>5, ScanType DEF T
<1>8. \A k \in 1..n : f[k] \in Seq(U)
  BY <1>7 DEF Gives, n, L
<1>8a. n = L + 1
  BY DEF n
<1> DEFINE P == {i \in 1..n : TextRises(f[i], At, o + i, o + L)}
<1>9. ASSUME NEW i \in 1..n, \A j \in (i + 1)..n : j \in P
      PROVE  i \in P
  <2>1. CASE i = n
    <3>1. f[i] = <<>>
      BY <1>2, <2>1, ScanOver DEF n, L
    <3>2. TextRises(<<>>, At, o + i, o + L)
      BY DEF TextRises
    <3> QED
      BY <3>1, <3>2
  <2>2. CASE i # n
    <3> DEFINE j == i + 1
    <3>1. i \in 1..L /\ j \in (i + 1)..n /\ j \in 1..n /\ i \in Nat /\ i # None
      BY <1>1, <1>8a, <2>2 DEF None
    <3>2. TextRises(f[j], At, o + j, o + L) /\ f[j] \in Seq(U)
      BY <1>8, <1>9, <3>1
    <3> DEFINE m == o + i
    <3>3. m \in Int /\ m + 1 = o + j /\ m <= m + 1 /\ m <= o + L /\ o + L \in Int
      BY <1>1, <3>1
    <3>4. \E x \in Seq(U) : TextRises(x, At, m, m) /\ IsConcat(f[i], x, f[j])
      <4>1. CASE s[i] \in S
        <5>1. E[i] = i /\ E[i] # None /\ M[i] \in Seq(U) /\ (M[i] = <<"newline">> \/ M[i] = <<>>)
          BY <1>4, <1>5, <1>6, <3>1, <4>1 DEF Makes, L
        <5>2. /\ s \in Seq(T) /\ ScanFrom(f, s, S, E, M) /\ i \in 1..Len(s) /\ s[i] \in S
              /\ E[i] # None /\ M[i] \in Seq(U)
          BY <1>2, <3>1, <4>1, <5>1 DEF L, T
        <5>3. Goes(f, i, M[i], E[i] + 1)
          BY <5>2, ScanStops
        <5>4. IsConcat(f[i], M[i], f[j])
          BY <5>1, <5>3 DEF Goes, IsConcat
        <5>5. TextRises(M[i], At, m, m)
          <6>1. TextRises(<<"newline">>, At, m, m) /\ TextRises(<<>>, At, m, m)
            BY DEF TextRises
          <6> QED
            BY <5>1, <6>1
        <5> QED
          BY <5>1, <5>4, <5>5
      <4>2. CASE s[i] \notin S
        <5>1. s[i] \in Words /\ At[s[i]] = m
          BY <1>6a, <3>1, <4>2 DEF Placed, L
        <5>2. /\ s \in Seq(T) /\ ScanFrom(f, s, S, E, M) /\ i \in 1..Len(s) /\ s[i] \notin S
              /\ Ends(s, E) /\ T \subseteq U /\ Makes(s, S, M, U) /\ Gives(f, s, U)
          BY <1>2, <1>3, <1>5, <1>7, <3>1, <4>2 DEF L, T
        <5>3. Goes(f, i, <<s[i]>>, i + 1)
          BY <5>2, ScanPasses
        <5> DEFINE w == s[i]
        <5>4. IsConcat(f[i], <<w>>, f[j])
          BY <5>3 DEF Goes, IsConcat
        <5>5. w \in U /\ w \in Words /\ At[w] = m
          BY <1>1, <1>5, <3>1, <5>1
        <5> HIDE DEF w, m
        <5>6. <<w>> \in Seq(U)
          BY <5>5
        <5>7. TextRises(<<w>>, At, m, m)
          <6>1. m \in m..m
            BY <3>3
          <6> QED
            BY <5>5, <6>1 DEF TextRises
        <5> QED
          BY <5>4, <5>6, <5>7
      <4> QED
        BY <4>1, <4>2
    <3>5. PICK x \in Seq(U) : TextRises(x, At, m, m) /\ IsConcat(f[i], x, f[j])
      BY <3>4
    <3> DEFINE b == o + L
               y == f[j]
               c == f[i]
    <3>6. /\ y \in Seq(U) /\ IsConcat(c, x, y) /\ m \in Int /\ b \in Int /\ m <= m + 1 /\ m <= b
          /\ TextRises(x, At, m, m) /\ TextRises(y, At, m + 1, b)
      BY <3>2, <3>3, <3>5
    <3> HIDE DEF b, y, c, m
    <3>7. TextRises(c, At, m, b)
      BY <3>6, TextGrows
    <3> QED
      BY <3>7 DEF c, m, b
  <2> QED
    BY <2>1, <2>2
<1> HIDE DEF P
<1>10. \A i \in 1..n : i \in P
  <2>1. n \in Nat
    BY <1>1
  <2> QED
    BY <1>9, <2>1, DownTo
<1>11. 1 \in 1..n
  BY <1>1, <1>8a
<1>12. f[1] \in Seq(U) /\ TextRises(f[1], At, o + 1, o + L)
  BY <1>8, <1>10, <1>11 DEF P
<1> QED
  BY <1>2, <1>12 DEF U, L

(* The words of a text are in it. *)
LEMMA WordsOfType ==
    ASSUME NEW S, NEW text \in Seq(S)
    PROVE  WordsOf(text) \in Seq(S)
<1> DEFINE n == Len(text)
           seqs == [i \in DOMAIN text |-> IF text[i] = "newline" THEN <<>> ELSE <<text[i]>>]
<1>1. n \in Nat /\ DOMAIN text = 1..n /\ \A i \in 1..n : text[i] \in S
  BY LenProperties, ElementOfSeq
<1>2. seqs \in [1..n -> Seq(S)]
  BY <1>1
<1>3. WordsOf(text) = FlattenSeq(seqs)
  BY DEF WordsOf
<1> HIDE DEF seqs, n
<1>4. seqs \in Seq(Seq(S))
  BY <1>1, <1>2, FcnIsSeq
<1> QED
  BY <1>3, <1>4, FlattenType

(* The words of a text rise where the text does. *)
LEMMA WordsOfRise ==
    ASSUME NEW S, NEW text \in Seq(S), NEW At, NEW a \in Int, NEW b \in Int,
           TextRises(text, At, a, b)
    PROVE  WordsOf(text) \in Seq(S) /\ Rising(WordsOf(text), At, a, b)
<1> DEFINE n == Len(text)
           seqs == [i \in DOMAIN text |-> IF text[i] = "newline" THEN <<>> ELSE <<text[i]>>]
<1>1. n \in Nat /\ DOMAIN text = 1..n /\ \A i \in 1..n : text[i] \in S
  BY LenProperties, ElementOfSeq
<1>2. WordsOf(text) = FlattenSeq(seqs)
  BY DEF WordsOf
<1>3. \A i \in 1..n : seqs[i] = IF text[i] = "newline" THEN <<>> ELSE <<text[i]>>
  BY <1>1
<1>4. seqs \in [1..n -> Seq(S)]
  BY <1>1
<1>5. \A j \in 1..n : text[j] = "newline" \/ At[text[j]] \in a..b
  BY DEF TextRises
<1>6. \A j, k \in 1..n : j < k /\ text[j] # "newline" /\ text[k] # "newline" => At[text[j]] < At[text[k]]
  BY DEF TextRises
<1> HIDE DEF seqs, n
<1>7. seqs \in Seq(Seq(S)) /\ Len(seqs) = n
  BY <1>1, <1>4, FcnIsSeq
<1>8. \A k \in 1..n : Rising(seqs[k], At, a, b)
  <2> TAKE k \in 1..n
  <2> DEFINE w == text[k]
  <2>1. CASE w = "newline"
    <3>1. seqs[k] = <<>>
      BY <1>3, <2>1
    <3> QED
      BY <3>1, NothingSpaced
  <2>2. CASE w # "newline"
    <3>1. seqs[k] = <<w>> /\ At[w] \in a..b
      BY <1>3, <1>5, <2>2
    <3> HIDE DEF w
    <3>2. Rising(<<w>>, At, a, b)
      BY <3>1 DEF Rising
    <3> QED
      BY <3>1, <3>2
  <2> QED
    BY <2>1, <2>2
<1>9. ASSUME NEW k \in 1..n, NEW m \in 1..n, k < m PROVE Under(seqs[k], seqs[m], At)
  <2> DEFINE w == text[k]
             v == text[m]
  <2>1. CASE w = "newline" \/ v = "newline"
    <3>1. seqs[k] = <<>> \/ seqs[m] = <<>>
      BY <1>3, <2>1
    <3> QED
      BY <3>1 DEF Under
  <2>2. CASE ~(w = "newline" \/ v = "newline")
    <3>1. seqs[k] = <<w>> /\ seqs[m] = <<v>> /\ At[w] < At[v]
      BY <1>3, <1>6, <1>9, <2>2
    <3> HIDE DEF w, v
    <3>2. Under(<<w>>, <<v>>, At)
      BY <3>1 DEF Under
    <3> QED
      BY <3>1, <3>2
  <2> QED
    BY <2>1, <2>2
<1>10. Spaced(seqs, At, a, b)
  BY <1>7, <1>8, <1>9 DEF Spaced
<1>11. Rising(FlattenSeq(seqs), At, a, b)
  BY <1>7, <1>10, FlattenRises
<1> QED
  BY <1>2, <1>7, <1>11, FlattenType

(* The words a cell shows                                                  *)
LEMMA CellRises ==
    ASSUME NEW s \in Seq(TableTokens), NEW At, NEW o \in Nat, Placed(s, o, At)
    PROVE  /\ CellText(s) \in Seq(TextTokens) /\ WordsOf(CellText(s)) \in Seq(TextTokens)
           /\ Rising(WordsOf(CellText(s)), At, o + 1, o + Len(s))
<1> DEFINE t == StripTags(s)
           a == o + 1
           b == o + Len(s)
<1>1. t \in Seq(TextTokens) /\ TextRises(t, At, a, b)
  BY StripRises
<1>2. a \in Int /\ b \in Int
  <2>1. Len(s) \in Nat
    BY LenProperties
  <2> QED
    BY <2>1
<1> HIDE DEF t, a, b
<1>3. \A k \in 1..Len(t) : t[k] \notin Entities \cup {"&"}
  BY <1>1, WordsAndTags DEF TextRises
<1>4. Len(t) \in Nat
  BY <1>1, LenProperties
<1>5. DecodeEntities(t) = t
  <2>1. PICK f : /\ DecodeEntities(t) = f[1]
                 /\ ScanFrom(f, t, Entities \cup {"&"}, DecodeEnds(t), DecodeMakes(t))
    BY <1>4, DecodeEntitiesUnfold
  <2> QED
    BY <1>1, <1>3, <2>1, ScanFindsNothing
<1>6. CellText(s) = t
  BY <1>5 DEF CellText, t
<1>7. WordsOf(t) \in Seq(TextTokens) /\ Rising(WordsOf(t), At, a, b)
  BY <1>1, <1>2, WordsOfRise
<1> QED
  BY <1>1, <1>6, <1>7 DEF a, b

(***************************************************************************)
(* The words of the cells and rows found in a text of words and tags       *)
(***************************************************************************)
WordsOfCells(cs) == [k \in DOMAIN cs |-> WordsOf(cs[k].text)]
RowWords(cs)     == FlattenSeq(WordsOfCells(cs))
WordsOfRows(rs)  == [i \in DOMAIN rs |-> RowWords(rs[i])]

CellsShown == [text : Seq(TextTokens), rowSpan : {1, 2}]

(* A part of a placed text is placed. *)
LEMMA PartPlaced ==
    ASSUME NEW s \in Seq(TableTokens), NEW o \in Nat, NEW At, Placed(s, o, At),
           NEW a \in Nat \ {0}, NEW b \in Int, a <= b + 1, b <= Len(s)
    PROVE  /\ SubSeq(s, a, b) \in Seq(TableTokens) /\ Placed(SubSeq(s, a, b), o + a - 1, At)
           /\ o + a - 1 \in Nat /\ o + a - 1 + Len(SubSeq(s, a, b)) = o + b
<1> DEFINE t == SubSeq(s, a, b)
<1>1. /\ t \in Seq(TableTokens) /\ Len(t) = (IF a <= b THEN b - a + 1 ELSE 0)
      /\ \A k \in 1..(b - a + 1) : t[k] = s[a + k - 1]
  BY PartOf
<1> HIDE DEF t
<1>2. Len(t) = b - a + 1 /\ Len(s) \in Nat
  BY <1>1, LenProperties
<1>3. ASSUME NEW k \in 1..Len(t), t[k] \in Words PROVE At[t[k]] = o + a - 1 + k
  <2> DEFINE j == a + k - 1
  <2>1. j \in 1..Len(s) /\ k \in 1..(b - a + 1) /\ o + j = o + a - 1 + k
    BY <1>2
  <2>2. t[k] = s[j]
    BY <1>1, <2>1
  <2> HIDE DEF j
  <2>3. At[s[j]] = o + j
    BY <1>3, <2>1, <2>2 DEF Placed
  <2> QED
    BY <2>1, <2>2, <2>3
<1>4. o + a - 1 \in Nat /\ o + a - 1 + Len(t) = o + b
  BY <1>2
<1> QED
  BY <1>1, <1>3, <1>4 DEF Placed, t

(* The words of one more cell are in front of the others. *)
LEMMA CellsConsed ==
    ASSUME NEW c \in CellsShown, NEW rest \in Seq(CellsShown), NEW g, IsConcat(g, <<c>>, rest)
    PROVE  IsCons(WordsOfCells(g), WordsOf(c.text), WordsOfCells(rest))
<1> DEFINE n == Len(rest)
           m == Len(g)
<1>1. /\ g \in Seq(CellsShown) /\ m = n + 1 /\ n \in Nat
      /\ DOMAIN g = 1..m /\ DOMAIN rest = 1..n
      /\ g[1] = c /\ \A k \in 1..n : g[k + 1] = rest[k]
  BY ConsMapped
<1> HIDE DEF n, m
<1>2. Len(WordsOfCells(g)) = m /\ Len(WordsOfCells(rest)) = n
  BY <1>1 DEF WordsOfCells
<1>3. WordsOfCells(g)[1] = WordsOf(c.text)
  <2>1. 1 \in 1..m
    BY <1>1
  <2> QED
    BY <1>1, <2>1 DEF WordsOfCells
<1>4. ASSUME NEW k \in 1..n PROVE WordsOfCells(g)[k + 1] = WordsOfCells(rest)[k]
  <2>1. k + 1 \in 1..m
    BY <1>1
  <2> QED
    BY <1>1, <2>1 DEF WordsOfCells
<1> QED
  BY <1>1, <1>2, <1>3, <1>4 DEF IsCons

(* The words of the cells of a row rise. *)
LEMMA CellsRise ==
    ASSUME NEW row \in Seq(TableTokens), NEW At, NEW o \in Nat, Placed(row, o, At)
    PROVE  /\ Cells(row) \in Seq(CellsShown)
           /\ Spaced(WordsOfCells(Cells(row)), At, o + 1, o + Len(row))
<1> DEFINE L == Len(row)
           n == L + 1
           b == o + L
<1>1. L \in Nat /\ n \in Nat /\ b \in Int
  BY LenProperties
<1>2. PICK f : Cells(row) = f[1] /\ CFrom(f, row)
  BY <1>1, CellsUnfold
<1>3. \A i \in 1..n : f[i] = IF COver(row, i) THEN <<>> ELSE <<CFound(row, i)>> \o f[CEnd(row, i) + 1]
  BY <1>2 DEF CFrom
<1>4. n = L + 1 /\ b = o + L
  OBVIOUS
<1>5. \A i \in 1..n : ~COver(row, i) => CStart(row, i) \in i..L /\ CEnd(row, i) \in (CStart(row, i) + 1)..L
  BY <1>1, CPositions
<1> HIDE DEF n, b
<1> DEFINE Holds(i) == f[i] \in Seq(CellsShown) /\ Spaced(WordsOfCells(f[i]), At, o + i, b)
           P == {i \in 1..n : Holds(i)}
<1>6. ASSUME NEW i \in 1..n, \A j \in (i + 1)..n : j \in P
      PROVE  i \in P
  <2>1. CASE COver(row, i)
    <3>1. f[i] = <<>>
      BY <1>3, <2>1
    <3>2. WordsOfCells(<<>>) = <<>>
      BY DEF WordsOfCells
    <3>3. Spaced(WordsOfCells(<<>>), At, o + i, b)
      BY <3>2, NothingSpaced
    <3>4. <<>> \in Seq(CellsShown)
      BY EmptySeq
    <3> QED
      BY <3>1, <3>3, <3>4
  <2>2. CASE ~COver(row, i)
    <3> DEFINE start == CStart(row, i)
               end == CEnd(row, i)
               c == CFound(row, i)
               x == start + 1
               y == end - 1
               inner == SubSeq(row, x, y)
               next == end + 1
               rest == f[next]
    <3>1. start \in i..L /\ end \in (start + 1)..L
      BY <1>5, <2>2
    <3>2. f[i] = <<c>> \o rest
      BY <1>3, <2>2
    <3>3. c.text = CellText(inner) /\ c = [text |-> CellText(inner), rowSpan |-> RowSpan(row[start])]
      BY DEF CFound
    <3>4. RowSpan(row[start]) \in {1, 2}
      BY DEF RowSpan
    <3> HIDE DEF start, end, c, L
    <3>5. /\ x \in Nat \ {0} /\ y \in Int /\ x <= y + 1 /\ y <= L /\ next \in (i + 1)..n
          /\ x - 1 = start /\ next = end + 1 /\ y = end - 1
      BY <1>1, <1>4, <3>1
    <3> HIDE DEF x, y, next, rest
    <3> DEFINE p == o + x - 1
    <3>6. inner \in Seq(TableTokens) /\ Placed(inner, p, At) /\ p \in Nat /\ p + Len(inner) = o + y
      <4>1. x \in Nat \ {0} /\ y \in Int /\ x <= y + 1 /\ y <= Len(row)
        BY <3>5 DEF L
      <4> QED
        BY <4>1, PartPlaced
    <3> HIDE DEF inner, p
    <3>7. /\ CellText(inner) \in Seq(TextTokens) /\ WordsOf(CellText(inner)) \in Seq(TextTokens)
          /\ Rising(WordsOf(CellText(inner)), At, p + 1, p + Len(inner))
      BY <3>6, CellRises
    <3>8. c \in CellsShown
      BY <3>3, <3>4, <3>7 DEF CellsShown
    <3>9. rest \in Seq(CellsShown) /\ Spaced(WordsOfCells(rest), At, o + next, b)
      BY <1>6, <3>5 DEF rest
    <3> DEFINE w == WordsOf(c.text)
               a == o + i
               m == o + end
               u == p + 1
               v == p + Len(inner)
    <3>10. /\ a \in Int /\ m \in Int /\ u \in Int /\ v \in Int /\ a <= u /\ v <= m
           /\ a <= m + 1 /\ m <= b /\ m + 1 = o + next
      BY <1>1, <1>4, <3>1, <3>5, <3>6 DEF p
    <3>11. Rising(w, At, u, v)
      BY <3>3, <3>7
    <3> HIDE DEF w, u, v, a, m
    <3>12. Rising(w, At, a, m)
      BY <3>10, <3>11, RisingWidens
    <3>13. IsConcat(f[i], <<c>>, rest)
      BY <3>2 DEF IsConcat
    <3> DEFINE g == f[i]
               all == WordsOfCells(g)
               others == WordsOfCells(rest)
    <3>14. g \in Seq(CellsShown)
      BY <3>8, <3>9, <3>13, ConsMapped
    <3>15. IsCons(all, w, others)
      BY <3>8, <3>9, <3>13, CellsConsed DEF w
    <3>16. Spaced(others, At, m + 1, b)
      BY <3>9, <3>10
    <3> HIDE DEF all, others
    <3>17. Spaced(all, At, a, b)
      BY <1>1, <3>10, <3>12, <3>15, <3>16, SpacedCons
    <3> QED
      BY <3>14, <3>17 DEF all, a
  <2> QED
    BY <2>1, <2>2
<1> HIDE DEF P
<1>7. \A i \in 1..n : i \in P
  BY <1>1, <1>6, DownTo
<1>8. 1 \in 1..n
  BY <1>1, <1>4
<1> QED
  BY <1>2, <1>7, <1>8 DEF P, b

(* The words of cells are words and line breaks. *)
LEMMA RowWordsType ==
    ASSUME NEW cs \in Seq(CellsShown)
    PROVE  WordsOfCells(cs) \in Seq(Seq(TextTokens)) /\ RowWords(cs) \in Seq(TextTokens)
<1> DEFINE ws == WordsOfCells(cs)
           n == Len(cs)
<1>1. n \in Nat /\ DOMAIN cs = 1..n /\ \A k \in 1..n : cs[k] \in CellsShown
  BY LenProperties, ElementOfSeq
<1>2. \A k \in 1..n : WordsOf(cs[k].text) \in Seq(TextTokens)
  <2> TAKE k \in 1..n
  <2>1. cs[k].text \in Seq(TextTokens)
    BY <1>1 DEF CellsShown
  <2> QED
    BY <2>1, WordsOfType
<1>3. ws \in [1..n -> Seq(TextTokens)]
  BY <1>1, <1>2 DEF WordsOfCells
<1> HIDE DEF n, ws
<1>4. ws \in Seq(Seq(TextTokens))
  BY <1>1, <1>3, FcnIsSeq
<1> QED
  BY <1>4, FlattenType DEF RowWords, ws

(* The words of a row rise put together. *)
LEMMA RowRises ==
    ASSUME NEW row \in Seq(TableTokens), NEW At, NEW o \in Nat, Placed(row, o, At)
    PROVE  /\ RowWords(Cells(row)) \in Seq(TextTokens)
           /\ Rising(RowWords(Cells(row)), At, o + 1, o + Len(row))
<1> DEFINE cs == Cells(row)
           ws == WordsOfCells(cs)
           a == o + 1
           b == o + Len(row)
<1>1. cs \in Seq(CellsShown) /\ Spaced(ws, At, a, b)
  BY CellsRise
<1>2. a \in Int /\ b \in Int
  <2>1. Len(row) \in Nat
    BY LenProperties
  <2> QED
    BY <2>1
<1> HIDE DEF cs, a, b
<1>3. ws \in Seq(Seq(TextTokens)) /\ RowWords(cs) \in Seq(TextTokens)
  BY <1>1, RowWordsType
<1> HIDE DEF ws
<1>4. Rising(FlattenSeq(ws), At, a, b)
  BY <1>1, <1>2, <1>3, FlattenRises
<1> QED
  BY <1>3, <1>4 DEF RowWords, ws, cs, a, b

(* The words of one more row are in front of the others. *)
LEMMA RowsConsed ==
    ASSUME NEW c \in Seq(CellsShown), NEW rest \in Seq(Seq(CellsShown)), NEW g, IsConcat(g, <<c>>, rest)
    PROVE  IsCons(WordsOfRows(g), RowWords(c), WordsOfRows(rest))
<1> DEFINE n == Len(rest)
           m == Len(g)
           C == Seq(CellsShown)
<1>1. /\ g \in Seq(C) /\ m = n + 1 /\ n \in Nat
      /\ DOMAIN g = 1..m /\ DOMAIN rest = 1..n
      /\ g[1] = c /\ \A k \in 1..n : g[k + 1] = rest[k]
  <2>1. c \in C /\ rest \in Seq(C)
    OBVIOUS
  <2> HIDE DEF C
  <2> QED
    BY <2>1, ConsMapped
<1> HIDE DEF n, m
<1>2. Len(WordsOfRows(g)) = m /\ Len(WordsOfRows(rest)) = n
  BY <1>1 DEF WordsOfRows
<1>3. WordsOfRows(g)[1] = RowWords(c)
  <2>1. 1 \in 1..m
    BY <1>1
  <2> QED
    BY <1>1, <2>1 DEF WordsOfRows
<1>4. ASSUME NEW k \in 1..n PROVE WordsOfRows(g)[k + 1] = WordsOfRows(rest)[k]
  <2>1. k + 1 \in 1..m
    BY <1>1
  <2> QED
    BY <1>1, <2>1 DEF WordsOfRows
<1> QED
  BY <1>1, <1>2, <1>3, <1>4 DEF IsCons

(* From any position on, the words of the rows found rise. *)
LEMMA RowsRise ==
    ASSUME NEW html \in Seq(TableTokens), NEW At, Placed(html, 0, At),
           NEW tableEnd, NEW f, RFrom(f, html, tableEnd)
    PROVE  \A i \in 1..(Len(html) + 1) :
              /\ f[i] \in Seq(Seq(CellsShown))
              /\ Spaced(WordsOfRows(f[i]), At, i, Len(html))
<1> DEFINE L == Len(html)
           n == L + 1
<1>1. L \in Nat /\ n \in Nat /\ L \in Int
  BY LenProperties
<1>3. \A i \in 1..n :
         f[i] = IF ROver(html, tableEnd, i) THEN <<>> ELSE RPiece(html, i) \o f[REnd(html, i) + 1]
  BY DEF RFrom
<1>4. n = L + 1
  OBVIOUS
<1>5. \A i \in 1..n : ~ROver(html, tableEnd, i) =>
         RStart(html, i) \in i..L /\ REnd(html, i) \in (RStart(html, i) + 1)..L
  BY <1>1, RPositions
<1> HIDE DEF n
<1> DEFINE Holds(i) == f[i] \in Seq(Seq(CellsShown)) /\ Spaced(WordsOfRows(f[i]), At, i, L)
           P == {i \in 1..n : Holds(i)}
<1>6. ASSUME NEW i \in 1..n, \A j \in (i + 1)..n : j \in P
      PROVE  i \in P
  <2>1. CASE ROver(html, tableEnd, i)
    <3>1. f[i] = <<>>
      BY <1>3, <2>1
    <3>2. WordsOfRows(<<>>) = <<>>
      BY DEF WordsOfRows
    <3>3. Spaced(WordsOfRows(<<>>), At, i, L)
      BY <3>2, NothingSpaced
    <3>4. <<>> \in Seq(Seq(CellsShown))
      BY EmptySeq
    <3> QED
      BY <3>1, <3>3, <3>4
  <2>2. CASE ~ROver(html, tableEnd, i)
    <3> DEFINE start == RStart(html, i)
               end == REnd(html, i)
               x == start + 1
               y == end - 1
               inner == SubSeq(html, x, y)
               c == RCells(html, i)
               next == end + 1
               rest == f[next]
    <3>1. start \in i..L /\ end \in (start + 1)..L
      BY <1>5, <2>2
    <3>2. f[i] = (IF c = <<>> THEN <<>> ELSE <<c>>) \o rest
      BY <1>3, <2>2 DEF RPiece
    <3>3. c = Cells(inner)
      BY DEF RCells
    <3> HIDE DEF start, end, c, L
    <3>5. /\ x \in Nat \ {0} /\ y \in Int /\ x <= y + 1 /\ y <= L /\ next \in (i + 1)..n
          /\ x - 1 = start /\ next = end + 1 /\ y = end - 1 /\ i <= next /\ i \in Int /\ next \in Int
          /\ 0 + x - 1 = start /\ 0 + y = y
      BY <1>1, <1>4, <3>1
    <3> HIDE DEF x, y, next, rest
    <3>6. /\ inner \in Seq(TableTokens) /\ Placed(inner, start, At)
          /\ start \in Nat /\ start + Len(inner) = y
      <4> DEFINE o == 0
                 p == o + x - 1
      <4>1. x \in Nat \ {0} /\ y \in Int /\ x <= y + 1 /\ y <= Len(html)
        BY <3>5 DEF L
      <4>2. o \in Nat /\ Placed(html, o, At)
        OBVIOUS
      <4>3. p = start /\ o + y = y
        BY <3>5
      <4> HIDE DEF o
      <4>4. /\ SubSeq(html, x, y) \in Seq(TableTokens) /\ Placed(SubSeq(html, x, y), o + x - 1, At)
            /\ o + x - 1 \in Nat /\ o + x - 1 + Len(SubSeq(html, x, y)) = o + y
        BY <4>1, <4>2, PartPlaced
      <4>5. /\ inner \in Seq(TableTokens) /\ Placed(inner, p, At)
            /\ p \in Nat /\ p + Len(inner) = o + y
        BY <4>4
      <4> HIDE DEF p, inner
      <4> QED
        BY <4>3, <4>5
    <3> HIDE DEF inner
    <3>7. /\ RowWords(Cells(inner)) \in Seq(TextTokens)
          /\ Rising(RowWords(Cells(inner)), At, start + 1, start + Len(inner))
      BY <3>6, RowRises
    <3>8. c \in Seq(CellsShown)
      BY <3>3, <3>6, CellsRise
    <3>9. rest \in Seq(Seq(CellsShown)) /\ Spaced(WordsOfRows(rest), At, next, L)
      BY <1>6, <3>5 DEF rest
    <3>10. CASE c = <<>>
      <4>1. f[i] = rest
        <5>1. f[i] = <<>> \o rest
          BY <3>2, <3>10
        <5> QED
          BY <3>9, <5>1, ConcatEmptySeq
      <4> DEFINE all == WordsOfRows(rest)
      <4>2. Spaced(all, At, next, L) /\ L \in Int
        BY <1>1, <3>9 DEF L
      <4> HIDE DEF all
      <4>3. Spaced(all, At, i, L)
        BY <3>5, <4>2, SpacedWidens
      <4> QED
        BY <3>9, <4>1, <4>3 DEF all
    <3>11. CASE c # <<>>
      <4> DEFINE w == RowWords(c)
                 m == end
                 u == start + 1
                 v == start + Len(inner)
                 g == f[i]
                 all == WordsOfRows(g)
                 others == WordsOfRows(rest)
      <4>1. IsConcat(g, <<c>>, rest)
        BY <3>2, <3>11 DEF IsConcat
      <4>2. Rising(w, At, u, v)
        BY <3>3, <3>7
      <4>3. /\ i \in Int /\ m \in Int /\ u \in Int /\ v \in Int /\ i <= u /\ v <= m
            /\ i <= m + 1 /\ m <= L /\ m + 1 = next /\ L \in Int
        <5>1. L \in Int
          BY <1>1 DEF L
        <5> QED
          BY <3>1, <3>5, <3>6, <5>1
      <4>4. g \in Seq(Seq(CellsShown))
        <5> DEFINE C == Seq(CellsShown)
        <5>1. c \in C /\ rest \in Seq(C)
          BY <3>8, <3>9
        <5> HIDE DEF C, g
        <5>2. g \in Seq(C)
          BY <4>1, <5>1, ConsMapped
        <5> QED
          BY <5>2 DEF C
      <4> HIDE DEF g, w, u, v, m, all, others
      <4>5. Rising(w, At, i, m)
        BY <4>2, <4>3, RisingWidens
      <4>6. IsCons(all, w, others)
        BY <3>8, <3>9, <4>1, RowsConsed DEF w, all, others
      <4>7. Spaced(others, At, m + 1, L)
        BY <3>9, <4>3 DEF others
      <4>8. Spaced(all, At, i, L)
        BY <4>3, <4>5, <4>6, <4>7, SpacedCons
      <4> QED
        BY <4>4, <4>8 DEF all, g
    <3> QED
      BY <3>10, <3>11
  <2> QED
    BY <2>1, <2>2
<1> HIDE DEF P
<1>7. \A i \in 1..n : i \in P
  BY <1>1, <1>6, DownTo
<1> QED
  BY <1>7 DEF P, n

(* The words of the table that is shown                                    *)
LEMMA TableRises ==
    ASSUME NEW html \in Seq(TableTokens), NEW At, Placed(html, 0, At)
    PROVE  /\ CellWords(TableRows(html)) \in Seq(TextTokens)
           /\ Rising(CellWords(TableRows(html)), At, 1, Len(html))
<1> DEFINE rs == TableRows(html)
           L == Len(html)
           ws == WordsOfRows(rs)
           a == 1
<1>1. L \in Nat
  BY LenProperties
<1>2. rs \in Seq(Seq(CellsShown)) /\ Spaced(ws, At, a, L)
  <2> DEFINE tableEnd == TEnd(html)
             i == TStart(html) + 1
  <2>1. CASE TStart(html) = None \/ TEnd(html) = None
    <3>1. rs = <<>>
      BY <2>1 DEF TableRows, TStart, TEnd
    <3>2. <<>> \in Seq(Seq(CellsShown)) /\ WordsOfRows(<<>>) = <<>>
      BY EmptySeq DEF WordsOfRows
    <3>3. Spaced(<<>>, At, a, L)
      BY NothingSpaced
    <3> QED
      BY <3>1, <3>2, <3>3
  <2>2. CASE ~(TStart(html) = None \/ TEnd(html) = None)
    <3>1. i \in 1..(L + 1)
      BY <1>1, <2>2, TPositions
    <3>2. rs = RowsFrom(html, i, tableEnd)
      BY <2>2 DEF TableRows, TStart, TEnd
    <3> HIDE DEF i, tableEnd, rs
    <3>3. PICK f : RFrom(f, html, tableEnd) /\ \A k : RowsFrom(html, k, tableEnd) = f[k]
      BY <1>1, RowsUnfold
    <3>4. f[i] \in Seq(Seq(CellsShown)) /\ Spaced(WordsOfRows(f[i]), At, i, L)
      BY <3>1, <3>3, RowsRise
    <3>5. rs = f[i]
      BY <3>2, <3>3
    <3>6. Spaced(ws, At, i, L)
      BY <3>4, <3>5
    <3>7. i \in Int /\ L \in Int /\ a \in Int /\ a <= i
      BY <1>1, <3>1
    <3> HIDE DEF ws, a, L
    <3>8. Spaced(ws, At, a, L)
      BY <3>6, <3>7, SpacedWidens
    <3> QED
      BY <3>4, <3>5, <3>8
  <2> QED
    BY <2>1, <2>2
<1> HIDE DEF rs
<1>3. ws \in Seq(Seq(TextTokens))
  <2> DEFINE n == Len(rs)
  <2>1. n \in Nat /\ DOMAIN rs = 1..n /\ \A k \in 1..n : rs[k] \in Seq(CellsShown)
    BY <1>2, LenProperties, ElementOfSeq
  <2>2. \A k \in 1..n : RowWords(rs[k]) \in Seq(TextTokens)
    BY <2>1, RowWordsType
  <2>3. ws \in [1..n -> Seq(TextTokens)]
    BY <2>1, <2>2 DEF WordsOfRows
  <2> HIDE DEF n, ws
  <2> QED
    BY <2>1, <2>3, FcnIsSeq
<1>4. CellWords(rs) = FlattenSeq(ws)
  BY DEF CellWords, WordsOfRows, RowWords, WordsOfCells
<1>5. a \in Int /\ L \in Int
  BY <1>1
<1> HIDE DEF ws, a, L
<1>6. FlattenSeq(ws) \in Seq(TextTokens) /\ Rising(FlattenSeq(ws), At, a, L)
  BY <1>2, <1>3, <1>5, FlattenType, FlattenRises
<1> QED
  BY <1>4, <1>6 DEF rs, a, L

(* Damage brings in tags only, so words that could be told apart still can. *)
LEMMA StaysToldApart ==
    ASSUME NEW S, NEW s \in Seq(S), NEW t \in Seq(S), NEW at \in 1..Len(s), NEW tokens \in Seq(Tags),
           IsDamaged(t, s, at, tokens), ToldApart(s)
    PROVE  ToldApart(t)
<1> DEFINE m == Len(tokens)
           L == Len(s)
           n == Len(t)
           from(l) == IF l < at THEN l ELSE l - m + 1
<1>1. /\ m \in Nat /\ L \in Nat /\ n \in Nat /\ n = L - 1 + m /\ DOMAIN t = 1..n /\ DOMAIN s = 1..L
      /\ at \in Nat /\ 1 <= at /\ at <= L
  BY LenProperties DEF IsDamaged
<1>2. \A l \in 1..n : t[l] = IF l < at THEN s[l]
                             ELSE IF l < at + m THEN tokens[l - at + 1] ELSE s[l - m + 1]
  BY DEF IsDamaged
<1>3. \A k \in 1..m : tokens[k] \in Tags
  BY ElementOfSeq
<1>4. \A i, k \in 1..L : i # k /\ s[i] = s[k] => s[i] \in Tags
  BY <1>1 DEF ToldApart
<1> HIDE DEF m, L, n
<1>5. ASSUME NEW l \in 1..n, t[l] \notin Tags
      PROVE  from(l) \in 1..L /\ t[l] = s[from(l)] /\ (l < at \/ l >= at + m)
  <2>1. CASE l < at
    BY <1>1, <1>2, <2>1
  <2>2. CASE ~(l < at) /\ l < at + m
    <3> DEFINE k == l - at + 1
    <3>1. k \in 1..m
      BY <1>1, <2>2
    <3>2. t[l] = tokens[k]
      BY <1>2, <2>2
    <3> HIDE DEF k
    <3>3. t[l] \in Tags
      BY <1>3, <3>1, <3>2
    <3> QED
      BY <1>5, <3>3
  <2>3. CASE ~(l < at) /\ ~(l < at + m)
    <3>1. l - m + 1 \in 1..L /\ l >= at + m
      BY <1>1, <2>3
    <3>2. t[l] = s[l - m + 1]
      BY <1>2, <2>3
    <3> QED
      BY <2>3, <3>1, <3>2
  <2> QED
    BY <2>1, <2>2, <2>3
<1>6. ASSUME NEW i \in 1..n, NEW k \in 1..n, i # k, t[i] = t[k], t[i] \notin Tags
      PROVE  FALSE
  <2> DEFINE u == from(i)
             v == from(k)
  <2>1. u \in 1..L /\ t[i] = s[u] /\ (i < at \/ i >= at + m)
    BY <1>5, <1>6
  <2>2. v \in 1..L /\ t[k] = s[v] /\ (k < at \/ k >= at + m)
    <3>1. t[k] \notin Tags
      BY <1>6
    <3> QED
      BY <1>5, <3>1
  <2>3. u # v
    <3>1. i < at \/ i >= at + m
      BY <2>1
    <3>2. k < at \/ k >= at + m
      BY <2>2
    <3>3. i \in Nat /\ k \in Nat /\ i # k /\ at \in Nat /\ m \in Nat
      BY <1>1, <1>6
    <3> QED
      BY <3>1, <3>2, <3>3
  <2> HIDE DEF u, v
  <2>4. s[u] = s[v] /\ s[u] \notin Tags
    BY <1>6, <2>1, <2>2
  <2> QED
    BY <1>4, <2>1, <2>2, <2>3, <2>4
<1> QED
  BY <1>1, <1>6 DEF ToldApart

(* A word that can be told from all others has one place. *)
LEMMA WordsKnowTheirPlaces ==
    ASSUME NEW html \in Seq(TableTokens), ToldApart(html)
    PROVE  Placed(html, 0, [w \in TextTokens |-> FirstIn(html, {w}, 1)])
<1> DEFINE At == [w \in TextTokens |-> FirstIn(html, {w}, 1)]
<1>1. Len(html) \in Nat /\ DOMAIN html = 1..Len(html)
  BY LenProperties
<1>2. ASSUME NEW k \in 1..Len(html), html[k] \in Words
      PROVE  At[html[k]] = 0 + k
  <2> DEFINE w == html[k]
             one == 1
             S == {w}
  <2>1. w \in TextTokens
    BY <1>2 DEF TextTokens, TableTokens
  <2>2. At[w] = FirstIn(html, S, one)
    BY <2>1
  <2>3. w \notin Tags
    BY <1>2, MarkupApart
  <2>4. \A l \in one..(k - 1) : html[l] \notin S
    <3> TAKE l \in one..(k - 1)
    <3>1. l \in 1..Len(html) /\ k \in 1..Len(html) /\ l # k
      BY <1>1
    <3>2. html[l] = html[k] => html[l] \in Tags
      BY <1>1, <3>1 DEF ToldApart
    <3> QED
      BY <2>3, <3>2
  <2>5. one \in Nat \ {0} /\ k \in one..Len(html)
    BY <1>1
  <2>6. html[k] \in S
    OBVIOUS
  <2> HIDE DEF one, S, w, At
  <2>7. FirstIn(html, S, one) = k
    BY <1>1, <2>4, <2>5, <2>6, FirstInIs
  <2>8. At[w] = 0 + k
    BY <2>2, <2>7
  <2> QED
    BY <2>8 DEF w
<1> HIDE DEF At
<1>3. Placed(html, 0, At)
  BY <1>2 DEF Placed
<1> QED
  BY <1>3 DEF At

(* However a table is damaged, its words are shown at most once, in their  *)
(* order.                                                                  *)
LEMMA WordsShownOnceHolds ==
    ASSUME AnswerInv
    PROVE  WordsShownOnce
<1> SUFFICES ASSUME answer.kind = "damaged"
             PROVE  LET shown == CellWords(TableRows(answer.html))
                        at(w) == FirstIn(answer.html, {w}, 1)
                    IN  \A i, k \in DOMAIN shown : i < k => at(shown[i]) < at(shown[k])
  BY DEF WordsShownOnce
<1> DEFINE rs == TableRowsMeant
           whole == WrittenTable(rs)
           at == answer.at
           html == answer.html
<1>1. rs \in Seq(Seq(CellsMeant)) /\ rs # <<>>
  BY ViewsAssumption
<1>2. PICK mid, d : \E e, later :
             /\ d \in Damages /\ at \in 1..Len(whole)
             /\ mid \in Seq(TableTokens) /\ html \in Seq(TableTokens)
             /\ at \in 1..Len(mid) /\ IsDamaged(html, mid, at, d)
             /\ \/ mid = whole
                \/ /\ e \in Damages /\ later \in 1..Len(whole) /\ at < later
                   /\ IsDamaged(mid, whole, later, e)
  BY TwiceDamaged
<1>3. PICK e, later :
             /\ d \in Damages /\ at \in 1..Len(whole)
             /\ mid \in Seq(TableTokens) /\ html \in Seq(TableTokens)
             /\ at \in 1..Len(mid) /\ IsDamaged(html, mid, at, d)
             /\ \/ mid = whole
                \/ /\ e \in Damages /\ later \in 1..Len(whole) /\ at < later
                   /\ IsDamaged(mid, whole, later, e)
  BY <1>2
<1>4. whole \in Seq(TableTokens) /\ ToldApart(whole)
  BY <1>1, TableIsOfWordsAndTags, TableAssumption
<1>5. d \in Seq(Tags)
  BY <1>3, ViewsAssumption
<1> HIDE DEF rs, whole, at, html
<1>6. ToldApart(mid)
  <2>1. CASE mid = whole
    BY <1>4, <2>1
  <2>2. CASE e \in Damages /\ later \in 1..Len(whole) /\ IsDamaged(mid, whole, later, e)
    <3>1. e \in Seq(Tags)
      BY <2>2, ViewsAssumption
    <3> QED
      BY <1>3, <1>4, <2>2, <3>1, StaysToldApart
  <2> QED
    BY <1>3, <2>1, <2>2
<1>7. ToldApart(html)
  BY <1>3, <1>5, <1>6, StaysToldApart
<1> DEFINE At == [w \in TextTokens |-> FirstIn(html, {w}, 1)]
           shown == CellWords(TableRows(html))
<1>8. html \in Seq(TableTokens)
  BY <1>3
<1>9. Placed(html, 0, At)
  BY <1>7, <1>8, WordsKnowTheirPlaces
<1> HIDE DEF At
<1>10. shown \in Seq(TextTokens) /\ Rising(shown, At, 1, Len(html))
  BY <1>8, <1>9, TableRises
<1> HIDE DEF shown
<1>11. DOMAIN shown = 1..Len(shown) /\ \A i \in 1..Len(shown) : shown[i] \in TextTokens
  BY <1>10, LenProperties, ElementOfSeq
<1>12. ASSUME NEW i \in 1..Len(shown), NEW k \in 1..Len(shown), i < k
       PROVE  FirstIn(html, {shown[i]}, 1) < FirstIn(html, {shown[k]}, 1)
  <2>1. At[shown[i]] < At[shown[k]]
    BY <1>10, <1>12 DEF Rising
  <2>2. At[shown[i]] = FirstIn(html, {shown[i]}, 1) /\ At[shown[k]] = FirstIn(html, {shown[k]}, 1)
    BY <1>11 DEF At
  <2> QED
    BY <2>1, <2>2
<1> QED
  BY <1>11, <1>12 DEF shown, html

(***************************************************************************)
(* What holds of every page                                                *)
(***************************************************************************)
(* For any pages of any blocks: parse_ocr_result and                       *)
(* job_html_detection_views show every block with a readable header in     *)
(* order, with its label, its box, its text and the rows and spans of its  *)
(* own table as they were meant (PageShownAsMeant).                        *)
THEOREM PagesAreShownAsMeant == ViewsSpec => []PageShownAsMeant
<1>1. ViewsInit => AnswerInv
  BY AnswerInvHolds
<1>2. AnswerInv /\ [ViewsNext]_viewVars => AnswerInv'
  BY AnswerInvHolds
<1>3. AnswerInv => PageShownAsMeant
  BY PageShownAsMeantHolds
<1> QED
  BY <1>1, <1>2, <1>3, PTL DEF ViewsSpec

(* However one or two tokens of a table are replaced by tags or dropped:   *)
(* parse_table_rows shows no word of the table twice or out of order, and  *)
(* the rows that were closed before the damage as they were meant, as long *)
(* as the table is closed at all (DamageContained).                        *)
THEOREM DamageStaysContained == ViewsSpec => []DamageContained
<1>1. ViewsInit => AnswerInv
  BY AnswerInvHolds
<1>2. AnswerInv /\ [ViewsNext]_viewVars => AnswerInv'
  BY AnswerInvHolds
<1>3. AnswerInv => DamageContained
  BY WordsShownOnceHolds, DamageIsLocalHolds DEF DamageContained
<1> QED
  BY <1>1, <1>2, <1>3, PTL DEF ViewsSpec

(* Whatever characters a cell was meant to hold, with those that need it   *)
(* escaped and a <b> in front of any of them: strip_html_tags and           *)
(* decode_html_entities show its text as it was (CellTextFaithful).        *)
THEOREM CellsShowTheirText == ViewsSpec => []CellTextFaithful
<1>1. ViewsInit => AnswerInv
  BY AnswerInvHolds
<1>2. AnswerInv /\ [ViewsNext]_viewVars => AnswerInv'
  BY AnswerInvHolds
<1>3. AnswerInv => CellTextFaithful
  BY CellTextFaithfulHolds
<1> QED
  BY <1>1, <1>2, <1>3, PTL DEF ViewsSpec

(* Opening the page of a job changes nothing of the list, so a client that *)
(* does both is shown the list as in PagesMissNothing (get_job_html reads  *)
(* one record under the read lock).                                        *)
THEOREM OpeningKeepsTheList == ViewsSpec => []ListPagesCorrect
<1>1. ViewsInit => Init
  BY DEF ViewsInit
<1>2. [ViewsNext]_viewVars => [Next]_vars
  BY DEF ViewsNext, Read, OpenPage, OpenDamagedTable, OpenCell, GetJobHtml, viewVars
<1> QED
  BY <1>1, <1>2, ListInvShows, ListInit, ListStep, PTL DEF ViewsSpec
=============================================================================
