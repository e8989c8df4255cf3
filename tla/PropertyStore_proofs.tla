------------------------ MODULE PropertyStore_proofs ------------------------
(***************************************************************************)
(* The property files and the tree, proved for every set of names, values  *)
(* and files: a rewrite that has hit its line changes the one property in  *)
(* the file and nothing else, and so do a set and a reboot.                *)
(***************************************************************************)
EXTENDS PropertyStore, SequenceTheorems, WellFoundedInduction, TLAPS

-----------------------------------------------------------------------------
(* The least and the greatest of some numbers                               *)

Less == {p \in Nat \X Nat : p[1] < p[2]}

LEMMA LessIsWellFounded == IsWellFoundedOn(Less, Nat)
<1>1. OpToRel(<, Nat) = Less
  BY Zenon DEF OpToRel, Less
<1> QED
  BY <1>1, NatLessThanWellFounded

LEMMA LeastExists ==
    ASSUME NEW S \in SUBSET Nat, S # {} PROVE \E m \in S : \A n \in S : m <= n
<1>1. PICK m \in S : \A n \in S : <<n, m>> \notin Less
  BY LessIsWellFounded, WFMin
<1>2. ASSUME NEW n \in S PROVE m <= n
  <2>1. <<n, m>> \in Nat \X Nat /\ <<n, m>> \notin Less
    BY <1>1
  <2>2. ~ (<<n, m>>[1] < <<n, m>>[2])
    BY <2>1, Zenon DEF Less
  <2> QED
    BY <2>2
<1> QED
  BY <1>2

LEMMA MinIs ==
    ASSUME NEW S \in SUBSET Nat, S # {} PROVE Min(S) \in S /\ \A n \in S : Min(S) <= n
BY LeastExists DEF Min

LEMMA MaxIs ==
    ASSUME NEW b \in Nat, NEW S \in SUBSET 0..b, S # {}
    PROVE  Max(S) \in S /\ \A n \in S : n <= Max(S)
<1> DEFINE down == {b - n : n \in S}
<1>1. down \in SUBSET Nat /\ down # {}
  <2>1. \A n \in S : b - n \in Nat
    OBVIOUS
  <2> QED
    BY <2>1
<1>2. PICK m \in down : \A n \in down : m <= n
  BY <1>1, LeastExists
<1>3. PICK g \in S : m = b - g
  OBVIOUS
<1>4. ASSUME NEW n \in S PROVE n <= g
  <2>1. m <= b - n
    BY <1>2
  <2> QED
    BY <2>1, <1>3
<1> QED
  BY <1>4 DEF Max

LEMMA MinEquals ==
    ASSUME NEW S \in SUBSET Nat, NEW m \in S, \A n \in S : m <= n PROVE Min(S) = m
<1> SUFFICES ASSUME NEW x \in S, x = Min(S), x <= m PROVE x = m
  BY MinIs
<1> QED
  OBVIOUS

LEMMA MaxEquals ==
    ASSUME NEW b \in Nat, NEW S \in SUBSET 0..b, NEW m \in S, \A n \in S : n <= m
    PROVE  Max(S) = m
<1> SUFFICES ASSUME NEW x \in S, x = Max(S), m <= x PROVE x = m
  BY MaxIs
<1> QED
  OBVIOUS

-----------------------------------------------------------------------------
(* What puts leave behind                                                   *)

\* A function of puts in an order.
IsPuts(f, b) == DOMAIN f \subseteq 0..b

Putting(f, k) == {i \in DOMAIN f : k \in DOMAIN f[i]}

LEMMA LatestIs ==
    ASSUME NEW f, NEW b \in Nat, IsPuts(f, b), NEW k, NEW i \in DOMAIN f, k \in DOMAIN f[i],
           \A j \in Putting(f, k) : j <= i
    PROVE  k \in DOMAIN Latest(f) /\ Latest(f)[k] = f[i][k]
<1>1. Max(Putting(f, k)) = i
  <2>1. Putting(f, k) \in SUBSET (0..b) /\ i \in Putting(f, k)
    BY DEF Putting, IsPuts
  <2> QED
    BY <2>1, MaxEquals
<1>2. k \in UNION {DOMAIN f[j] : j \in DOMAIN f}
  OBVIOUS
<1> QED
  BY <1>1, <1>2 DEF Latest, Putting

LEMMA LatestComesFrom ==
    ASSUME NEW f, NEW b \in Nat, IsPuts(f, b), NEW k \in DOMAIN Latest(f)
    PROVE  \E i \in DOMAIN f : /\ k \in DOMAIN f[i]
                               /\ Latest(f)[k] = f[i][k]
                               /\ \A j \in Putting(f, k) : j <= i
<1>1. k \in UNION {DOMAIN f[j] : j \in DOMAIN f}
  BY DEF Latest
<1>2. Putting(f, k) \in SUBSET (0..b) /\ Putting(f, k) # {}
  BY <1>1 DEF Putting, IsPuts
<1>3. Max(Putting(f, k)) \in Putting(f, k) /\ \A j \in Putting(f, k) : j <= Max(Putting(f, k))
  BY <1>2, MaxIs
<1>4. Latest(f)[k] = f[Max(Putting(f, k))][k]
  BY <1>1 DEF Latest, Putting
<1> QED
  BY <1>3, <1>4 DEF Putting
-----------------------------------------------------------------------------
(* The lines of a text, and the puts in it                                  *)

OneLine(s) == \A i \in 1..Len(s) : s[i] # EOL

LEMMA Cut ==
    ASSUME NEW t \in Text, NEW m \in 1..Len(t) + 1, NEW n \in 0..Len(t)
    PROVE  /\ SubSeq(t, m, n) \in Text
           /\ Len(SubSeq(t, m, n)) = IF m <= n THEN n - m + 1 ELSE 0
           /\ \A i \in 1..Len(SubSeq(t, m, n)) : SubSeq(t, m, n)[i] = t[m + i - 1]
BY DEF Text

LEMMA EndIs ==
    ASSUME NEW t \in Text, NEW i \in 1..Len(t) + 1
    PROVE  /\ End(t, i) \in i..Len(t) + 1
           /\ End(t, i) = Len(t) + 1 \/ t[End(t, i)] = EOL
           /\ \A j \in i..End(t, i) - 1 : t[j] # EOL
<1> DEFINE ends == {j \in i..Len(t) + 1 : j = Len(t) + 1 \/ t[j] = EOL}
<1>1. ends \in SUBSET Nat /\ Len(t) + 1 \in ends
  BY DEF Text
<1>2. Min(ends) \in ends /\ \A n \in ends : Min(ends) <= n
  BY <1>1, MinIs
<1> HIDE DEF ends
<1> SUFFICES ASSUME NEW e \in ends, \A n \in ends : e <= n
             PROVE  /\ e \in i..Len(t) + 1
                    /\ e = Len(t) + 1 \/ t[e] = EOL
                    /\ \A j \in i..e - 1 : t[j] # EOL
  BY <1>2 DEF End, ends
<1> QED
  BY DEF ends, Text

LEMMA EndEquals ==
    ASSUME NEW t \in Text, NEW i \in 1..Len(t) + 1, NEW e \in i..Len(t) + 1,
           e = Len(t) + 1 \/ t[e] = EOL,
           \A j \in i..e - 1 : t[j] # EOL
    PROVE  End(t, i) = e
<1> SUFFICES ASSUME NEW d \in i..Len(t) + 1, d = End(t, i),
                    d = Len(t) + 1 \/ t[d] = EOL,
                    \A j \in i..d - 1 : t[j] # EOL
             PROVE  d = e
  BY EndIs
<1> QED
  BY DEF Text

LEMMA LineIs ==
    ASSUME NEW t \in Text, NEW i \in 1..Len(t) + 1
    PROVE  LineAt(t, i) \in Text /\ OneLine(LineAt(t, i))
<1> SUFFICES ASSUME NEW e \in i..Len(t) + 1, \A j \in i..e - 1 : t[j] # EOL
             PROVE  SubSeq(t, i, e - 1) \in Text /\ OneLine(SubSeq(t, i, e - 1))
  BY EndIs DEF LineAt
<1>1. Len(t) \in Nat
  BY DEF Text
<1>2. e - 1 \in 0..Len(t)
  BY <1>1
<1> QED
  BY <1>1, <1>2, Cut DEF OneLine

\* The first and the last token that is no blank.
LEMMA TrimIs ==
    ASSUME NEW s \in Text, OneLine(s)
    PROVE  Trim(s) \in Text /\ Word(Trim(s))
<1> DEFINE solid == {i \in 1..Len(s) : s[i] # Blank}
<1>1. CASE solid = {}
  <2>1. Trim(s) = <<>>
    BY <1>1 DEF Trim
  <2>2. <<>> \in Text /\ Word(<<>>)
    BY DEF Text, Word
  <2> QED
    BY <2>1, <2>2
<1>2. CASE solid # {}
  <2>1. PICK l \in Nat : l = Len(s)
    BY DEF Text
  <2>2. solid \in SUBSET Nat /\ solid \in SUBSET (0..l)
    <3>1. solid \in SUBSET (1..l)
      BY <2>1, Zenon
    <3> HIDE DEF solid
    <3> QED
      BY <3>1
  <2>3. Min(solid) \in solid /\ Max(solid) \in solid /\ Min(solid) <= Max(solid)
    BY <1>2, <2>2, MinIs, MaxIs
  <2>4. Trim(s) = SubSeq(s, Min(solid), Max(solid))
    BY <1>2 DEF Trim
  <2> HIDE DEF solid
  <2> SUFFICES ASSUME NEW m \in 1..l, NEW n \in 1..l, m <= n, s[m] # Blank, s[n] # Blank
               PROVE  SubSeq(s, m, n) \in Text /\ Word(SubSeq(s, m, n))
    BY <2>1, <2>3, <2>4, Zenon DEF solid
  <2> DEFINE cut == SubSeq(s, m, n)
  <2>5. m \in 1..Len(s) + 1 /\ n \in 0..Len(s)
    BY <2>1 DEF Text
  <2>6. /\ cut \in Text /\ Len(cut) = n - m + 1
        /\ \A i \in 1..Len(cut) : cut[i] = s[m + i - 1]
    BY <2>5, Cut
  <2> HIDE DEF cut
  <2>7. cut[1] = s[m]
    <3>1. 1 \in 1..Len(cut) /\ m + 1 - 1 = m
      BY <2>6 DEF Text
    <3> QED
      BY <2>6, <3>1
  <2>8. cut[Len(cut)] = s[n]
    <3>1. Len(cut) \in 1..Len(cut) /\ m + Len(cut) - 1 = n
      BY <2>6 DEF Text
    <3> QED
      BY <2>6, <3>1
  <2>9. ASSUME NEW i \in 1..Len(cut) PROVE cut[i] # EOL
    <3>1. m + i - 1 \in 1..Len(s)
      BY <2>1, <2>6 DEF Text
    <3> QED
      BY <2>6, <3>1 DEF OneLine
  <2> QED
    BY <2>6, <2>7, <2>8, <2>9 DEF Word, cut
<1> QED
  BY <1>1, <1>2

LEMMA TrimSame == ASSUME NEW s \in Text, Word(s) PROVE Trim(s) = s
<1> DEFINE solid == {i \in 1..Len(s) : s[i] # Blank}
<1>1. CASE s = <<>>
  <2>1. solid = {}
    BY <1>1
  <2> QED
    BY <1>1, <2>1 DEF Trim
<1>2. CASE s # <<>>
  <2>1. PICK l \in Nat : l = Len(s) /\ l > 0
    BY <1>2 DEF Text
  <2>2. 1 \in solid /\ l \in solid
    BY <1>2, <2>1 DEF Word
  <2>3. solid \in SUBSET (1..l)
    BY <2>1, Zenon
  <2>4. Trim(s) = SubSeq(s, Min(solid), Max(solid))
    BY <2>2 DEF Trim
  <2> HIDE DEF solid
  <2>5. solid \in SUBSET Nat /\ solid \in SUBSET (0..l) /\ \A n \in solid : 1 <= n /\ n <= l
    BY <2>3
  <2>6. Min(solid) = 1
    BY <2>2, <2>5, MinEquals
  <2>7. Max(solid) = l
    BY <2>2, <2>5, MaxEquals
  <2>8. SubSeq(s, 1, l) = s
    BY <2>1 DEF Text
  <2> QED
    BY <2>4, <2>6, <2>7, <2>8
<1> QED
  BY <1>1, <1>2

LEMMA FirstIs ==
    ASSUME NEW s \in Text, NEW c, Contains(s, c)
    PROVE  /\ First(s, c) \in 1..Len(s) /\ s[First(s, c)] = c
           /\ \A j \in 1..First(s, c) - 1 : s[j] # c
<1> DEFINE at == {i \in 1..Len(s) : s[i] = c}
<1>1. at \in SUBSET Nat /\ at # {}
  BY DEF Contains, Text
<1>2. Min(at) \in at /\ \A n \in at : Min(at) <= n
  BY <1>1, MinIs
<1> HIDE DEF at
<1> SUFFICES ASSUME NEW e \in at, \A n \in at : e <= n
             PROVE  e \in 1..Len(s) /\ s[e] = c /\ \A j \in 1..e - 1 : s[j] # c
  BY <1>2 DEF First, at
<1> QED
  BY DEF at, Text

LEMMA FirstEquals ==
    ASSUME NEW s \in Text, NEW e \in 1..Len(s), \A j \in 1..e - 1 : s[j] # s[e]
    PROVE  First(s, s[e]) = e
<1>1. Contains(s, s[e])
  BY DEF Contains
<1> SUFFICES ASSUME NEW d \in 1..Len(s), s[d] = s[e], \A j \in 1..d - 1 : s[j] # s[e]
             PROVE  d = e
  BY <1>1, FirstIs
<1> QED
  BY DEF Text

LEMMA CutLine ==
    ASSUME NEW t \in Text, OneLine(t), NEW m \in 1..Len(t) + 1, NEW n \in 0..Len(t)
    PROVE  SubSeq(t, m, n) \in Text /\ OneLine(SubSeq(t, m, n))
<1> DEFINE cut == SubSeq(t, m, n)
<1>1. /\ cut \in Text /\ Len(cut) = IF m <= n THEN n - m + 1 ELSE 0
      /\ \A i \in 1..Len(cut) : cut[i] = t[m + i - 1]
  BY Cut
<1>2. PICK l \in Nat : l = Len(t)
  BY DEF Text
<1> HIDE DEF cut
<1>3. ASSUME NEW i \in 1..Len(cut) PROVE m + i - 1 \in 1..Len(t)
  BY <1>1, <1>2
<1>4. OneLine(cut)
  BY <1>1, <1>3 DEF OneLine
<1> QED
  BY <1>1, <1>4 DEF cut

LEMMA SidesAreLines ==
    ASSUME NEW s \in Text, OneLine(s), NEW c, Contains(s, c)
    PROVE  /\ Before(s, c) \in Text /\ OneLine(Before(s, c))
           /\ After(s, c) \in Text /\ OneLine(After(s, c))
<1>1. PICK e \in 1..Len(s) : e = First(s, c)
  BY FirstIs
<1>2. /\ 1 \in 1..Len(s) + 1 /\ e - 1 \in 0..Len(s)
      /\ e + 1 \in 1..Len(s) + 1 /\ Len(s) \in 0..Len(s)
  BY DEF Text
<1> QED
  BY <1>1, <1>2, CutLine DEF Before, After

\* What every put stores.
Good(k, v) == is_legal_property_name(k) /\ v \in Text /\ Word(v) /\ Len(v) < ValueMax

GoodPuts(f) == \A k \in DOMAIN f : Good(k, f[k])

LEMMA LinePutsGood ==
    ASSUME NEW l \in Text, OneLine(l), NEW filter PROVE GoodPuts(LinePuts(l, filter))
<1> SUFFICES ASSUME NEW k \in DOMAIN LinePuts(l, filter) PROVE Good(k, LinePuts(l, filter)[k])
  BY DEF GoodPuts
<1>1. /\ Contains(l, Equals) /\ is_legal_property_name(k)
      /\ Len(Trim(After(l, Equals))) < ValueMax
      /\ LinePuts(l, filter)[k] = Trim(After(l, Equals))
  BY DEF LinePuts
<1>2. Trim(After(l, Equals)) \in Text /\ Word(Trim(After(l, Equals)))
  BY <1>1, SidesAreLines, TrimIs
<1> QED
  BY <1>1, <1>2 DEF Good

LEMMA LatestGood ==
    ASSUME NEW f, NEW b \in Nat, IsPuts(f, b), \A i \in DOMAIN f : GoodPuts(f[i])
    PROVE  GoodPuts(Latest(f))
<1> SUFFICES ASSUME NEW k \in DOMAIN Latest(f) PROVE Good(k, Latest(f)[k])
  BY DEF GoodPuts
<1>1. PICK i \in DOMAIN f : k \in DOMAIN f[i] /\ Latest(f)[k] = f[i][k]
  BY LatestComesFrom
<1> QED
  BY <1>1 DEF GoodPuts

LEMMA StartsBounded ==
    ASSUME NEW t \in Text
    PROVE  /\ Len(t) + 1 \in Nat /\ Starts(t) \subseteq 0..Len(t) + 1
           /\ \A i \in Starts(t) : i \in 1..Len(t) + 1
BY DEF Text, Starts

\* The line at a start, trimmed as load_properties does.
LEMMA TrimmedLine ==
    ASSUME NEW t \in Text, NEW i \in Starts(t)
    PROVE  Trim(LineAt(t, i)) \in Text /\ Word(Trim(LineAt(t, i))) /\ OneLine(Trim(LineAt(t, i)))
<1>1. Trim(LineAt(t, i)) \in Text /\ Word(Trim(LineAt(t, i)))
  BY StartsBounded, LineIs, TrimIs
<1> QED
  BY <1>1 DEF Word, OneLine

LEMMA FilteredGood ==
    ASSUME NEW t \in Text, NEW filter PROVE GoodPuts(FilteredPuts(t, filter))
<1> DEFINE f == [i \in Starts(t) |-> LinePuts(Trim(LineAt(t, i)), filter)]
<1>1. IsPuts(f, Len(t) + 1) /\ Len(t) + 1 \in Nat
  BY StartsBounded DEF IsPuts
<1>2. \A i \in DOMAIN f : GoodPuts(f[i])
  BY TrimmedLine, LinePutsGood
<1> HIDE DEF f
<1>3. GoodPuts(Latest(f))
  BY <1>1, <1>2, LatestGood
<1> QED
  BY <1>3 DEF FilteredPuts, f

LEMMA PutsGood ==
    ASSUME NEW l \in Text, OneLine(l) PROVE GoodPuts(Puts(l))
<1>1. CASE Prefixed(l, "import ")
  <2>1. GoodPuts(<<>>)
    BY DEF GoodPuts
  <2>2. \A n \in DOMAIN Files : Files[n] \in Text
    BY TextAssumption
  <2> QED
    BY <1>1, <2>1, <2>2, FilteredGood DEF Puts, ImportPuts
<1>2. CASE ~Prefixed(l, "import ")
  BY <1>2, LinePutsGood DEF Puts
<1> QED
  BY <1>1, <1>2

\* Whatever a file holds, the names that load_properties puts are legal, and their
\* values are trimmed and not too long.
LEMMA LoadedGood == ASSUME NEW t \in Text PROVE GoodPuts(Loaded(t))
<1> DEFINE f == [i \in Starts(t) |-> Puts(Trim(LineAt(t, i)))]
<1>1. IsPuts(f, Len(t) + 1) /\ Len(t) + 1 \in Nat
  BY StartsBounded DEF IsPuts
<1>2. \A i \in DOMAIN f : GoodPuts(f[i])
  BY TrimmedLine, PutsGood
<1> HIDE DEF f
<1>3. GoodPuts(Latest(f))
  BY <1>1, <1>2, LatestGood
<1> QED
  BY <1>3 DEF Loaded, f

-----------------------------------------------------------------------------
(* A line in the middle of a text                                           *)

LEMMA SameSequence ==
    ASSUME NEW x \in Text, NEW y \in Text, Len(x) = Len(y),
           \A j \in 1..Len(y) : x[j] = y[j]
    PROVE  x = y
BY DEF Text

\* x reads as p, then m, then s.
JoinedAs(x, p, m, s) ==
    /\ x \in Text /\ Len(x) = Len(p) + Len(m) + Len(s)
    /\ \A i \in 1..Len(p) : x[i] = p[i]
    /\ \A i \in 1..Len(m) : x[Len(p) + i] = m[i]
    /\ \A i \in 1..Len(s) : x[Len(p) + Len(m) + i] = s[i]

LEMMA Joined ==
    ASSUME NEW p \in Text, NEW m \in Text, NEW s \in Text
    PROVE  JoinedAs(p \o m \o s, p, m, s)
<1>1. /\ p \o m \in Text /\ Len(p \o m) = Len(p) + Len(m)
      /\ \A i \in 1..Len(p) : (p \o m)[i] = p[i]
      /\ \A i \in 1..Len(m) : (p \o m)[Len(p) + i] = m[i]
  BY DEF Text
<1>2. /\ (p \o m) \o s \in Text /\ Len((p \o m) \o s) = Len(p \o m) + Len(s)
      /\ \A i \in 1..Len(p \o m) : ((p \o m) \o s)[i] = (p \o m)[i]
      /\ \A i \in 1..Len(s) : ((p \o m) \o s)[Len(p \o m) + i] = s[i]
  <2> SUFFICES ASSUME NEW q \in Text
               PROVE  /\ q \o s \in Text /\ Len(q \o s) = Len(q) + Len(s)
                      /\ \A i \in 1..Len(q) : (q \o s)[i] = q[i]
                      /\ \A i \in 1..Len(s) : (q \o s)[Len(q) + i] = s[i]
    BY <1>1
  <2> QED
    BY DEF Text
<1> DEFINE q == p \o m  t == q \o s
<1> HIDE DEF q, t
<1>3. Len(p) \in Nat /\ Len(m) \in Nat /\ Len(s) \in Nat
  BY DEF Text
<1>4. ASSUME NEW i \in 1..Len(p) PROVE t[i] = p[i]
  <2>1. i \in 1..Len(q)
    BY <1>1, <1>3 DEF q
  <2> QED
    BY <1>1, <1>2, <2>1 DEF q, t
<1>5. ASSUME NEW i \in 1..Len(m) PROVE t[Len(p) + i] = m[i]
  <2>1. Len(p) + i \in 1..Len(q)
    BY <1>1, <1>3 DEF q
  <2> QED
    BY <1>1, <1>2, <2>1 DEF q, t
<1>6. /\ t \in Text /\ Len(t) = Len(p) + Len(m) + Len(s)
      /\ \A i \in 1..Len(s) : t[Len(p) + Len(m) + i] = s[i]
  BY <1>1, <1>2 DEF q, t
<1>7. JoinedAs(t, p, m, s)
  BY <1>4, <1>5, <1>6 DEF JoinedAs
<1> QED
  BY <1>7 DEF q, t

LEMMA ShiftedCuts ==
    ASSUME NEW t \in Text, NEW s \in Text, NEW b \in Nat,
           Len(t) >= b + Len(s), \A j \in 1..Len(s) : t[b + j] = s[j],
           NEW i \in 1..Len(s) + 1, NEW e \in i..Len(s) + 1
    PROVE  SubSeq(t, b + i, b + e - 1) = SubSeq(s, i, e - 1)
<1>1. Len(t) \in Nat /\ Len(s) \in Nat
  BY DEF Text
<1>2. /\ b + i \in 1..Len(t) + 1 /\ b + e - 1 \in 0..Len(t)
      /\ e - 1 \in 0..Len(s)
  BY <1>1
<1> DEFINE x == SubSeq(t, b + i, b + e - 1)  y == SubSeq(s, i, e - 1)
<1>3. /\ x \in Text /\ Len(x) = IF b + i <= b + e - 1 THEN b + e - 1 - (b + i) + 1 ELSE 0
      /\ \A j \in 1..Len(x) : x[j] = t[b + i + j - 1]
  BY <1>2, Cut
<1>4. /\ y \in Text /\ Len(y) = IF i <= e - 1 THEN e - 1 - i + 1 ELSE 0
      /\ \A j \in 1..Len(y) : y[j] = s[i + j - 1]
  BY <1>2, Cut
<1> HIDE DEF x, y
<1>5. Len(x) = Len(y) /\ Len(y) = e - i
  BY <1>1, <1>3, <1>4
<1>6. ASSUME NEW j \in 1..Len(y) PROVE x[j] = y[j]
  <2>1. i + j - 1 \in 1..Len(s) /\ b + (i + j - 1) = b + i + j - 1
    BY <1>1, <1>5
  <2> QED
    BY <1>3, <1>4, <1>5, <2>1
<1>7. x = y
  BY <1>3, <1>4, <1>5, <1>6, SameSequence DEF Text
<1> QED
  BY <1>7 DEF x, y

\* A text that its lines have ended, and one that ends the line before it.
Ended(p) == p = <<>> \/ p[Len(p)] = EOL
Ending(s) == s = <<>> \/ s[1] = EOL

LEMMA StartIs ==
    ASSUME NEW t \in Text, NEW j \in 2..Len(t) + 1, t[j - 1] = EOL PROVE j \in Starts(t)
BY DEF Starts, Text

LEMMA StartMeans ==
    ASSUME NEW t \in Text, NEW j \in Starts(t)
    PROVE  /\ j \in 1..Len(t) + 1
           /\ j # 1 => j - 1 \in 1..Len(t) /\ t[j - 1] = EOL
BY DEF Starts, Text

\* t is p, m and s, of which m begins at a and s behind b.
Assembled(t, p, m, s, a, b) ==
    /\ a = Len(p) + 1 /\ b = Len(p) + Len(m) /\ Len(t) = b + Len(s)
    /\ \A i \in 1..Len(p) : t[i] = p[i]
    /\ \A i \in 1..Len(m) : t[Len(p) + i] = m[i]
    /\ \A i \in 1..Len(s) : t[b + i] = s[i]

\* The lines of t: those that p has ended, m, which begins at a, and those that
\* begin behind an end in s, b tokens further.
LinesAssembled(t, p, m, s, a, b) ==
    /\ a \in Starts(t) /\ LineAt(t, a) = m
    /\ \A i \in Starts(p) \ {a} :
          i \in Starts(t) /\ i < a /\ LineAt(t, i) = LineAt(p, i)
    /\ \A i \in Starts(s) \ {1} :
          b + i \in Starts(t) /\ a < b + i /\ LineAt(t, b + i) = LineAt(s, i)
    /\ \A i \in Starts(t) : \/ i = a
                            \/ i \in Starts(p) \ {a}
                            \/ i - b \in Starts(s) \ {1}

LEMMA Assembles ==
    ASSUME NEW p \in Text, NEW m \in Text, NEW s \in Text
    PROVE  /\ p \o m \o s \in Text /\ Len(p) + 1 \in Nat /\ Len(p) + Len(m) \in Nat
           /\ Assembled(p \o m \o s, p, m, s, Len(p) + 1, Len(p) + Len(m))
<1>1. Len(p) + 1 \in Nat /\ Len(p) + Len(m) \in Nat
  BY DEF Text
<1> DEFINE x == p \o m \o s
<1>2. JoinedAs(x, p, m, s)
  BY Joined
<1> HIDE DEF x
<1>3. x \in Text /\ Assembled(x, p, m, s, Len(p) + 1, Len(p) + Len(m))
  BY <1>1, <1>2 DEF JoinedAs, Assembled
<1> QED
  BY <1>1, <1>3 DEF x

LEMMA Pieces ==
    ASSUME NEW p \in Text, NEW m \in Text, NEW s \in Text,
           OneLine(m), Ended(p), Ending(s),
           NEW t \in Text, NEW a \in Nat, NEW b \in Nat, Assembled(t, p, m, s, a, b)
    PROVE  LinesAssembled(t, p, m, s, a, b)
<1> USE DEF Assembled
<1>1. Len(p) \in Nat /\ Len(m) \in Nat /\ Len(s) \in Nat /\ Len(t) \in Nat
  BY DEF Text
<1>2. Len(p) > 0 => p[Len(p)] = EOL
  BY DEF Ended, Text
<1>3. Len(s) > 0 => s[1] = EOL
  BY DEF Ending, Text
<1>4. ASSUME NEW j \in a..b PROVE t[j] # EOL
  <2>1. j - Len(p) \in 1..Len(m) /\ Len(p) + (j - Len(p)) = j
    BY <1>1
  <2>2. PICK d \in 1..Len(m) : d = j - Len(p)
    BY <2>1
  <2>3. t[Len(p) + d] = m[d] /\ Len(p) + d = j
    BY <2>1, <2>2
  <2>4. m[d] # EOL
    BY <2>2 DEF OneLine
  <2> QED
    BY <2>3, <2>4
<1>5. a \in Starts(t)
  BY <1>1, <1>2 DEF Starts
<1>6. LineAt(t, a) = m
  <2>1. PICK c \in Nat : c = b + 1
    OBVIOUS
  <2>2. a \in 1..Len(t) + 1 /\ c \in a..Len(t) + 1
    BY <1>1, <2>1
  <2>3. c = Len(t) + 1 \/ t[c] = EOL
    <3>1. CASE Len(s) = 0
      BY <1>1, <2>1, <3>1
    <3>2. CASE Len(s) # 0
      <4>1. 1 \in 1..Len(s) /\ s[1] = EOL
        BY <1>1, <1>3, <3>2
      <4> QED
        BY <2>1, <4>1
    <3> QED
      BY <3>1, <3>2
  <2>4. \A j \in a..c - 1 : t[j] # EOL
    BY <1>1, <1>4, <2>1
  <2>5. End(t, a) = c
    BY <2>2, <2>3, <2>4, EndEquals
  <2>6. LineAt(t, a) = SubSeq(t, a, c - 1)
    BY <2>5 DEF LineAt
  <2>7. SubSeq(t, Len(p) + 1, Len(p) + (Len(m) + 1) - 1) = SubSeq(m, 1, Len(m) + 1 - 1)
    <3>1. /\ Len(t) >= Len(p) + Len(m)
          /\ 1 \in 1..Len(m) + 1 /\ Len(m) + 1 \in 1..Len(m) + 1
      BY <1>1
    <3> QED
      BY <1>1, <3>1, ShiftedCuts
  <2>8. Len(p) + (Len(m) + 1) - 1 = c - 1 /\ Len(m) + 1 - 1 = Len(m)
    BY <1>1, <2>1
  <2>9. SubSeq(m, 1, Len(m)) = m
    BY DEF Text
  <2> QED
    BY <2>6, <2>7, <2>8, <2>9
<1>7. ASSUME NEW i \in Starts(p) \ {a}
      PROVE  i \in Starts(t) /\ i < a /\ LineAt(t, i) = LineAt(p, i)
  <2>1. i \in 1..Len(p) /\ i \in 1..Len(p) + 1 /\ i \in 1..Len(t) + 1
    BY <1>1, StartMeans
  <2>2. i \in Starts(t)
    <3>1. CASE i = 1
      BY <3>1, <1>1 DEF Starts
    <3>2. CASE i # 1
      <4>1. i - 1 \in 1..Len(p) /\ p[i - 1] = EOL
        BY <3>2, StartMeans
      <4>2. i \in 2..Len(t) + 1
        BY <1>1, <2>1, <3>2
      <4>3. t[i - 1] = EOL
        BY <4>1
      <4> QED
        BY <4>2, <4>3, StartIs
    <3> QED
      BY <3>1, <3>2
  <2>3. /\ End(p, i) \in i..Len(p) + 1
        /\ End(p, i) = Len(p) + 1 \/ p[End(p, i)] = EOL
        /\ \A j \in i..End(p, i) - 1 : p[j] # EOL
    BY <2>1, EndIs
  <2>4. PICK e \in i..Len(p) : /\ End(p, i) = e /\ p[e] = EOL
                               /\ \A j \in i..e - 1 : p[j] # EOL
    <3> SUFFICES ASSUME NEW e \in i..Len(p) + 1, e = Len(p) + 1 \/ p[e] = EOL,
                        \A j \in i..e - 1 : p[j] # EOL
                 PROVE  e \in i..Len(p) /\ p[e] = EOL
      BY <2>3
    <3> QED
      BY <1>1, <1>2, <2>1
  <2>5. End(t, i) = e
    <3>1. e \in i..Len(t) + 1
      BY <1>1, <2>1
    <3>2. ASSUME NEW j \in i..e PROVE j \in 1..Len(p) /\ t[j] = p[j]
      BY <1>1, <2>1
    <3>3. t[e] = EOL /\ \A j \in i..e - 1 : t[j] # EOL
      <4>1. e \in i..e /\ \A j \in i..e - 1 : j \in i..e
        BY <2>1
      <4> QED
        BY <2>4, <3>2, <4>1
    <3> QED
      BY <2>1, <3>1, <3>3, EndEquals
  <2>6. LineAt(t, i) = SubSeq(t, i, e - 1) /\ LineAt(p, i) = SubSeq(p, i, e - 1)
    BY <2>4, <2>5 DEF LineAt
  <2>7. SubSeq(t, i, e - 1) = SubSeq(p, i, e - 1)
    <3>1. /\ Len(t) >= 0 + Len(p) /\ \A j \in 1..Len(p) : t[0 + j] = p[j]
          /\ i \in 1..Len(p) + 1 /\ e \in i..Len(p) + 1
      BY <1>1, <2>1
    <3>2. SubSeq(t, 0 + i, 0 + e - 1) = SubSeq(p, i, e - 1)
      BY <3>1, ShiftedCuts
    <3>3. 0 + i = i /\ 0 + e - 1 = e - 1
      BY <2>1, <3>1
    <3> QED
      BY <3>2, <3>3
  <2> QED
    BY <1>1, <2>1, <2>2, <2>6, <2>7
<1>8. ASSUME NEW i \in Starts(s) \ {1}
      PROVE  b + i \in Starts(t) /\ a < b + i /\ LineAt(t, b + i) = LineAt(s, i)
  <2>1. i \in 1..Len(s) + 1 /\ i - 1 \in 1..Len(s) /\ s[i - 1] = EOL
    BY StartMeans
  <2>2. PICK k \in Nat : k = b + i
    BY <1>1, <2>1
  <2>3. k \in 2..Len(t) + 1 /\ a < k /\ b + (i - 1) = k - 1
    BY <1>1, <2>1, <2>2
  <2>4. k \in Starts(t)
    <3>1. t[k - 1] = EOL
      BY <2>1, <2>3
    <3> QED
      BY <2>3, <3>1, StartIs
  <2>5. PICK e \in i..Len(s) + 1 : /\ End(s, i) = e
                                   /\ e = Len(s) + 1 \/ s[e] = EOL
                                   /\ \A j \in i..e - 1 : s[j] # EOL
    BY <2>1, EndIs
  <2>6. PICK c \in Nat : c = b + e
    BY <1>1, <2>1
  <2>7. End(t, k) = c
    <3>1. k \in 1..Len(t) + 1 /\ c \in k..Len(t) + 1
      BY <1>1, <2>1, <2>2, <2>6
    <3>2. c = Len(t) + 1 \/ t[c] = EOL
      <4>1. CASE e = Len(s) + 1
        BY <1>1, <2>6, <4>1
      <4>2. CASE e # Len(s) + 1
        <5>1. e \in 1..Len(s)
          <6>1. e \in Nat /\ 1 <= e /\ e <= Len(s) + 1
            BY <1>1, <2>1
          <6> QED
            BY <1>1, <4>2, <6>1
        <5>2. s[e] = EOL
          BY <2>5, <4>2
        <5> QED
          BY <2>6, <5>1, <5>2
      <4> QED
        BY <4>1, <4>2
    <3>3. ASSUME NEW j \in k..c - 1 PROVE t[j] # EOL
      <4>1. PICK d \in Int : d = j - b
        <5>1. j \in Int /\ b \in Int
          OBVIOUS
        <5>2. j - b \in Int
          BY <5>1
        <5> QED
          BY <5>2, Zenon
      <4>2. d \in i..e - 1 /\ d \in 1..Len(s) /\ b + d = j
        <5>1. /\ j \in Int /\ k <= j /\ j <= c - 1
              /\ i \in Int /\ e \in Int /\ k \in Int /\ c \in Int
          BY <1>1, <2>1, <2>2, <2>6
        <5>2. k = b + i /\ c = b + e /\ 1 <= i /\ e <= Len(s) + 1
          BY <1>1, <2>1, <2>2, <2>6
        <5>3. i <= d /\ d <= e - 1 /\ b + d = j
          BY <4>1, <5>1, <5>2
        <5>4. d \in i..e - 1
          BY <4>1, <5>1, <5>3
        <5>5. d \in 1..Len(s)
          BY <1>1, <4>1, <5>1, <5>2, <5>3
        <5> QED
          BY <5>3, <5>4, <5>5
      <4>3. t[b + d] = s[d] /\ s[d] # EOL
        BY <2>5, <4>2
      <4> QED
        BY <4>2, <4>3
    <3> QED
      BY <3>1, <3>2, <3>3, EndEquals
  <2>8. LineAt(t, k) = SubSeq(t, k, c - 1) /\ LineAt(s, i) = SubSeq(s, i, e - 1)
    BY <2>5, <2>7 DEF LineAt
  <2>9. SubSeq(t, b + i, b + e - 1) = SubSeq(s, i, e - 1)
    <3>1. Len(t) >= b + Len(s)
      BY <1>1
    <3>2. \A j \in 1..Len(s) : t[b + j] = s[j]
      OBVIOUS
    <3>3. i \in 1..Len(s) + 1
      BY <2>1
    <3> HIDE DEF Assembled
    <3> QED
      BY <3>1, <3>2, <3>3, ShiftedCuts
  <2> QED
    <3>1. LineAt(t, k) = LineAt(s, i)
      <4>1. b + e - 1 = c - 1
        BY <2>6
      <4> QED
        BY <2>2, <2>8, <2>9, <4>1
    <3> QED
      BY <2>2, <2>3, <2>4, <3>1
<1>9. ASSUME NEW i \in Starts(t), i # a, i \notin Starts(p) \ {a}
      PROVE  i - b \in Starts(s) \ {1}
  <2>1. i \in 1..Len(t) + 1 /\ (i # 1 => i - 1 \in 1..Len(t) /\ t[i - 1] = EOL)
    BY StartMeans
  <2>2. i > a
    <3> SUFFICES ASSUME i < a PROVE i \in Starts(p)
      BY <1>1, <1>9, <2>1
    <3>1. CASE i = 1
      BY <3>1, <1>1 DEF Starts
    <3>2. CASE i # 1
      <4>1. i - 1 \in 1..Len(p) /\ i \in 2..Len(p) + 1
        BY <1>1, <2>1, <3>2
      <4>2. p[i - 1] = EOL
        BY <2>1, <3>2, <4>1
      <4> QED
        BY <4>1, <4>2, StartIs
    <3> QED
      BY <3>1, <3>2
  <2>3. i - 1 > b
    <3> SUFFICES ASSUME i - 1 <= b PROVE FALSE
      BY <1>1, <2>1
    <3>1. i - 1 \in a..b
      BY <1>1, <2>1, <2>2
    <3> QED
      <4>1. i # 1
        BY <1>1, <2>1, <2>2
      <4>2. t[i - 1] # EOL
        BY <1>4, <3>1
      <4> QED
        BY <2>1, <4>1, <4>2
  <2>4. PICK j \in Nat : j = i - b
    <3>1. i - b \in Nat
      BY <2>1, <2>3
    <3> QED
      BY <3>1
  <2>5. j \in 2..Len(s) + 1 /\ j - 1 \in 1..Len(s) /\ b + (j - 1) = i - 1
    BY <1>1, <2>1, <2>3, <2>4
  <2>6. s[j - 1] = EOL
    <3>1. PICK d \in 1..Len(s) : d = j - 1
      BY <2>5
    <3>2. b + d = i - 1
      BY <2>5, <3>1
    <3>3. t[b + d] = s[d]
      BY <1>1, <3>1
    <3>4. i # 1
      BY <1>1, <2>1, <2>2
    <3>5. t[i - 1] = EOL
      BY <2>1, <3>4
    <3>6. s[d] = EOL
      BY <3>2, <3>3, <3>5
    <3> QED
      BY <3>1, <3>6
  <2>7. j \in Starts(s)
    BY <2>5, <2>6, StartIs
  <2> QED
    BY <2>4, <2>5, <2>7
<1> QED
  BY <1>5, <1>6, <1>7, <1>8, <1>9 DEF LinesAssembled

-----------------------------------------------------------------------------
(* What a file leaves behind whose lines are those of two pieces and one    *)

LEMMA LatestDomain ==
    ASSUME NEW f, NEW k
    PROVE  k \in DOMAIN Latest(f) <=> \E i \in DOMAIN f : k \in DOMAIN f[i]
BY DEF Latest

\* f has the puts of e, then the one at a, and then those of l, b further.
Ordered(f, e, l, a, b) ==
    /\ a \in DOMAIN f
    /\ \A i \in DOMAIN e : i \in DOMAIN f /\ i < a /\ f[i] = e[i]
    /\ \A i \in DOMAIN l : b + i \in DOMAIN f /\ a < b + i /\ f[b + i] = l[i]
    /\ \A i \in DOMAIN f : \/ i = a
                           \/ i \in DOMAIN e
                           \/ i - b \in DOMAIN l

LEMMA LatestOfPieces ==
    ASSUME NEW f, NEW e, NEW l, NEW a \in Nat, NEW b \in Nat, NEW c \in Nat,
           IsPuts(f, c), IsPuts(e, c), IsPuts(l, c), Ordered(f, e, l, a, b)
    PROVE  Latest(f) = Then(Then(Latest(e), f[a]), Latest(l))
<1>1. /\ \A i \in DOMAIN f : i \in Nat
      /\ \A i \in DOMAIN e : i \in Nat
      /\ \A i \in DOMAIN l : i \in Nat
  BY DEF IsPuts
<1>2. ASSUME NEW k \in DOMAIN Latest(l)
      PROVE  k \in DOMAIN Latest(f) /\ Latest(f)[k] = Latest(l)[k]
  <2>1. PICK i \in DOMAIN l : /\ k \in DOMAIN l[i] /\ Latest(l)[k] = l[i][k]
                              /\ \A j \in Putting(l, k) : j <= i
    BY LatestComesFrom
  <2>2. b + i \in DOMAIN f /\ a < b + i /\ f[b + i] = l[i]
    BY DEF Ordered
  <2>3. ASSUME NEW j \in Putting(f, k) PROVE j <= b + i
    <3>1. j \in DOMAIN f /\ j \in Nat /\ i \in Nat /\ k \in DOMAIN f[j]
      BY <1>1 DEF Putting
    <3>2. CASE j = a
      BY <2>2, <3>1, <3>2
    <3>3. CASE j \in DOMAIN e
      <4>1. j < a
        BY <3>3 DEF Ordered
      <4> QED
        BY <2>2, <3>1, <4>1
    <3>4. CASE j - b \in DOMAIN l
      <4>1. PICK d \in DOMAIN l : d = j - b
        BY <3>4
      <4>2. d \in Nat /\ b + d = j
        BY <1>1, <3>1, <4>1
      <4>3. f[j] = l[d]
        BY <4>2 DEF Ordered
      <4>4. d <= i
        BY <2>1, <3>1, <4>3 DEF Putting
      <4> QED
        BY <3>1, <4>2, <4>4
    <3> QED
      BY <3>1, <3>2, <3>3, <3>4 DEF Ordered
  <2> QED
    BY <2>1, <2>2, <2>3, LatestIs
<1>3. ASSUME NEW k \in DOMAIN f[a], k \notin DOMAIN Latest(l)
      PROVE  k \in DOMAIN Latest(f) /\ Latest(f)[k] = f[a][k]
  <2>1. ASSUME NEW j \in Putting(f, k) PROVE j <= a
    <3>1. j \in DOMAIN f /\ j \in Nat /\ k \in DOMAIN f[j]
      BY <1>1 DEF Putting
    <3>2. CASE j \in DOMAIN e
      BY <1>1, <3>1, <3>2 DEF Ordered
    <3>3. CASE j - b \in DOMAIN l
      <4>1. PICK d \in DOMAIN l : d = j - b
        BY <3>3
      <4>2. d \in Nat /\ b + d = j
        BY <1>1, <3>1, <4>1
      <4>3. f[j] = l[d]
        BY <4>2 DEF Ordered
      <4> QED
        BY <1>3, <3>1, <4>3, LatestDomain
    <3> QED
      BY <3>1, <3>2, <3>3 DEF Ordered
  <2>2. a \in DOMAIN f
    BY DEF Ordered
  <2> QED
    BY <2>1, <2>2, LatestIs
<1>4. ASSUME NEW k \in DOMAIN Latest(e), k \notin DOMAIN f[a], k \notin DOMAIN Latest(l)
      PROVE  k \in DOMAIN Latest(f) /\ Latest(f)[k] = Latest(e)[k]
  <2>1. PICK i \in DOMAIN e : /\ k \in DOMAIN e[i] /\ Latest(e)[k] = e[i][k]
                              /\ \A j \in Putting(e, k) : j <= i
    BY LatestComesFrom
  <2>2. i \in DOMAIN f /\ i < a /\ f[i] = e[i]
    BY DEF Ordered
  <2>3. ASSUME NEW j \in Putting(f, k) PROVE j <= i
    <3>1. j \in DOMAIN f /\ j \in Nat /\ k \in DOMAIN f[j] /\ j # a
      BY <1>1, <1>4 DEF Putting
    <3>2. CASE j \in DOMAIN e
      <4>1. f[j] = e[j]
        BY <3>2 DEF Ordered
      <4> QED
        BY <2>1, <3>1, <3>2, <4>1 DEF Putting
    <3>3. CASE j - b \in DOMAIN l
      <4>1. PICK d \in DOMAIN l : d = j - b
        BY <3>3
      <4>2. d \in Nat /\ b + d = j
        BY <1>1, <3>1, <4>1
      <4>3. f[j] = l[d]
        BY <4>2 DEF Ordered
      <4> QED
        BY <1>4, <3>1, <4>3, LatestDomain
    <3> QED
      BY <3>1, <3>2, <3>3 DEF Ordered
  <2> QED
    BY <2>1, <2>2, <2>3, LatestIs
<1>5. ASSUME NEW k \in DOMAIN Latest(f)
      PROVE  k \in DOMAIN Latest(e) \cup DOMAIN f[a] \cup DOMAIN Latest(l)
  <2>1. PICK j \in DOMAIN f : k \in DOMAIN f[j]
    BY LatestDomain
  <2>2. CASE j \in DOMAIN e
    BY <2>1, <2>2, LatestDomain DEF Ordered
  <2>3. CASE j - b \in DOMAIN l
    <3>1. PICK d \in DOMAIN l : d = j - b
      BY <2>3
    <3>2. d \in Nat /\ b + d = j
      BY <1>1, <3>1
    <3>3. f[j] = l[d]
      BY <3>2 DEF Ordered
    <3> QED
      BY <2>1, <3>3, LatestDomain
  <2> QED
    BY <2>1, <2>2, <2>3 DEF Ordered
<1> DEFINE g == Then(Then(Latest(e), f[a]), Latest(l))
<1>6. DOMAIN g = DOMAIN Latest(e) \cup DOMAIN f[a] \cup DOMAIN Latest(l)
  BY DEF Then
<1>7. DOMAIN g = DOMAIN Latest(f)
  BY <1>2, <1>3, <1>4, <1>5, <1>6
<1>8. ASSUME NEW k \in DOMAIN g PROVE g[k] = Latest(f)[k]
  BY <1>2, <1>3, <1>4, <1>6 DEF Then
<1>9. g = [k \in DOMAIN g |-> g[k]] /\ Latest(f) = [k \in DOMAIN Latest(f) |-> Latest(f)[k]]
  BY DEF Then, Latest
<1> HIDE DEF g
<1>10. Latest(f) = g
  BY <1>7, <1>8, <1>9
<1> QED
  BY <1>10 DEF g

PutsAt(t) == [i \in Starts(t) |-> Puts(Trim(LineAt(t, i)))]

\* What the lines of p leave behind that p has ended, and what those of s do that
\* begin behind an end in it.
Earlier(p) == Latest([i \in Starts(p) \ {Len(p) + 1} |-> PutsAt(p)[i]])
Later(s) == Latest([i \in Starts(s) \ {1} |-> PutsAt(s)[i]])

\* The puts of load_properties come from each line on its own, in the order of the
\* lines: what is before and behind a line counts as if the line were another.
LEMMA LoadedPieces ==
    ASSUME NEW p \in Text, NEW m \in Text, NEW s \in Text,
           OneLine(m), Ended(p), Ending(s)
    PROVE  Loaded(p \o m \o s) = Then(Then(Earlier(p), Puts(Trim(m))), Later(s))
<1> DEFINE t == p \o m \o s  a == Len(p) + 1  b == Len(p) + Len(m)
<1>1. t \in Text /\ a \in Nat /\ b \in Nat /\ Assembled(t, p, m, s, a, b)
  BY Assembles
<1>2. Len(t) = b + Len(s) /\ Len(p) \in Nat /\ Len(s) \in Nat /\ Len(t) \in Nat
  BY <1>1 DEF Assembled, Text
<1> DEFINE e == [i \in Starts(p) \ {a} |-> PutsAt(p)[i]]
           l == [i \in Starts(s) \ {1} |-> PutsAt(s)[i]]
           c == Len(t) + Len(p) + Len(s) + 1
<1>3. Loaded(t) = Latest(PutsAt(t)) /\ Earlier(p) = Latest(e) /\ Later(s) = Latest(l)
  BY DEF Loaded, PutsAt, Earlier, Later
<1> HIDE DEF t, a, b
<1>4. LinesAssembled(t, p, m, s, a, b)
  BY <1>1, Pieces
<1>5. PutsAt(t)[a] = Puts(Trim(m))
  BY <1>4 DEF LinesAssembled, PutsAt
<1>6. Ordered(PutsAt(t), e, l, a, b)
  <2>1. a \in DOMAIN PutsAt(t) /\ DOMAIN e = Starts(p) \ {a} /\ DOMAIN l = Starts(s) \ {1}
    BY <1>4 DEF LinesAssembled, PutsAt
  <2>2. ASSUME NEW i \in DOMAIN e
        PROVE  i \in DOMAIN PutsAt(t) /\ i < a /\ PutsAt(t)[i] = e[i]
    BY <1>4 DEF LinesAssembled, PutsAt
  <2>3. ASSUME NEW i \in DOMAIN l
        PROVE  b + i \in DOMAIN PutsAt(t) /\ a < b + i /\ PutsAt(t)[b + i] = l[i]
    BY <1>4 DEF LinesAssembled, PutsAt
  <2>4. ASSUME NEW i \in DOMAIN PutsAt(t)
        PROVE  i = a \/ i \in DOMAIN e \/ i - b \in DOMAIN l
    BY <1>4, <2>1 DEF LinesAssembled, PutsAt
  <2> QED
    BY <2>1, <2>2, <2>3, <2>4 DEF Ordered
<1>7. c \in Nat /\ IsPuts(PutsAt(t), c) /\ IsPuts(e, c) /\ IsPuts(l, c)
  <2>1. /\ DOMAIN PutsAt(t) \subseteq 0..Len(t) + 1
        /\ DOMAIN e \subseteq 0..Len(p) + 1
        /\ DOMAIN l \subseteq 0..Len(s) + 1
    BY <1>1, StartsBounded DEF PutsAt
  <2> HIDE DEF e, l
  <2> QED
    BY <1>2, <2>1 DEF IsPuts
<1> HIDE DEF e, l, c
<1>8. Latest(PutsAt(t)) = Then(Then(Latest(e), PutsAt(t)[a]), Latest(l))
  <2>1. PICK f : f = PutsAt(t)
    OBVIOUS
  <2>2. a \in Nat /\ b \in Nat /\ c \in Nat
    BY <1>1, <1>7
  <2>3. IsPuts(f, c) /\ IsPuts(e, c) /\ IsPuts(l, c) /\ Ordered(f, e, l, a, b)
    BY <1>6, <1>7, <2>1
  <2>4. Latest(f) = Then(Then(Latest(e), f[a]), Latest(l))
    BY <2>2, <2>3, LatestOfPieces
  <2> QED
    BY <2>1, <2>4
<1> QED
  BY <1>3, <1>5, <1>8 DEF t

-----------------------------------------------------------------------------
(* The line that set_property writes                                        *)

One(k, v) == [x \in {k} |-> v]

LEMMA NameTokens ==
    ASSUME NEW c \in NameChars \cup {"persist.", "ro."}
    PROVE  c \in Tokens /\ c # EOL /\ c # Blank /\ c # Equals
<1>1. /\ NameChars \cap Special = {} /\ EOL \in Special /\ Blank \in Special
      /\ Equals \in Special /\ "persist." \in Special /\ "ro." \in Special
  BY TextAssumption DEF Special
<1>2. CASE c \in NameChars
  BY <1>1, <1>2 DEF Tokens
<1>3. CASE c \in {"persist.", "ro."}
  BY <1>1, <1>3 DEF Tokens, EOL, Blank, Equals
<1> QED
  BY <1>2, <1>3

LEMMA LineTokens ==
    /\ EOL \in Tokens /\ Blank \in Tokens /\ Equals \in Tokens
    /\ EOL # Blank /\ EOL # Equals /\ Blank # Equals
BY DEF Tokens, Special, EOL, Blank, Equals

\* What a set is on its way to write.
Writes(k, v) == /\ k \in Text /\ is_legal_property_name(k) /\ IsPersistent(k)
                /\ v \in Text /\ Word(v) /\ Len(v) < ValueMax

LEMMA LegalNames ==
    ASSUME NEW k \in Text, is_legal_property_name(k)
    PROVE  /\ k # <<>> /\ Len(k) \in Nat /\ 1 \in 1..Len(k)
           /\ \A i \in 1..Len(k) : k[i] # EOL /\ k[i] # Blank /\ k[i] # Equals
<1>1. Len(k) \in 1..KeyMax - 1 /\ KeyMax \in Nat
  BY TextAssumption DEF is_legal_property_name
<1>2. k # <<>> /\ Len(k) \in Nat /\ 1 \in 1..Len(k)
  BY <1>1 DEF Text
<1> QED
  BY <1>2, NameTokens DEF is_legal_property_name

\* What stands behind the first b tokens.
LEMMA PieceIs ==
    ASSUME NEW t \in Text, NEW s \in Text, NEW b \in Nat,
           Len(t) >= b + Len(s), \A j \in 1..Len(s) : t[b + j] = s[j]
    PROVE  SubSeq(t, b + 1, b + Len(s)) = s
<1>1. Len(t) \in Nat /\ Len(s) \in Nat
  BY DEF Text
<1>2. b + 1 \in 1..Len(t) + 1 /\ b + Len(s) \in 0..Len(t)
  BY <1>1
<1> DEFINE c == SubSeq(t, b + 1, b + Len(s))
<1>3. /\ c \in Text /\ Len(c) = IF b + 1 <= b + Len(s) THEN b + Len(s) - (b + 1) + 1 ELSE 0
      /\ \A j \in 1..Len(c) : c[j] = t[b + 1 + j - 1]
  BY <1>2, Cut
<1> HIDE DEF c
<1>4. Len(c) = Len(s)
  BY <1>1, <1>3
<1>5. ASSUME NEW j \in 1..Len(s) PROVE c[j] = s[j]
  <2>1. b + 1 + j - 1 = b + j
    OBVIOUS
  <2> QED
    BY <1>3, <1>4, <2>1
<1> QED
  BY <1>3, <1>4, <1>5, SameSequence DEF c

LEMMA OwnLine ==
    ASSUME NEW k, NEW v, Writes(k, v)
    PROVE  LET l == k \o <<Equals>> \o v
           IN  l \in Text /\ OneLine(l) /\ Trim(l) = l /\ Puts(l) = One(k, v)
<1> DEFINE l == k \o <<Equals>> \o v
<1>1. /\ k \in Text /\ v \in Text /\ <<Equals>> \in Text
      /\ Word(v) /\ Len(v) < ValueMax /\ is_legal_property_name(k) /\ IsPersistent(k)
  BY LineTokens DEF Writes, Text
<1>2. /\ k # <<>> /\ Len(k) \in Nat /\ 1 \in 1..Len(k) /\ Len(v) \in Nat
      /\ \A i \in 1..Len(k) : k[i] # EOL /\ k[i] # Blank /\ k[i] # Equals
  BY <1>1, LegalNames DEF Text
<1>3. PICK n \in Nat : n = Len(k) + 1
  BY <1>2
<1>4. /\ l \in Text /\ Len(l) = n + Len(v)
      /\ \A i \in 1..Len(k) : l[i] = k[i]
      /\ l[n] = Equals
      /\ \A i \in 1..Len(v) : l[n + i] = v[i]
  <2>1. PICK q \in Text : q = <<Equals>>
    BY <1>1
  <2>2. Len(q) = 1 /\ q[1] = Equals
    BY <2>1
  <2>3. JoinedAs(k \o q \o v, k, q, v)
    <3>1. k \in Text /\ v \in Text /\ q \in Text
      BY <1>1
    <3> QED
      BY <3>1, Joined
  <2>4. l = k \o q \o v
    BY <2>1
  <2> HIDE DEF l
  <2>5. /\ l \in Text /\ Len(l) = Len(k) + Len(q) + Len(v)
        /\ \A i \in 1..Len(k) : l[i] = k[i]
        /\ \A i \in 1..Len(q) : l[Len(k) + i] = q[i]
        /\ \A i \in 1..Len(v) : l[Len(k) + Len(q) + i] = v[i]
    BY <2>3, <2>4 DEF JoinedAs
  <2>6. l[Len(k) + 1] = Equals
    BY <2>2, <2>5
  <2> QED
    BY <1>2, <1>3, <2>2, <2>5, <2>6
<1> HIDE DEF l
<1>5. ASSUME NEW i \in 1..Len(l)
      PROVE  i \in 1..Len(k) \/ i = n \/ i - n \in 1..Len(v)
  BY <1>2, <1>3, <1>4
<1>6. \A i \in 1..Len(v) : v[i] # EOL
  BY <1>1 DEF Word
<1>7. OneLine(l)
  <2> SUFFICES ASSUME NEW i \in 1..Len(l) PROVE l[i] # EOL
    BY DEF OneLine
  <2>1. CASE i \in 1..Len(k)
    BY <1>2, <1>4, <2>1
  <2>2. CASE i = n
    BY <1>4, <2>2, LineTokens
  <2>3. CASE i - n \in 1..Len(v)
    <3>1. PICK d \in 1..Len(v) : d = i - n
      BY <2>3
    <3>2. n + d = i
      BY <1>2, <1>3, <1>4, <3>1
    <3> QED
      BY <1>4, <1>6, <3>2
  <2> QED
    BY <1>5, <2>1, <2>2, <2>3
<1>8. l # <<>> /\ Len(l) \in Nat /\ l[1] = k[1] /\ n \in 1..Len(l)
  <2>1. Len(l) \in Nat /\ Len(l) > 0 /\ n \in 1..Len(l)
    BY <1>2, <1>3, <1>4
  <2> QED
    BY <1>2, <1>4, <2>1
<1>9. Trim(l) = l
  <2>1. l[1] # Blank
    BY <1>2, <1>8
  <2>2. l[Len(l)] # Blank
    <3>1. CASE Len(v) = 0
      BY <1>2, <1>3, <1>4, <3>1, LineTokens
    <3>2. CASE Len(v) # 0
      <4>1. Len(v) \in 1..Len(v) /\ v # <<>>
        BY <1>2, <3>2
      <4>2. l[n + Len(v)] = v[Len(v)] /\ v[Len(v)] # Blank
        BY <1>1, <1>4, <4>1 DEF Word
      <4> QED
        BY <1>4, <4>2
    <3> QED
      BY <3>1, <3>2
  <2>3. Word(l)
    BY <1>7, <2>1, <2>2 DEF Word, OneLine
  <2> QED
    BY <1>4, <2>3, TrimSame
<1>10. Contains(l, Equals) /\ First(l, Equals) = n
  <2>1. \A j \in 1..n - 1 : l[j] # l[n]
    BY <1>2, <1>3, <1>4
  <2>2. First(l, l[n]) = n
    BY <1>4, <1>8, <2>1, FirstEquals
  <2> QED
    BY <1>4, <1>8, <2>2 DEF Contains
<1>11. Trim(Before(l, Equals)) = k
  <2>1. Before(l, Equals) = SubSeq(l, 1, n - 1)
    BY <1>10 DEF Before
  <2>2. n - 1 = Len(k)
    BY <1>2, <1>3
  <2>3. PICK z \in Nat : z = 0
    OBVIOUS
  <2>4. SubSeq(l, 1, n - 1) = k
    <3>1. k \in Text /\ l \in Text /\ Len(l) >= z + Len(k)
      BY <1>1, <1>2, <1>3, <1>4, <2>3
    <3>2. \A j \in 1..Len(k) : l[z + j] = k[j]
      BY <1>2, <1>4, <2>3
    <3>3. SubSeq(l, z + 1, z + Len(k)) = k
      BY <3>1, <3>2, PieceIs
    <3>4. z + 1 = 1 /\ z + Len(k) = n - 1
      BY <1>2, <2>2, <2>3
    <3> QED
      BY <3>3, <3>4
  <2>5. Word(k)
    BY <1>2 DEF Word
  <2> QED
    BY <1>1, <2>1, <2>4, <2>5, TrimSame
<1>12. Trim(After(l, Equals)) = v
  <2>1. After(l, Equals) = SubSeq(l, n + 1, Len(l))
    BY <1>10 DEF After
  <2>2. SubSeq(l, n + 1, Len(l)) = v
    <3>1. /\ v \in Text /\ l \in Text /\ Len(l) >= n + Len(v)
          /\ \A j \in 1..Len(v) : l[n + j] = v[j]
      BY <1>1, <1>2, <1>4
    <3>2. SubSeq(l, n + 1, n + Len(v)) = v
      BY <3>1, PieceIs
    <3> QED
      BY <1>4, <3>2
  <2> QED
    BY <1>1, <2>1, <2>2, TrimSame
<1>13. ~Prefixed(l, "#") /\ ~Prefixed(l, "import ")
  <2>1. l[1] = "persist."
    BY <1>1, <1>8 DEF IsPersistent, Prefixed
  <2> QED
    BY <2>1 DEF Prefixed
<1>14. Puts(l) = One(k, v)
  BY <1>1, <1>10, <1>11, <1>12, <1>13 DEF Puts, LinePuts, Passes, One
<1> QED
  BY <1>4, <1>7, <1>9, <1>14 DEF l

LEMMA NoLine == DOMAIN Puts(Trim(<<>>)) = {} /\ OneLine(<<>>) /\ <<>> \in Text
<1>1. Trim(<<>>) = <<>>
  BY DEF Trim
<1>2. ~Prefixed(<<>>, "import ") /\ ~Contains(<<>>, Equals)
  BY DEF Prefixed, Contains
<1>3. DOMAIN Puts(Trim(<<>>)) = {}
  BY <1>1, <1>2 DEF Puts, LinePuts
<1>4. OneLine(<<>>) /\ <<>> \in Text
  BY DEF OneLine, Text
<1> QED
  BY <1>3, <1>4

-----------------------------------------------------------------------------
(* What op_prop_file leaves in the file                                     *)

\* f has what g has.
Agree(f, g) == DOMAIN f = DOMAIN g /\ \A k \in DOMAIN g : f[k] = g[k]

LEMMA Concatenated == ASSUME NEW x \in Text, NEW y \in Text PROVE x \o y \in Text
BY DEF Text

LEMMA NothingEnded == DOMAIN Later(<<>>) = {}
<1>1. Starts(<<>>) \ {1} = {}
  BY DEF Starts
<1> QED
  BY <1>1 DEF Later, Latest

LEMMA NothingBehind ==
    ASSUME NEW s \in Text, s = <<EOL>> PROVE DOMAIN Later(s) = {}
<1>1. Len(s) = 1
  OBVIOUS
<1>2. ASSUME NEW i \in Starts(s) \ {1} PROVE DOMAIN PutsAt(s)[i] = {}
  <2>1. i \in 1..Len(s) + 1 /\ i = 2
    <3>1. i \in 1..Len(s) + 1 /\ i # 1
      BY StartsBounded
    <3> QED
      BY <1>1, <3>1
  <2>2. End(s, i) \in i..Len(s) + 1
    BY <2>1, EndIs
  <2>3. PICK e : e = End(s, i) /\ e = 2
    BY <1>1, <2>1, <2>2
  <2>4. LineAt(s, i) = SubSeq(s, 2, e - 1) /\ e - 1 = 1
    BY <2>1, <2>3 DEF LineAt
  <2>5. SubSeq(s, 2, 1) = <<>>
    BY DEF Text
  <2> QED
    BY <2>4, <2>5, NoLine DEF PutsAt
<1> DEFINE f == [i \in Starts(s) \ {1} |-> PutsAt(s)[i]]
<1>3. ASSUME NEW k PROVE k \notin DOMAIN Latest(f)
  <2>1. \A i \in DOMAIN f : k \notin DOMAIN f[i]
    BY <1>2
  <2> HIDE DEF f
  <2> QED
    BY <2>1, LatestDomain
<1>4. Later(s) = Latest(f)
  BY DEF Later
<1> HIDE DEF f
<1> QED
  BY <1>3, <1>4

\* The parentheses of x, y and z joined may move.
Associate(x, y, z) == (x \o y) \o z = x \o (y \o z)

\* k, q and v are joined before x goes in front of them, or behind it one by one.
JoinOrder(x, k, q, v) == x \o k \o q \o v = x \o (k \o q \o v)

LEMMA TextsAssociate ==
    ASSUME NEW x \in Seq(Tokens), NEW y \in Seq(Tokens), NEW z \in Seq(Tokens)
    PROVE  Associate(x, y, z)
<1> DEFINE left  == (x \o y) \o z
           right == x \o (y \o z)
<1>1. /\ x \o y \in Seq(Tokens) /\ Len(x \o y) = Len(x) + Len(y)
      /\ y \o z \in Seq(Tokens) /\ Len(y \o z) = Len(y) + Len(z)
  OBVIOUS
<1>2. left \in Seq(Tokens) /\ Len(left) = Len(x) + Len(y) + Len(z)
  BY <1>1
<1>3. right \in Seq(Tokens) /\ Len(right) = Len(x) + Len(y) + Len(z)
  BY <1>1
<1>4. ASSUME NEW i \in 1..Len(left) PROVE left[i] = right[i]
  OBVIOUS
<1> HIDE DEF left, right
<1>5. left = right
  BY <1>2, <1>3, <1>4
<1> QED
  BY <1>5, Zenon DEF left, right, Associate

LEMMA FourTexts ==
    ASSUME NEW x \in Seq(Tokens), NEW k \in Seq(Tokens), NEW q \in Seq(Tokens),
           NEW v \in Seq(Tokens)
    PROVE  JoinOrder(x, k, q, v)
<1>1. PICK w \in Seq(Tokens) : w = k \o q
  <2>1. k \o q \in Seq(Tokens)
    OBVIOUS
  <2> QED
    BY <2>1, Zenon
<1>2. Associate(x, k, q) /\ Associate(x, w, v)
  BY TextsAssociate, Zenon
<1>3. ((x \o k) \o q) \o v = (x \o w) \o v
  BY <1>1, <1>2, Zenon DEF Associate
<1>4. x \o (w \o v) = x \o ((k \o q) \o v)
  BY <1>1, Zenon
<1>5. (x \o w) \o v = x \o (w \o v)
  BY <1>2, Zenon DEF Associate
<1> QED
  BY <1>3, <1>4, <1>5, Zenon DEF JoinOrder

\* A line that is added behind the last one that has ended counts as the last put.
LEMMA AppendedLine ==
    ASSUME NEW t \in Text, NEW k, NEW v, Writes(k, v), Ended(t)
    PROVE  /\ Appended(t, k, v) \in Text
           /\ Agree(Loaded(Appended(t, k, v)), Then(Loaded(t), One(k, v)))
<1>1. k \in Text /\ v \in Text /\ <<Equals>> \in Text /\ <<EOL>> \in Text /\ <<>> \in Text
  BY LineTokens DEF Writes, Text
<1>2. PICK l \in Text : /\ l = k \o <<Equals>> \o v
                        /\ OneLine(l) /\ Trim(l) = l /\ Puts(l) = One(k, v)
  BY OwnLine
<1>3. PICK q \in Text : q = <<Equals>>
  BY <1>1
<1>4. PICK s \in Text : s = <<EOL>>
  BY <1>1
<1>5. Appended(t, k, v) = t \o l \o s
  <2>1. Appended(t, k, v) = t \o k \o q \o v \o s
    BY <1>3, <1>4 DEF Appended
  <2>2. t \o k \o q \o v = t \o (k \o q \o v)
    <3>1. t \in Seq(Tokens) /\ k \in Seq(Tokens) /\ q \in Seq(Tokens) /\ v \in Seq(Tokens)
      BY <1>1 DEF Text
    <3>2. JoinOrder(t, k, q, v)
      BY <3>1, FourTexts, Zenon
    <3> QED
      BY <3>2, Zenon DEF JoinOrder
  <2> QED
    BY <1>2, <1>3, <2>1, <2>2
<1>6. t \o l \o s \in Text
  BY Joined DEF JoinedAs
<1>7. Loaded(t \o l \o s) = Then(Then(Earlier(t), One(k, v)), Later(s))
  <2>1. Ending(s)
    BY <1>4 DEF Ending
  <2>2. OneLine(l)
    BY <1>2
  <2>3. Loaded(t \o l \o s) = Then(Then(Earlier(t), Puts(Trim(l))), Later(s))
    BY <2>1, <2>2, LoadedPieces
  <2> QED
    BY <1>2, <2>3
<1>8. Loaded(t) = Then(Then(Earlier(t), Puts(Trim(<<>>))), Later(<<>>))
  <2>1. PICK n \in Text : n = <<>>
    BY <1>1
  <2>2. OneLine(n) /\ Ending(n)
    BY <2>1, NoLine DEF Ending
  <2>3. Loaded(t \o n \o n) = Then(Then(Earlier(t), Puts(Trim(n))), Later(n))
    BY <2>2, LoadedPieces
  <2>4. t \o n \o n = t
    BY <2>1 DEF Text
  <2> QED
    BY <2>1, <2>3, <2>4
<1>9. Agree(Then(Then(Earlier(t), One(k, v)), Later(s)),
            Then(Then(Then(Earlier(t), Puts(Trim(<<>>))), Later(<<>>)), One(k, v)))
  BY <1>4, NoLine, NothingEnded, NothingBehind DEF Agree, Then, One
<1> QED
  BY <1>5, <1>6, <1>7, <1>8, <1>9

\* A text is p, the n tokens of the line that begins at a, and s.
Around(t, a, p, s, n) ==
    /\ p = SubSeq(t, 1, a - 1) /\ Ended(p) /\ Ending(s)
    /\ t = p \o LineAt(t, a) \o s
    /\ a \in Nat /\ a >= 1 /\ Len(p) = a - 1
    /\ n = Len(LineAt(t, a)) /\ s = SubSeq(t, a + n, Len(t))
    /\ a + n <= Len(t) + 1
    /\ \A j \in 1..n : LineAt(t, a)[j] = t[a + j - 1]

LEMMA SidesOf ==
    ASSUME NEW t \in Text, NEW a \in Starts(t)
    PROVE  \E p \in Text, s \in Text, n \in Nat : Around(t, a, p, s, n)
<1>1. PICK l \in Nat : l = Len(t)
  BY DEF Text
<1>2. a \in 1..l + 1 /\ (a # 1 => a - 1 \in 1..l /\ t[a - 1] = EOL)
  BY <1>1, StartMeans
<1>3. PICK e \in a..l + 1 : e = End(t, a) /\ (e = l + 1 \/ t[e] = EOL)
  BY <1>1, <1>2, EndIs
<1>4. /\ a - 1 \in 0..Len(t) /\ e - 1 \in 0..Len(t) /\ Len(t) \in 0..Len(t)
      /\ 1 \in 1..Len(t) + 1 /\ a \in 1..Len(t) + 1 /\ e \in 1..Len(t) + 1
  BY <1>1, <1>2, <1>3
<1>5. PICK p \in Text : /\ p = SubSeq(t, 1, a - 1)
                        /\ Len(p) = (IF 1 <= a - 1 THEN a - 1 - 1 + 1 ELSE 0)
                        /\ \A i \in 1..Len(p) : p[i] = t[1 + i - 1]
  BY <1>4, Cut
<1>6. PICK s \in Text : /\ s = SubSeq(t, e, Len(t))
                        /\ Len(s) = (IF e <= Len(t) THEN Len(t) - e + 1 ELSE 0)
                        /\ \A i \in 1..Len(s) : s[i] = t[e + i - 1]
  BY <1>4, Cut
<1>7. PICK m \in Text : /\ m = SubSeq(t, a, e - 1)
                        /\ Len(m) = (IF a <= e - 1 THEN e - 1 - a + 1 ELSE 0)
                        /\ \A i \in 1..Len(m) : m[i] = t[a + i - 1]
  BY <1>4, Cut
<1>8. m = LineAt(t, a)
  BY <1>3, <1>7 DEF LineAt
<1>9. PICK n \in Nat : n = e - a /\ n = Len(m)
  <2>1. e - a \in Nat /\ Len(m) = e - a
    BY <1>2, <1>3, <1>7
  <2> QED
    BY <2>1
<1>10. Len(p) = a - 1 /\ a \in Nat /\ a >= 1
  BY <1>2, <1>5
<1>11. Ended(p)
  <2>1. CASE a = 1
    BY <1>10, <2>1 DEF Ended, Text
  <2>2. CASE a # 1
    <3>1. Len(p) \in 1..Len(p) /\ 1 + Len(p) - 1 = a - 1
      BY <1>2, <1>10, <2>2
    <3> QED
      BY <1>2, <1>5, <2>2, <3>1 DEF Ended
  <2> QED
    BY <2>1, <2>2
<1>12. Ending(s)
  <2>1. CASE e = l + 1
    <3>1. Len(s) = 0
      BY <1>1, <1>6, <2>1
    <3> QED
      BY <3>1 DEF Ending, Text
  <2>2. CASE e # l + 1
    <3>1. 1 \in 1..Len(s) /\ e + 1 - 1 = e
      BY <1>1, <1>2, <1>3, <1>6, <2>2
    <3> QED
      BY <1>3, <1>6, <2>2, <3>1 DEF Ending
  <2> QED
    BY <2>1, <2>2
<1>13. t = p \o m \o s
  <2>1. t \in Seq(Tokens)
    BY DEF Text
  <2>2. SubSeq(t, 1, a - 1) \o SubSeq(t, (a - 1) + 1, e - 1) = SubSeq(t, 1, e - 1)
    <3>1. 1 \in 1..Len(t) + 1 /\ a - 1 \in 1 - 1..Len(t) /\ e - 1 \in a - 1..Len(t)
      BY <1>1, <1>2, <1>3
    <3> QED
      BY <2>1, <3>1, ConcatAdjacentSubSeq
  <2>3. SubSeq(t, 1, e - 1) \o SubSeq(t, (e - 1) + 1, Len(t)) = SubSeq(t, 1, Len(t))
    <3>1. 1 \in 1..Len(t) + 1 /\ e - 1 \in 1 - 1..Len(t) /\ Len(t) \in e - 1..Len(t)
      BY <1>1, <1>2, <1>3
    <3> QED
      BY <2>1, <3>1, ConcatAdjacentSubSeq
  <2>4. (a - 1) + 1 = a /\ (e - 1) + 1 = e
    BY <1>2, <1>3
  <2>5. SubSeq(t, 1, Len(t)) = t
    BY DEF Text
  <2> QED
    BY <1>5, <1>6, <1>7, <2>2, <2>3, <2>4, <2>5
<1>14. a + n = e /\ a + n <= Len(t) + 1
  BY <1>1, <1>2, <1>3, <1>9
<1>15. /\ n = Len(LineAt(t, a)) /\ s = SubSeq(t, a + n, Len(t))
       /\ \A j \in 1..n : LineAt(t, a)[j] = t[a + j - 1]
  BY <1>6, <1>7, <1>8, <1>9, <1>14
<1> QED
  BY <1>5, <1>8, <1>10, <1>11, <1>12, <1>13, <1>14, <1>15 DEF Around

\* The line that defines k with the value old is where op_prop_file will write, and
\* no other line of t puts k.
HitsLine(t, k, old, a) ==
    /\ Hits(t, k) # {} /\ a = Min(Hits(t, k))
    /\ a \in Starts(t)
    /\ LineAt(t, a) = k \o <<Equals>> \o old
    /\ \A i \in Starts(t) \ {a} : k \notin DOMAIN Puts(Trim(LineAt(t, i)))

\* Behind a line that no other line of its text overrides, the key is put no more.
LEMMA NotLater ==
    ASSUME NEW p \in Text, NEW m \in Text, NEW s \in Text, NEW t \in Text,
           OneLine(m), Ended(p), Ending(s), t = p \o m \o s, NEW k,
           \A i \in Starts(t) \ {Len(p) + 1} : k \notin DOMAIN Puts(Trim(LineAt(t, i)))
    PROVE  k \notin DOMAIN Later(s)
<1>1. PICK a \in Nat : a = Len(p) + 1
  BY DEF Text
<1>2. PICK b \in Nat : b = Len(p) + Len(m)
  BY DEF Text
<1>3. Assembled(t, p, m, s, a, b)
  BY <1>1, <1>2, Assembles
<1>4. LinesAssembled(t, p, m, s, a, b)
  BY <1>3, Pieces
<1> DEFINE f == [i \in Starts(s) \ {1} |-> PutsAt(s)[i]]
<1>5. ASSUME NEW i \in DOMAIN f PROVE k \notin DOMAIN f[i]
  <2>1. PICK j : j = b + i
    OBVIOUS
  <2>2. i \in Starts(s) \ {1} /\ f[i] = Puts(Trim(LineAt(s, i)))
    BY DEF PutsAt
  <2>3. j \in Starts(t) /\ a < j /\ LineAt(t, j) = LineAt(s, i)
    BY <1>4, <2>1, <2>2 DEF LinesAssembled
  <2>4. j \in Starts(t) \ {Len(p) + 1}
    BY <1>1, <2>3
  <2> QED
    BY <2>2, <2>3, <2>4
<1>6. Later(s) = Latest(f)
  BY DEF Later
<1> HIDE DEF f
<1> QED
  BY <1>5, <1>6, LatestDomain

\* What is cut out of t and put together again is the line with the new value.
LEMMA Replaced ==
    ASSUME NEW t \in Text, NEW k \in Text, NEW old \in Text, NEW v \in Text,
           NEW a \in Nat, HitsLine(t, k, old, a),
           NEW p \in Text, NEW s \in Text, NEW n \in Nat, Around(t, a, p, s, n)
    PROVE  /\ Rewritten(t, k, Len(old), v) = p \o (k \o <<Equals>> \o v) \o s
           /\ RetLen(t, k, Len(old)) >= 0
<1>1. PICK q \in Text : q = <<Equals>> /\ Len(q) = 1
  <2>1. <<Equals>> \in Text /\ Len(<<Equals>>) = 1
    BY LineTokens DEF Text
  <2> QED
    BY <2>1
<1>2. PICK w \in Text : w = k \o q
  BY Concatenated
<1>3. PICK c \in Nat : c = Len(k) + 1 /\ Len(w) = c
  <2>1. Len(k) + 1 \in Nat /\ Len(k \o q) = Len(k) + 1
    BY <1>1 DEF Text
  <2> QED
    BY <1>2, <2>1
<1>4. PICK x \in Text : x = w \o old /\ LineAt(t, a) = x
  BY <1>1, <1>2, Concatenated DEF HitsLine
<1>5. Len(x) = c + Len(old) /\ \A j \in 1..c : x[j] = w[j]
  <2>1. Len(w \o old) = Len(w) + Len(old) /\ \A j \in 1..Len(w) : (w \o old)[j] = w[j]
    BY DEF Text
  <2> QED
    BY <1>3, <1>4, <2>1
<1>6. PICK l \in Nat : l = Len(t)
  BY DEF Text
<1>7. Len(old) \in Nat /\ Len(v) \in Nat
  BY DEF Text
<1>8. /\ n = c + Len(old) /\ a + n <= l + 1
      /\ a \in Nat /\ a >= 1 /\ p = SubSeq(t, 1, a - 1) /\ s = SubSeq(t, a + n, Len(t))
  BY <1>4, <1>5, <1>6 DEF Around
<1>9. PICK b \in Nat : b = a - 1
  BY <1>8
<1>10. SubSeq(t, a, b + c) = w
  <2>1. Len(t) >= b + Len(w)
    BY <1>3, <1>6, <1>7, <1>8, <1>9
  <2>2. ASSUME NEW j \in 1..Len(w) PROVE t[b + j] = w[j]
    <3>1. j \in 1..n /\ j \in 1..c /\ a + j - 1 = b + j
      BY <1>3, <1>7, <1>8, <1>9
    <3> QED
      BY <1>4, <1>5, <3>1 DEF Around
  <2>3. SubSeq(t, b + 1, b + Len(w)) = w
    BY <2>1, <2>2, PieceIs
  <2>4. b + 1 = a /\ b + Len(w) = b + c
    BY <1>3, <1>9
  <2> QED
    BY <2>3, <2>4
<1>11. SubSeq(t, 1, b + c) = p \o w
  <2>1. t \in Seq(Tokens) /\ 1 \in 1..Len(t) + 1 /\ b \in 1 - 1..Len(t) /\ b + c \in b..Len(t)
    BY <1>6, <1>7, <1>8, <1>9 DEF Text
  <2>2. SubSeq(t, 1, b) \o SubSeq(t, b + 1, b + c) = SubSeq(t, 1, b + c)
    BY <2>1, ConcatAdjacentSubSeq
  <2>3. b + 1 = a /\ b = a - 1
    BY <1>9
  <2> QED
    BY <1>8, <1>10, <2>2, <2>3
<1>12. MoveLen(t, k) = b + c
  <2>1. MoveLen(t, k) = a - 1 + Len(k) + 1
    BY DEF MoveLen, HitsLine
  <2>2. Len(k) \in Nat
    BY DEF Text
  <2> QED
    BY <1>3, <1>9, <2>1, <2>2
<1>13. MoveLen(t, k) + Len(old) + 1 = a + n
  <2>1. b + c + Len(old) + 1 = a + n
    BY <1>7, <1>8, <1>9
  <2> QED
    BY <1>12, <2>1
<1>14. Rewritten(t, k, Len(old), v) = SubSeq(t, 1, b + c) \o v \o SubSeq(t, a + n, Len(t))
  BY <1>12, <1>13 DEF Rewritten, HitsLine
<1>15. Rewritten(t, k, Len(old), v) = (p \o w) \o v \o s
  BY <1>8, <1>11, <1>14
<1>16. (p \o w) \o v = p \o (w \o v)
  <2>1. p \in Seq(Tokens) /\ w \in Seq(Tokens) /\ v \in Seq(Tokens)
    BY DEF Text
  <2> QED
    BY <2>1, ConcatAssociative
<1>17. RetLen(t, k, Len(old)) >= 0
  BY <1>6, <1>7, <1>8, <1>9, <1>12 DEF RetLen
<1> QED
  BY <1>1, <1>2, <1>15, <1>16, <1>17

\* op_prop_file changes the one property and nothing else of what the file puts, if
\* it has hit the line that defines it.
LEMMA RewrittenLine ==
    ASSUME NEW t \in Text, NEW k, NEW old, NEW v,
           Writes(k, old), Writes(k, v), NEW a, HitsLine(t, k, old, a)
    PROVE  /\ Rewritten(t, k, Len(old), v) \in Text
           /\ RetLen(t, k, Len(old)) >= 0
           /\ Agree(Loaded(Rewritten(t, k, Len(old), v)), Then(Loaded(t), One(k, v)))
<1>1. k \in Text /\ old \in Text /\ v \in Text
  BY DEF Writes
<1>2. /\ a \in Starts(t) /\ a \in Nat /\ LineAt(t, a) = k \o <<Equals>> \o old
      /\ \A i \in Starts(t) \ {a} : k \notin DOMAIN Puts(Trim(LineAt(t, i)))
  BY StartsBounded DEF HitsLine
<1>3. PICK p \in Text, s \in Text, n \in Nat : Around(t, a, p, s, n)
  BY <1>2, SidesOf
<1>4. PICK x \in Text : /\ x = k \o <<Equals>> \o old
                        /\ OneLine(x) /\ Trim(x) = x /\ Puts(x) = One(k, old)
  BY OwnLine
<1>5. PICK y \in Text : /\ y = k \o <<Equals>> \o v
                        /\ OneLine(y) /\ Trim(y) = y /\ Puts(y) = One(k, v)
  BY OwnLine
<1>6. /\ Rewritten(t, k, Len(old), v) = p \o y \o s
      /\ RetLen(t, k, Len(old)) >= 0
  <2>1. k \in Text /\ old \in Text /\ v \in Text /\ a \in Nat
    BY <1>1, <1>2
  <2>2. /\ Rewritten(t, k, Len(old), v) = p \o (k \o <<Equals>> \o v) \o s
        /\ RetLen(t, k, Len(old)) >= 0
    BY <1>3, <2>1, Replaced
  <2> QED
    BY <1>5, <2>2
<1>7. p \o y \o s \in Text
  BY Joined DEF JoinedAs
<1>8. OneLine(x) /\ OneLine(y) /\ Ended(p) /\ Ending(s)
  BY <1>3, <1>4, <1>5 DEF Around
<1>9. Loaded(p \o x \o s) = Then(Then(Earlier(p), Puts(Trim(x))), Later(s))
  BY <1>8, LoadedPieces
<1>10. Loaded(p \o y \o s) = Then(Then(Earlier(p), Puts(Trim(y))), Later(s))
  BY <1>8, LoadedPieces
<1>11. t = p \o x \o s
  BY <1>2, <1>3, <1>4 DEF Around
<1>12. k \notin DOMAIN Later(s)
  <2>1. Len(p) + 1 = a
    BY <1>3 DEF Around
  <2> QED
    BY <1>2, <1>8, <1>11, <2>1, NotLater
<1>13. Agree(Then(Then(Earlier(p), One(k, v)), Later(s)),
             Then(Then(Then(Earlier(p), One(k, old)), Later(s)), One(k, v)))
  BY <1>12 DEF Agree, Then, One
<1> QED
  BY <1>4, <1>5, <1>6, <1>7, <1>9, <1>10, <1>11, <1>13

-----------------------------------------------------------------------------
(* The tree, the buffers and a boot                                         *)

LEMMA ThenGood == ASSUME NEW f, NEW g, GoodPuts(f), GoodPuts(g) PROVE GoodPuts(Then(f, g))
BY DEF GoodPuts, Then

LEMMA TextOfIsText == ASSUME NEW d \in Text \cup {NoFile} PROVE TextOf(d) \in Text
BY DEF TextOf, Text

LEMMA DiskIsNoMark == ASSUME NEW d \in Text PROVE TextOf(d) = d
BY StoreAssumption DEF TextOf

\* Whatever the files hold, a boot loads legal names and trimmed, short values.
LEMMA BootGood ==
    ASSUME NEW d \in Text \cup {NoFile}, ota \in Text PROVE GoodPuts(Saved(d))
BY TextOfIsText, LoadedGood, ThenGood DEF Saved, Booted

Buffers == [1..ValueMax -> Bytes]

\* The string in a buffer ends in front of the first terminator, or with the buffer.
EndsAt(buf, n) == /\ StringIn(buf) \in Text /\ Len(StringIn(buf)) = n
                  /\ \A i \in 1..n : StringIn(buf)[i] = buf[i] /\ buf[i] # Nul
                  /\ n < ValueMax => buf[n + 1] = Nul

LEMMA StringIs ==
    ASSUME NEW buf \in Buffers PROVE \E n \in 0..ValueMax : EndsAt(buf, n)
<1>1. ValueMax \in Nat /\ Nul \in Bytes
  BY TextAssumption DEF Bytes
<1>2. PICK s \in Seq(Bytes) :
         /\ s = Append(buf, Nul) /\ Len(s) = ValueMax + 1 /\ s[ValueMax + 1] = Nul
         /\ \A i \in 1..ValueMax : s[i] = buf[i]
  <2>1. buf \in Seq(Bytes) /\ Len(buf) = ValueMax
    BY <1>1 DEF Buffers
  <2>2. /\ Append(buf, Nul) \in Seq(Bytes) /\ Len(Append(buf, Nul)) = ValueMax + 1
        /\ Append(buf, Nul)[ValueMax + 1] = Nul
        /\ \A i \in 1..ValueMax : Append(buf, Nul)[i] = buf[i]
    BY <1>1, <2>1, AppendProperties
  <2> QED
    BY <2>2
<1>3. PICK e \in 1..ValueMax + 1 :
         /\ e = First(s, Nul) /\ s[e] = Nul /\ \A i \in 1..e - 1 : s[i] # Nul
  <2> DEFINE at == {i \in 1..Len(s) : s[i] = Nul}
  <2>1. at \in SUBSET Nat /\ ValueMax + 1 \in at
    BY <1>1, <1>2
  <2>2. Min(at) \in at /\ \A i \in at : Min(at) <= i
    BY <2>1, MinIs
  <2> DEFINE m == Min(at)
  <2>3. m = First(s, Nul)
    BY DEF First
  <2> HIDE DEF m
  <2>4. m \in at /\ \A i \in at : m <= i
    BY <2>2 DEF m
  <2>5. m \in 1..Len(s) /\ s[m] = Nul
    BY <2>4 DEF at
  <2>6. ASSUME NEW i \in 1..m - 1, s[i] = Nul PROVE FALSE
    <3>1. i \in at
      BY <1>1, <1>2, <2>5, <2>6 DEF at
    <3> QED
      BY <1>1, <1>2, <2>4, <2>5, <3>1
  <2> QED
    BY <1>2, <2>3, <2>5, <2>6
<1>4. PICK n \in 0..ValueMax : n = e - 1
  BY <1>1
<1>5. PICK v \in Seq(Bytes) : /\ v = SubSeq(s, 1, n) /\ Len(v) = n
                             /\ \A i \in 1..n : v[i] = s[i]
  <2>1. \A i \in 1..n : s[i] \in Bytes
    BY <1>1, <1>2, <1>4, ElementOfSeq
  <2>2. /\ SubSeq(s, 1, n) \in Seq(Bytes) /\ Len(SubSeq(s, 1, n)) = n
        /\ \A i \in 1..n : SubSeq(s, 1, n)[i] = s[i]
    BY <1>1, <1>4, <2>1, SubSeqProperties
  <2> QED
    BY <2>2
<1>6. v = StringIn(buf)
  BY <1>2, <1>3, <1>4, <1>5 DEF StringIn, Before
<1>7. \A i \in 1..n : v[i] = buf[i] /\ buf[i] # Nul
  BY <1>1, <1>2, <1>3, <1>4, <1>5
<1>8. v \in Text
  <2>1. \A i \in 1..n : v[i] \in Tokens
    BY <1>5, <1>7 DEF Bytes
  <2> QED
    BY <1>5, <2>1 DEF Text
<1>9. n < ValueMax => buf[n + 1] = Nul
  BY <1>1, <1>2, <1>3, <1>4
<1> QED
  BY <1>5, <1>6, <1>7, <1>8, <1>9 DEF EndsAt

LEMMA ValueIs ==
    ASSUME NEW buf \in Buffers
    PROVE  StringIn(buf) \in Text /\ Len(StringIn(buf)) \in Nat
<1>1. StringIn(buf) \in Text
  BY StringIs DEF EndsAt
<1> QED
  BY <1>1, LenProperties DEF Text

\* What the calls of strncpy, memset and memcpy leave is a buffer again.
LEMMA StillBuffers ==
    ASSUME NEW buf \in Buffers, NEW v \in Text
    PROVE  /\ Overlaid(v, buf) \in Buffers /\ Cleared(buf) \in Buffers
           /\ Zeroed \in Buffers
           /\ \A rest \in Leftovers : Copied(v, rest) \in Buffers
<1>1. ValueMax \in Nat /\ Nul \in Bytes /\ Tokens \subseteq Bytes
  BY TextAssumption DEF Bytes
<1>2. Len(v) \in Nat /\ \A i \in 1..Len(v) : v[i] \in Bytes
  BY <1>1 DEF Text
<1>3. Overlaid(v, buf) \in Buffers
  BY <1>1, <1>2 DEF Overlaid, Buffers
<1>4. Cleared(buf) \in Buffers /\ Zeroed \in Buffers
  BY <1>1 DEF Cleared, Zeroed, Buffers
<1>5. ASSUME NEW rest \in Leftovers PROVE Copied(v, rest) \in Buffers
  <2>1. rest \in Seq(Bytes) /\ Len(rest) >= ValueMax /\ v \in Seq(Bytes) /\ <<Nul>> \in Seq(Bytes)
    BY <1>1, <1>2, StoreAssumption DEF Text
  <2>2. v \o <<Nul>> \in Seq(Bytes) /\ Len(v \o <<Nul>>) \in Nat /\ Len(rest) \in Nat
    BY <2>1, ConcatProperties, LenProperties
  <2>3. PICK s \in Seq(Bytes) : /\ s = v \o <<Nul>> \o rest
                                /\ Len(s) = Len(v \o <<Nul>>) + Len(rest)
    BY <2>1, <2>2, ConcatProperties
  <2>4. \A i \in 1..ValueMax : s[i] \in Bytes
    BY <1>1, <2>1, <2>2, <2>3, ElementOfSeq
  <2>5. /\ SubSeq(s, 1, ValueMax) \in Seq(Bytes)
        /\ Len(SubSeq(s, 1, ValueMax)) = ValueMax
    BY <1>1, <2>4, SubSeqProperties
  <2>6. SubSeq(s, 1, ValueMax) \in [1..ValueMax -> Bytes]
    BY <2>5, LenProperties
  <2> QED
    BY <2>3, <2>6 DEF Copied, Buffers
<1> QED
  BY <1>3, <1>4, <1>5

\* A file that puts one property more, or another value for it, boots as the tree
\* will be, if recovery.conf does not override it.
LEMMA BootsWithPut ==
    ASSUME NEW t, NEW u, Agree(Loaded(u), Then(Loaded(t), One(prop_key, Value))),
           prop_key \notin DOMAIN Loaded(ota), Persistent(Booted(t)) = Persistent(mem)
    PROVE  Persistent(Booted(u)) = Persistent(TreeWithPut)
<1> DEFINE f == Booted(t)  g == Booted(u)  h == TreeWithPut
<1>1. DOMAIN g = DOMAIN f \cup {prop_key}
  BY DEF Booted, Then, Agree, One
<1>2. g[prop_key] = Value /\ \A k \in DOMAIN f : k # prop_key => g[k] = f[k]
  BY DEF Booted, Then, Agree, One
<1>3. /\ DOMAIN h = DOMAIN mem \cup {prop_key} /\ h[prop_key] = Value
      /\ \A k \in DOMAIN mem : k # prop_key => h[k] = mem[k]
  BY DEF TreeWithPut
<1> HIDE DEF f, g, h
<1>4. DOMAIN Persistent(f) = DOMAIN Persistent(mem)
      /\ \A k \in DOMAIN Persistent(f) : Persistent(f)[k] = Persistent(mem)[k]
  BY DEF f
<1>5. ASSUME NEW k, IsPersistent(k)
      PROVE  /\ k \in DOMAIN f <=> k \in DOMAIN mem
             /\ k \in DOMAIN f => f[k] = mem[k]
  BY <1>4, <1>5 DEF Persistent
<1>6. ASSUME NEW k, IsPersistent(k) PROVE k \in DOMAIN g <=> k \in DOMAIN h
  BY <1>1, <1>3, <1>5, <1>6
<1>7. ASSUME NEW k \in DOMAIN g, IsPersistent(k) PROVE g[k] = h[k]
  BY <1>1, <1>2, <1>3, <1>5, <1>7
<1>8. Persistent(g) = Persistent(h)
  BY <1>6, <1>7 DEF Persistent
<1> QED
  BY <1>8 DEF g, h

\* A property that is not there is not in recovery.conf either.
LEMMA NotOverridden ==
    ASSUME NEW t, NEW k, IsPersistent(k), k \notin DOMAIN mem,
           Persistent(Booted(t)) = Persistent(mem)
    PROVE  k \notin DOMAIN Loaded(ota)
<1>1. DOMAIN Persistent(Booted(t)) = DOMAIN Persistent(mem)
  OBVIOUS
<1>2. k \notin DOMAIN Booted(t)
  BY <1>1 DEF Persistent
<1> QED
  BY <1>2 DEF Booted, Then

LEMMA OthersArePersistent ==
    ASSUME ~IsPersistent(prop_key) PROVE Persistent(TreeWithPut) = Persistent(mem)
BY DEF Persistent, TreeWithPut

-----------------------------------------------------------------------------
(* The invariant                                                            *)

\* The file is written for persistent properties only, and with a value that has
\* been looked at.
WritesPersistent ==
    pc \in {"truncated", "put"} =>
        /\ prop_key \in Text /\ is_legal_property_name(prop_key) /\ IsPersistent(prop_key)
        /\ Value \in Text /\ Len(Value) < ValueMax

\* As long as file and tree agree they hold nothing that load_properties would trim.
Trimmed == ~tainted => /\ \A k \in DOMAIN mem : IsPersistent(k) => Word(mem[k])
                       /\ pc = "put" => Word(Value)

\* Between the truncation and the writing, what has been read is the file.
ReadFollowsMemory ==
    pc = "truncated" /\ ~tainted => Persistent(Booted(text)) = Persistent(mem)

StoreInv == /\ TypeOK /\ Trimmed /\ WritesPersistent
            /\ ReadFollowsMemory /\ FileFollowsMemory /\ RewriteInBounds

LEMMA GoodTreeTypes ==
    ASSUME NEW m, GoodPuts(m)
    PROVE  \A k \in DOMAIN m : /\ is_legal_property_name(k) /\ Word(m[k])
                               /\ m[k] \in Text /\ Len(m[k]) < ValueMax
BY DEF GoodPuts, Good

LEMMA KeyIsText == ASSUME TypeOK PROVE prop_key \in Text
<1>1. <<>> \in Text /\ Keys \subseteq Text
  BY StoreAssumption DEF Text
<1> QED
  BY <1>1 DEF TypeOK

LEMMA FitsOrNot ==
    ASSUME NEW v \in Text, ~(Len(v) >= ValueMax) PROVE Len(v) < ValueMax
<1>1. Len(v) \in Nat
  BY DEF Text
<1>2. ValueMax \in Nat
  BY TextAssumption
<1> QED
  BY <1>1, <1>2

LEMMA ZeroedBuffer == Zeroed \in Buffers
BY TextAssumption DEF Zeroed, Buffers, Bytes

LEMMA ValueIsText == ASSUME TypeOK PROVE Value \in Text
BY ValueIs DEF TypeOK, Value, Buffers

LEMMA InitInv == Init => StoreInv
<1> SUFFICES ASSUME Init PROVE StoreInv
  OBVIOUS
<1>1. /\ disk \in Text \cup {NoFile} /\ ota \in Overrides /\ ota \in Text /\ <<>> \in Text
      /\ mem = Saved(disk) /\ prop_key = <<>> /\ prop_value = Zeroed /\ text = <<>>
      /\ pc = "idle" /\ tainted = FALSE
  BY StoreAssumption DEF Init, Text
<1>2. GoodPuts(mem)
  BY <1>1, BootGood
<1>3. TypeOK
  BY <1>1, <1>2, GoodTreeTypes, ZeroedBuffer DEF TypeOK, Buffers
<1>4. Trimmed
  BY <1>1, <1>2, GoodTreeTypes DEF Trimmed
<1> QED
  BY <1>1, <1>3, <1>4 DEF StoreInv, WritesPersistent, ReadFollowsMemory, FileFollowsMemory,
                          RewriteInBounds, Intended

LEMMA RebootInv == ASSUME StoreInv, Reboot PROVE StoreInv'
<1>1. /\ disk' = disk /\ ota' = ota /\ mem' = Saved(disk) /\ prop_key' = <<>>
      /\ prop_value' = Zeroed /\ text' = <<>> /\ pc' = "idle" /\ tainted' = FALSE
  BY DEF Reboot
<1>2. disk \in Text \cup {NoFile} /\ ota \in Overrides /\ ota \in Text /\ <<>> \in Text
  BY StoreAssumption DEF StoreInv, TypeOK, Text
<1>3. GoodPuts(mem')
  BY <1>1, <1>2, BootGood
<1>4. TypeOK'
  BY <1>1, <1>2, <1>3, GoodTreeTypes, ZeroedBuffer DEF TypeOK, Buffers
<1>5. Trimmed'
  BY <1>1, <1>3, GoodTreeTypes DEF Trimmed
<1>6. Saved(disk)' = Saved(disk)
  BY <1>1 DEF Saved, Booted
<1> QED
  BY <1>1, <1>4, <1>5, <1>6 DEF StoreInv, WritesPersistent, ReadFollowsMemory,
                                FileFollowsMemory, RewriteInBounds, Intended

\* The commands, and the ways out of set_property, that leave the file and the tree.
LEMMA IdleInv ==
    ASSUME StoreInv, UNCHANGED <<disk, ota, mem, tainted>>, text' \in Text,
           prop_key' \in Keys \cup {<<>>}, prop_value' \in Buffers,
           pc \in {"idle", "set"}, pc' \in {"idle", "set", "frozen"}
    PROVE  StoreInv'
<1>1. TypeOK' /\ Trimmed'
  BY DEF StoreInv, TypeOK, Trimmed, Buffers
<1>2. Persistent(Saved(disk))' = Persistent(Saved(disk))
  BY DEF Saved, Booted, Persistent
<1>3. Intended = mem /\ Intended' = mem /\ Persistent(Intended') = Persistent(Intended)
  BY DEF Intended
<1>4. FileFollowsMemory'
  BY <1>2, <1>3 DEF StoreInv, FileFollowsMemory
<1> QED
  BY <1>1, <1>4 DEF StoreInv, WritesPersistent, ReadFollowsMemory, RewriteInBounds

LEMMA GetInv == ASSUME StoreInv, NEW k \in Keys, CmdGet(k) PROVE StoreInv'
<1>1. GetResult(k) \in Buffers /\ Zeroed \in Buffers
  <2>1. prop_value \in Buffers /\ (\A x \in DOMAIN mem : mem[x] \in Text)
    BY DEF StoreInv, TypeOK, Buffers
  <2>2. Cleared(prop_value) \in Buffers /\ Zeroed \in Buffers
    <3>1. <<>> \in Text
      BY DEF Text
    <3> QED
      BY <2>1, <3>1, StillBuffers
  <2> QED
    BY <2>1, <2>2, StillBuffers DEF GetResult, Stored
<1>2. text \in Text
  BY DEF StoreInv, TypeOK
<1> QED
  BY <1>1, <1>2, IdleInv DEF CmdGet

LEMMA CommandInv ==
    ASSUME StoreInv, \/ CmdList \/ CmdSetUsage \/ SetRefused \/ SetGivesUp
                     \/ \E k \in Keys, v \in Values, rest \in Leftovers : CmdSet(k, v, rest)
    PROVE  StoreInv'
<1>1. prop_key \in Keys \cup {<<>>} /\ prop_value \in Buffers /\ text \in Text
  BY DEF StoreInv, TypeOK, Buffers
<1>2. CASE CmdList
  BY <1>1, <1>2, IdleInv DEF CmdList
<1>3. CASE CmdSetUsage
  BY <1>1, <1>3, IdleInv DEF CmdSetUsage
<1>4. CASE SetRefused \/ SetGivesUp
  BY <1>1, <1>4, IdleInv DEF SetRefused, SetGivesUp
<1>5. ASSUME NEW k \in Keys, NEW v \in Values, NEW rest \in Leftovers, CmdSet(k, v, rest)
      PROVE  StoreInv'
  <2>1. Copied(v, rest) \in Buffers
    BY <1>1, StillBuffers, StoreAssumption
  <2> QED
    BY <1>1, <1>5, <2>1, IdleInv DEF CmdSet
<1> QED
  BY <1>2, <1>3, <1>4, <1>5

LEMMA TruncatesInv == ASSUME StoreInv, SetTruncates PROVE StoreInv'
<1>1. /\ text' = TextOf(disk) /\ disk' = <<>> /\ pc' = "truncated" /\ pc = "set"
      /\ UNCHANGED <<ota, mem, prop_key, prop_value, tainted>>
      /\ IsPersistent(prop_key) /\ is_legal_property_name(prop_key)
      /\ ~(Len(Value) >= ValueMax)
  BY DEF SetTruncates, Goes, GivesUp
<1>2. /\ disk \in Text \cup {NoFile} /\ Value \in Text
      /\ prop_key \in Text /\ <<>> \in Text
  BY KeyIsText, ValueIsText DEF StoreInv, TypeOK, Text
<1>3. TextOf(disk) \in Text
  BY <1>2, TextOfIsText
<1>4. TypeOK' /\ Trimmed'
  BY <1>1, <1>2, <1>3 DEF StoreInv, TypeOK, Trimmed
<1>5. WritesPersistent'
  <2>1. Len(Value) < ValueMax
    BY <1>1, <1>2, FitsOrNot
  <2> QED
    BY <1>1, <1>2, <2>1 DEF WritesPersistent, Value
<1>6. ReadFollowsMemory'
  <2>1. Booted(text)' = Saved(disk)
    BY <1>1 DEF Saved, Booted
  <2>2. ~tainted => Persistent(Saved(disk)) = Persistent(mem)
    BY <1>1 DEF StoreInv, FileFollowsMemory, Intended
  <2> QED
    BY <1>1, <2>1, <2>2 DEF ReadFollowsMemory, Persistent
<1> QED
  BY <1>1, <1>4, <1>5, <1>6 DEF StoreInv, FileFollowsMemory, RewriteInBounds

\* What op_prop_file has looked for is there, and it is where the file says so.
LEMMA ItsLine ==
    ASSUME StoreInv, pc = "truncated", ~tainted, Stored(prop_key), HitsItsLine
    PROVE  LET u == Rewritten(text, prop_key, Len(mem[prop_key]), Value)
           IN  /\ RetLen(text, prop_key, Len(mem[prop_key])) >= 0
               /\ Word(Value) => Agree(Loaded(u), Then(Loaded(text), One(prop_key, Value)))
               /\ prop_key \notin DOMAIN Loaded(ota)
<1>1. PICK at : at = Min(Hits(text, prop_key))
  OBVIOUS
<1>2. HitsLine(text, prop_key, mem[prop_key], at) /\ prop_key \notin DOMAIN Loaded(ota)
  BY <1>1 DEF HitsItsLine, HitsLine
<1>3. text \in Text /\ (Word(Value) => Writes(prop_key, Value))
  BY DEF StoreInv, WritesPersistent, TypeOK, Writes
<1>4. Writes(prop_key, mem[prop_key])
  BY DEF StoreInv, TypeOK, Trimmed, WritesPersistent, Writes, Stored
<1>5. RetLen(text, prop_key, Len(mem[prop_key])) >= 0
  BY <1>2, <1>3, <1>4, RewrittenLine
<1> QED
  BY <1>2, <1>3, <1>4, <1>5, RewrittenLine

LEMMA RewrittenText ==
    ASSUME NEW t \in Text, NEW k \in Text, NEW old \in Nat, NEW v \in Text,
           Hits(t, k) # {} => RetLen(t, k, old) >= 0
    PROVE  Rewritten(t, k, old, v) \in Text
<1>1. CASE Hits(t, k) = {}
  BY <1>1 DEF Rewritten, Text
<1>2. CASE Hits(t, k) # {}
  <2>1. PICK l \in Nat, n \in Nat : l = Len(t) /\ n = Len(k)
    BY DEF Text
  <2>2. Hits(t, k) \in SUBSET (1..l - n + 1)
    BY <2>1, Zenon DEF Hits
  <2>3. Hits(t, k) \in SUBSET Nat
    BY <2>2
  <2>4. PICK a \in Nat : a = Min(Hits(t, k)) /\ a >= 1
    <3>1. Min(Hits(t, k)) \in Hits(t, k)
      BY <1>2, <2>3, MinIs
    <3> QED
      BY <2>2, <3>1
  <2>5. PICK m \in Nat : m = a - 1 + n + 1
    BY <2>4
  <2>6. MoveLen(t, k) = m
    BY <2>1, <2>4, <2>5 DEF MoveLen
  <2>7. l - m - old >= 0
    BY <1>2, <2>1, <2>6 DEF RetLen
  <2>8. 1 \in 1..Len(t) + 1 /\ m \in 0..Len(t) /\ m + old + 1 \in 1..Len(t) + 1 /\ Len(t) \in 0..Len(t)
    BY <2>1, <2>7
  <2>9. SubSeq(t, 1, m) \in Text /\ SubSeq(t, m + old + 1, Len(t)) \in Text
    BY <2>8, Cut
  <2>10. SubSeq(t, 1, m) \o v \o SubSeq(t, m + old + 1, Len(t)) \in Text
    BY <2>9, Joined DEF JoinedAs
  <2> QED
    BY <1>2, <2>6, <2>10 DEF Rewritten
<1> QED
  BY <1>1, <1>2

LEMMA LengthsAreInts ==
    ASSUME StoreInv, Stored(prop_key), Hits(text, prop_key) # {}
    PROVE  RetLen(text, prop_key, Len(mem[prop_key])) \in Int
<1>1. text \in Text /\ prop_key \in Text /\ mem[prop_key] \in Text
  BY KeyIsText DEF StoreInv, TypeOK, Stored
<1>2. PICK l \in Nat, n \in Nat, o \in Nat :
         l = Len(text) /\ n = Len(prop_key) /\ o = Len(mem[prop_key])
  BY <1>1 DEF Text
<1>3. Hits(text, prop_key) \in SUBSET (1..l - n + 1)
  BY <1>2, Zenon DEF Hits
<1>4. Hits(text, prop_key) \in SUBSET Nat
  BY <1>3
<1>5. Min(Hits(text, prop_key)) \in Nat
  BY <1>4, MinIs
<1> QED
  BY <1>2, <1>5 DEF RetLen, MoveLen

LEMMA CrashInv == ASSUME StoreInv, SetWithoutFile \/ SetOverruns PROVE StoreInv'
<1>1. /\ UNCHANGED <<disk, ota, mem, prop_key, prop_value, text>> /\ pc' = "crashed"
  BY DEF SetWithoutFile, SetOverruns
<1>2. tainted' \in BOOLEAN
  <2>1. tainted \in BOOLEAN
    BY DEF StoreInv, TypeOK
  <2> QED
    BY <2>1, Zenon DEF SetWithoutFile, SetOverruns
<1>3. TypeOK' /\ Trimmed'
  <2>1. ~tainted' => ~tainted
    BY <1>2, Zenon DEF SetWithoutFile, SetOverruns
  <2> QED
    BY <1>1, <1>2, <2>1 DEF StoreInv, TypeOK, Trimmed
<1>4. RewriteInBounds'
  <2>1. CASE SetWithoutFile
    BY <1>1, <2>1 DEF SetWithoutFile, RewriteInBounds
  <2>2. CASE SetOverruns
    <3>1. HitsItsLine /\ ~tainted => RetLen(text, prop_key, Len(mem[prop_key])) >= 0
      BY <2>2, ItsLine DEF SetOverruns
    <3>2. ~HitsItsLine \/ tainted
      BY <2>2, <3>1, LengthsAreInts DEF SetOverruns
    <3> QED
      BY <1>1, <2>2, <3>2 DEF SetOverruns, RewriteInBounds
  <2> QED
    BY <2>1, <2>2
<1> QED
  BY <1>1, <1>3, <1>4 DEF StoreInv, WritesPersistent, ReadFollowsMemory, FileFollowsMemory

LEMMA AppendsInv == ASSUME StoreInv, SetAppends PROVE StoreInv'
<1> DEFINE u == Appended(text, prop_key, Value)
<1>1. /\ disk' = u /\ pc' = "put" /\ pc = "truncated" /\ ~Stored(prop_key)
      /\ UNCHANGED <<ota, mem, prop_key, prop_value, text>>
  BY DEF SetAppends
<1>2. tainted' \in BOOLEAN /\ (~tainted' => ~tainted /\ EndsItsLine /\ Word(Value))
  <2>1. tainted \in BOOLEAN
    BY DEF StoreInv, TypeOK
  <2> QED
    BY <2>1, Zenon DEF SetAppends
<1>3. /\ text \in Text /\ Value' = Value /\ (Word(Value) => Writes(prop_key, Value))
      /\ prop_key \in Text /\ Value \in Text /\ IsPersistent(prop_key)
  BY <1>1 DEF StoreInv, WritesPersistent, TypeOK, Writes, Value
<1>4. u \in Text
  <2>1. /\ text \in Text /\ prop_key \in Text /\ Value \in Text
        /\ <<Equals>> \in Text /\ <<EOL>> \in Text
    BY <1>3, LineTokens DEF Text
  <2> QED
    BY <2>1, Concatenated DEF Appended
<1> HIDE DEF u
<1>5. TypeOK' /\ Trimmed'
  BY <1>1, <1>2, <1>3, <1>4 DEF StoreInv, TypeOK, Trimmed
<1>6. WritesPersistent'
  BY <1>1, <1>3 DEF StoreInv, WritesPersistent
<1>7. FileFollowsMemory'
  <2> SUFFICES ASSUME ~tainted' PROVE Persistent(Saved(disk))' = Persistent(Intended)'
    BY DEF FileFollowsMemory
  <2>1. Persistent(Booted(text)) = Persistent(mem)
    BY <1>1, <1>2 DEF StoreInv, ReadFollowsMemory
  <2>2. prop_key \notin DOMAIN Loaded(ota)
    BY <1>1, <1>3, <2>1, NotOverridden DEF Stored
  <2>3. Ended(text)
    BY <1>2 DEF EndsItsLine, Ended, Last
  <2>4. Agree(Loaded(u), Then(Loaded(text), One(prop_key, Value)))
    BY <1>2, <1>3, <2>3, AppendedLine DEF u
  <2>5. Persistent(Booted(u)) = Persistent(TreeWithPut)
    BY <2>1, <2>2, <2>4, BootsWithPut
  <2>6. Saved(disk)' = Booted(u)
    BY <1>1, <1>4, DiskIsNoMark DEF Saved, Booted
  <2>7. Intended' = TreeWithPut
    BY <1>1, <1>3 DEF Intended, TreeWithPut
  <2> QED
    BY <2>5, <2>6, <2>7 DEF Persistent
<1> QED
  BY <1>1, <1>5, <1>6, <1>7 DEF StoreInv, ReadFollowsMemory, RewriteInBounds

LEMMA RewritesInv == ASSUME StoreInv, SetRewrites PROVE StoreInv'
<1> DEFINE u == Rewritten(text, prop_key, Len(mem[prop_key]), Value)
<1>1. /\ disk' = u /\ pc' = "put" /\ pc = "truncated" /\ Stored(prop_key)
      /\ Hits(text, prop_key) # {} => RetLen(text, prop_key, Len(mem[prop_key])) >= 0
      /\ UNCHANGED <<ota, mem, prop_key, prop_value, text>>
  BY DEF SetRewrites
<1>2. tainted' \in BOOLEAN /\ (~tainted' => ~tainted /\ HitsItsLine /\ Word(Value))
  <2>1. tainted \in BOOLEAN
    BY DEF StoreInv, TypeOK
  <2> QED
    BY <2>1, Zenon DEF SetRewrites
<1>3. /\ text \in Text /\ Value' = Value /\ (Word(Value) => Writes(prop_key, Value))
      /\ prop_key \in Text /\ Value \in Text /\ IsPersistent(prop_key)
  BY <1>1 DEF StoreInv, WritesPersistent, TypeOK, Writes, Value
<1>4. u \in Text
  <2>1. Len(mem[prop_key]) \in Nat
    BY <1>1 DEF StoreInv, TypeOK, Stored, Text
  <2> QED
    BY <1>1, <1>3, <2>1, RewrittenText
<1> HIDE DEF u
<1>5. TypeOK' /\ Trimmed'
  BY <1>1, <1>2, <1>3, <1>4 DEF StoreInv, TypeOK, Trimmed
<1>6. WritesPersistent'
  BY <1>1, <1>3 DEF StoreInv, WritesPersistent
<1>7. FileFollowsMemory'
  <2> SUFFICES ASSUME ~tainted' PROVE Persistent(Saved(disk))' = Persistent(Intended)'
    BY DEF FileFollowsMemory
  <2>1. Persistent(Booted(text)) = Persistent(mem)
    BY <1>1, <1>2 DEF StoreInv, ReadFollowsMemory
  <2>2. /\ prop_key \notin DOMAIN Loaded(ota)
        /\ Agree(Loaded(u), Then(Loaded(text), One(prop_key, Value)))
    BY <1>1, <1>2, ItsLine DEF u
  <2>3. Persistent(Booted(u)) = Persistent(TreeWithPut)
    BY <2>1, <2>2, BootsWithPut
  <2>4. Saved(disk)' = Booted(u)
    BY <1>1, <1>4, DiskIsNoMark DEF Saved, Booted
  <2>5. Intended' = TreeWithPut
    BY <1>1, <1>3 DEF Intended, TreeWithPut
  <2> QED
    BY <2>3, <2>4, <2>5 DEF Persistent
<1> QED
  BY <1>1, <1>5, <1>6, <1>7 DEF StoreInv, ReadFollowsMemory, RewriteInBounds

LEMMA PutsInv == ASSUME StoreInv, SetPuts \/ SetDropped PROVE StoreInv'
<1>1. /\ pc' = "idle" /\ text' = <<>> /\ UNCHANGED <<disk, ota, prop_key, prop_value>>
      /\ PutsNow /\ <<>> \in Text
  BY DEF SetPuts, SetDropped, Text
<1>2. Saved(disk)' = Saved(disk) /\ Intended' = mem'
  BY <1>1 DEF Saved, Booted, Intended
<1>3. is_legal_property_name(prop_key) /\ Len(Value) < ValueMax /\ Value \in Text
  <2>1. CASE pc = "put"
    BY <2>1 DEF StoreInv, WritesPersistent
  <2>2. CASE pc = "set" /\ Goes
    <3>1. Value \in Text /\ is_legal_property_name(prop_key) /\ ~(Len(Value) >= ValueMax)
      BY <2>2, ValueIsText DEF StoreInv, Goes, GivesUp
    <3>2. Len(Value) < ValueMax
      BY <3>1, FitsOrNot
    <3> QED
      BY <3>1, <3>2
  <2> QED
    BY <1>1, <2>1, <2>2 DEF PutsNow
<1>4. \/ pc = "put" /\ IsPersistent(prop_key)
      \/ pc = "set" /\ ~IsPersistent(prop_key)
  BY <1>1 DEF PutsNow, StoreInv, WritesPersistent
<1>5. tainted \in BOOLEAN
  BY DEF StoreInv, TypeOK
<1>6. ~tainted => Persistent(Saved(disk)) = Persistent(Intended)
  BY <1>4 DEF StoreInv, FileFollowsMemory
<1>7. CASE SetPuts
  <2>1. mem' = TreeWithPut /\ tainted' = tainted
    BY <1>7 DEF SetPuts
  <2>2. TypeOK'
    BY <1>1, <1>3, <2>1 DEF StoreInv, TypeOK, TreeWithPut
  <2>3. Trimmed'
    BY <1>1, <1>4, <2>1 DEF StoreInv, Trimmed, TreeWithPut
  <2>4. Persistent(TreeWithPut) = Persistent(Intended)
    BY <1>4, OthersArePersistent DEF Intended
  <2>5. FileFollowsMemory'
    BY <1>2, <1>6, <2>1, <2>4 DEF FileFollowsMemory, Persistent
  <2> QED
    BY <1>1, <2>2, <2>3, <2>5 DEF StoreInv, WritesPersistent, ReadFollowsMemory, RewriteInBounds
<1>8. CASE SetDropped
  <2>1. mem' = mem
    BY <1>8 DEF SetDropped
  <2>2. tainted' \in BOOLEAN /\ (~tainted' => ~tainted /\ ~IsPersistent(prop_key))
    BY <1>5, <1>8, Zenon DEF SetDropped
  <2>3. TypeOK' /\ Trimmed'
    BY <1>1, <2>1, <2>2 DEF StoreInv, TypeOK, Trimmed
  <2>4. ~tainted' => Persistent(Saved(disk)) = Persistent(mem)
    BY <1>4, <1>6, <2>2 DEF Intended
  <2>5. FileFollowsMemory'
    BY <1>2, <2>1, <2>4 DEF FileFollowsMemory, Persistent
  <2> QED
    BY <1>1, <2>3, <2>5 DEF StoreInv, WritesPersistent, ReadFollowsMemory, RewriteInBounds
<1> QED
  BY <1>7, <1>8

\* load_all_props, the commands and every step of set_property keep the names, the
\* values, the tree and the file as StoreInv has them, whatever the files hold.
THEOREM StoreKept == Spec => []StoreInv
<1>1. Init => StoreInv
  BY InitInv
<1>2. StoreInv /\ [Next]_vars => StoreInv'
  <2> SUFFICES ASSUME StoreInv, [Next]_vars PROVE StoreInv'
    OBVIOUS
  <2>1. CASE Reboot
    BY <2>1, RebootInv
  <2>2. CASE CmdList \/ CmdSetUsage \/ SetRefused \/ SetGivesUp
    BY <2>2, CommandInv
  <2>3. ASSUME NEW k \in Keys, CmdGet(k) PROVE StoreInv'
    BY <2>3, GetInv
  <2>4. ASSUME NEW k \in Keys, NEW v \in Values, NEW rest \in Leftovers, CmdSet(k, v, rest)
        PROVE  StoreInv'
    BY <2>4, CommandInv
  <2>5. CASE SetTruncates
    BY <2>5, TruncatesInv
  <2>6. CASE SetWithoutFile \/ SetOverruns
    BY <2>6, CrashInv
  <2>7. CASE SetAppends
    BY <2>7, AppendsInv
  <2>8. CASE SetRewrites
    BY <2>8, RewritesInv
  <2>9. CASE SetPuts \/ SetDropped
    BY <2>9, PutsInv
  <2>10. CASE UNCHANGED vars
    BY <2>10 DEF vars, StoreInv, TypeOK, Trimmed, WritesPersistent, ReadFollowsMemory,
                 FileFollowsMemory, RewriteInBounds, Booted, Saved, Persistent, Intended,
                 TreeWithPut, Value
  <2> QED
    BY <2>1, <2>2, <2>3, <2>4, <2>5, <2>6, <2>7, <2>8, <2>9, <2>10 DEF Next
<1> QED
  BY <1>1, <1>2, PTL DEF Spec

\* Every value in the tree is text that load_properties has trimmed or the shell has
\* typed, shorter than PROP_VALUE_MAX, and its name is legal.
THEOREM StoreTypes == Spec => []TypeOK
<1>1. StoreInv => TypeOK
  BY DEF StoreInv
<1> QED
  BY <1>1, StoreKept, PTL

\* On its way to the file and, through it, to the tree is only a persistent property
\* with a legal name and a value that __system_property_set has let pass.
THEOREM PersistentOnItsWay == Spec => []WritesPersistent
<1>1. StoreInv => WritesPersistent
  BY DEF StoreInv
<1> QED
  BY <1>1, StoreKept, PTL

\* What set_property has written is what the next boot reads (op_prop_file and
\* load_properties), whatever the file looked like, for as long as every set found
\* its line, or a last line that had ended, and the pool took the value.
THEOREM RebootsToTheTree == Spec => []FileFollowsMemory
<1>1. StoreInv => FileFollowsMemory
  BY DEF StoreInv
<1> QED
  BY <1>1, StoreKept, PTL

\* op_prop_file's lengths are wrong only where it has hit something else than the
\* line of the property.
THEOREM RewritesWhatIsThere == Spec => []RewriteInBounds
<1>1. StoreInv => RewriteInBounds
  BY DEF StoreInv
<1> QED
  BY <1>1, StoreKept, PTL

\* A longer string in the buffer begins with the value that strncpy has put there,
\* and goes on with what was there.
LEMMA ShowsOver ==
    ASSUME NEW buf \in Buffers, NEW v \in Text, Len(v) <= ValueMax
    PROVE  LET shown == StringIn(Overlaid(v, buf))
           IN  /\ Len(v) <= Len(shown) /\ Len(shown) <= ValueMax
               /\ \A i \in 1..Len(shown) :
                     shown[i] = IF i <= Len(v) THEN v[i] ELSE buf[i]
               /\ \A i \in 1..Len(shown) : i > Len(v) => buf[i] # Nul
<1> DEFINE r == Overlaid(v, buf)
<1>1. ValueMax \in Nat /\ Len(v) \in Nat
  BY TextAssumption, LenProperties DEF Text
<1>2. \A i \in 1..Len(v) : v[i] # Nul
  <2>1. \A i \in 1..Len(v) : v[i] \in Tokens
    BY ElementOfSeq DEF Text
  <2> QED
    BY <2>1, StoreAssumption
<1>3. \A i \in 1..ValueMax : r[i] = IF i <= Len(v) THEN v[i] ELSE buf[i]
  BY DEF Overlaid
<1>4. r \in Buffers
  BY StillBuffers
<1> HIDE DEF r
<1>5. PICK n \in 0..ValueMax : EndsAt(r, n)
  BY <1>4, StringIs
<1>6. /\ Len(StringIn(r)) = n /\ \A i \in 1..n : StringIn(r)[i] = r[i] /\ r[i] # Nul
      /\ n < ValueMax => r[n + 1] = Nul
  BY <1>5 DEF EndsAt
<1>7. Len(v) <= n
  <2> SUFFICES ASSUME n < Len(v) PROVE FALSE
    BY <1>1, <1>5
  <2>1. n + 1 \in 1..ValueMax /\ n + 1 \in 1..Len(v) /\ n < ValueMax
    BY <1>1, <1>5
  <2> QED
    BY <1>2, <1>3, <1>6, <2>1
<1>8. \A i \in 1..n : StringIn(r)[i] = IF i <= Len(v) THEN v[i] ELSE buf[i]
  BY <1>1, <1>3, <1>5, <1>6
<1>9. \A i \in 1..n : i > Len(v) => buf[i] # Nul
  BY <1>1, <1>3, <1>5, <1>6
<1> QED
  BY <1>5, <1>6, <1>7, <1>8, <1>9 DEF r

\* After the memset the string is empty, and every byte is what it was or a terminator.
LEMMA ClearedIs ==
    ASSUME NEW buf \in Buffers
    PROVE  /\ StringIn(Cleared(buf)) = <<>>
           /\ \A i \in 1..ValueMax : Cleared(buf)[i] \in {Nul, buf[i]}
<1> DEFINE c == Cleared(buf)
<1>1. ValueMax \in Nat
  BY TextAssumption
<1>2. \A i \in 1..ValueMax : c[i] = IF i <= Len(StringIn(buf)) THEN Nul ELSE buf[i]
  BY DEF Cleared
<1>3. c \in Buffers
  <2>1. <<>> \in Text
    BY DEF Text
  <2> QED
    BY <2>1, StillBuffers
<1> HIDE DEF c
<1>4. PICK n \in 0..ValueMax : EndsAt(buf, n)
  BY StringIs
<1>5. Len(StringIn(buf)) = n /\ (n < ValueMax => buf[n + 1] = Nul)
  BY <1>4 DEF EndsAt
<1>6. PICK m \in 0..ValueMax : EndsAt(c, m)
  BY <1>3, StringIs
<1>7. StringIn(c) \in Text /\ Len(StringIn(c)) = m /\ \A i \in 1..m : c[i] # Nul
  BY <1>6 DEF EndsAt
<1>8. m = 0
  <2> SUFFICES ASSUME m # 0 PROVE FALSE
    OBVIOUS
  <2>1. 1 \in 1..m /\ 1 \in 1..ValueMax /\ 0 < ValueMax
    BY <1>1, <1>6
  <2>2. c[1] = Nul
    BY <1>1, <1>2, <1>4, <1>5, <2>1
  <2> QED
    BY <1>7, <2>1, <2>2
<1>9. StringIn(c) = <<>>
  BY <1>7, <1>8, EmptySeq DEF Text
<1> QED
  BY <1>2, <1>9 DEF c

\* What is in the buffer already is not changed by copying it there once more.
LEMMA OverlaidSame ==
    ASSUME NEW buf \in Buffers PROVE Overlaid(StringIn(buf), buf) = buf
<1>1. PICK n \in 0..ValueMax : EndsAt(buf, n)
  BY StringIs
<1>2. Len(StringIn(buf)) = n /\ \A i \in 1..n : StringIn(buf)[i] = buf[i]
  BY <1>1 DEF EndsAt
<1>3. ValueMax \in Nat
  BY TextAssumption
<1>4. \A i \in 1..ValueMax : buf[i] = IF i <= n THEN StringIn(buf)[i] ELSE buf[i]
  BY <1>1, <1>2, <1>3
<1>5. buf = [i \in 1..ValueMax |-> IF i <= n THEN StringIn(buf)[i] ELSE buf[i]]
  BY <1>4 DEF Buffers
<1> QED
  BY <1>2, <1>5 DEF Overlaid

\* The name that a get has cleared is the name of nothing.
LEMMA NothingUnderNoName ==
    ASSUME TypeOK PROVE ~Stored(<<>>) /\ ReadOnlyTwin(<<>>) = <<>> /\ Owed(<<>>) = <<>>
<1>1. ~Stored(<<>>)
  <2>1. ~is_legal_property_name(<<>>)
    BY EmptySeq DEF is_legal_property_name
  <2> QED
    BY <2>1 DEF TypeOK, Stored
<1>2. ReadOnlyTwin(<<>>) = <<>>
  BY DEF ReadOnlyTwin, IsPersistent, Prefixed
<1> QED
  BY <1>1, <1>2 DEF Owed

\* What get_property prints after a get begins with the value it owes, whatever
\* was in the static buffer and whatever its names are; a tail is what was there
\* at that place before, and nothing is printed for what is not there.
LEMMA GetShows ==
    ASSUME StoreInv, NEW k \in Keys, CmdGet(k)
    PROVE  LET owed == Owed(prop_key')
               shown == StringIn(prop_value')
           IN  /\ Len(owed) <= Len(shown)
               /\ \A i \in 1..Len(shown) :
                     shown[i] = IF i <= Len(owed) THEN owed[i] ELSE prop_value[i]
               /\ Stored(k) \/ Stored(ReadOnlyTwin(prop_key')) \/ shown = <<>>
<1>1. /\ TypeOK /\ prop_value \in Buffers
      /\ \A x \in DOMAIN mem : mem[x] \in Text /\ Len(mem[x]) < ValueMax
  BY DEF StoreInv, TypeOK, Buffers
<1>2. \A x \in DOMAIN mem : mem[x] \in Text /\ Len(mem[x]) <= ValueMax
  <2>1. \A x \in DOMAIN mem : Len(mem[x]) \in Nat
    BY <1>1, LenProperties DEF Text
  <2>2. ValueMax \in Nat
    BY TextAssumption
  <2> QED
    BY <1>1, <2>1, <2>2
<1>3. Cleared(prop_value) \in Buffers /\ Zeroed \in Buffers
  <2>1. <<>> \in Text
    BY DEF Text
  <2> QED
    BY <1>1, <2>1, StillBuffers
<1> DEFINE owed == Owed(prop_key')  shown == StringIn(prop_value')  twin == ReadOnlyTwin(k)
<1>4. CASE Stored(k)
  <2>1. prop_key' = k /\ prop_value' = Overlaid(mem[k], prop_value)
    BY <1>4 DEF CmdGet, GetResult
  <2>2. owed = mem[k] /\ shown = StringIn(Overlaid(mem[k], prop_value))
    BY <1>4, <2>1 DEF Owed
  <2>3. mem[k] \in Text /\ Len(mem[k]) <= ValueMax
    BY <1>2, <1>4 DEF Stored
  <2> HIDE DEF owed, shown
  <2>4. /\ Len(owed) <= Len(shown)
        /\ \A i \in 1..Len(shown) :
              shown[i] = IF i <= Len(owed) THEN owed[i] ELSE prop_value[i]
    BY <1>1, <2>2, <2>3, ShowsOver
  <2> QED
    BY <1>4, <2>4 DEF owed, shown
<1>5. CASE ~Stored(k) /\ Stored(twin) /\ prop_key' = k /\ prop_value' = GetResult(k)
  <2>1. owed = mem[twin] /\ shown = StringIn(Overlaid(mem[twin], Cleared(prop_value)))
    BY <1>5 DEF Owed, GetResult
  <2>2. mem[twin] \in Text /\ Len(mem[twin]) <= ValueMax
    BY <1>2, <1>5 DEF Stored
  <2> HIDE DEF owed, shown
  <2>3. /\ Len(owed) <= Len(shown) /\ Len(shown) <= ValueMax
        /\ \A i \in 1..Len(shown) :
              shown[i] = IF i <= Len(owed) THEN owed[i] ELSE Cleared(prop_value)[i]
        /\ \A i \in 1..Len(shown) : i > Len(owed) => Cleared(prop_value)[i] # Nul
    BY <1>3, <2>1, <2>2, ShowsOver
  <2>4. \A i \in 1..ValueMax : Cleared(prop_value)[i] \in {Nul, prop_value[i]}
    BY <1>1, ClearedIs
  <2>5. Len(owed) \in Nat /\ Len(shown) \in Nat /\ ValueMax \in Nat
    <3>1. owed \in Text /\ shown \in Text
      BY <1>3, <2>1, <2>2, StillBuffers, ValueIs
    <3> QED
      BY <3>1, TextAssumption, LenProperties DEF Text
  <2>6. \A i \in 1..Len(shown) :
           shown[i] = IF i <= Len(owed) THEN owed[i] ELSE prop_value[i]
    BY <2>3, <2>4, <2>5
  <2> QED
    BY <1>5, <2>3, <2>6 DEF owed, shown
<1>6. CASE ~Stored(k) /\ ~Stored(twin) /\ prop_key' = k /\ prop_value' = GetResult(k)
  <2>1. owed = <<>> /\ shown = StringIn(Cleared(prop_value))
    BY <1>6 DEF Owed, GetResult
  <2>2. shown = <<>>
    BY <1>1, <2>1, ClearedIs
  <2> HIDE DEF owed, shown
  <2> QED
    BY <2>1, <2>2, EmptySeq DEF owed, shown
<1>7. CASE prop_key' = <<>> /\ prop_value' = Zeroed
  <2>1. owed = <<>>
    BY <1>1, <1>7, NothingUnderNoName
  <2>2. shown = <<>>
    <3>1. PICK m \in 0..ValueMax : EndsAt(Zeroed, m)
      BY <1>3, StringIs
    <3>2. \A i \in 1..m : Zeroed[i] # Nul
      BY <3>1 DEF EndsAt
    <3>3. \A i \in 1..ValueMax : Zeroed[i] = Nul
      BY DEF Zeroed
    <3>4. m = 0
      <4> SUFFICES ASSUME m # 0 PROVE FALSE
        OBVIOUS
      <4>1. ValueMax \in Nat
        BY TextAssumption
      <4>2. m \in 0..ValueMax
        BY <3>1
      <4>3. 1 \in 1..m /\ 1 \in 1..ValueMax
        BY <4>1, <4>2
      <4> QED
        BY <3>2, <3>3, <4>3
    <3>5. shown \in Text /\ Len(shown) = 0
      BY <1>7, <3>1, <3>4 DEF EndsAt
    <3> QED
      BY <3>5, EmptySeq DEF Text
  <2> HIDE DEF owed, shown
  <2> QED
    BY <2>1, <2>2, EmptySeq DEF owed, shown
<1> QED
  BY <1>4, <1>5, <1>6, <1>7 DEF CmdGet

\* A set that has reached the tree leaves its value in the buffer, and a get of
\* the name shows it as it is, whatever lay behind the typed word.
LEMMA SetShows == ASSUME StoreInv, SetPuts PROVE (Shown(prop_key) = Owed(prop_key))'
<1>1. prop_value \in Buffers
  BY DEF StoreInv, TypeOK, Buffers
<1>2. /\ prop_key' = prop_key /\ prop_value' = prop_value
      /\ prop_key \in DOMAIN mem' /\ mem'[prop_key] = Value
  BY DEF SetPuts, TreeWithPut
<1>3. Owed(prop_key)' = Value
  BY <1>2 DEF Owed, Stored
<1>4. GetResult(prop_key)' = Overlaid(Value, prop_value)
  BY <1>2 DEF GetResult, Stored
<1>5. Shown(prop_key)' = StringIn(Overlaid(Value, prop_value))
  BY <1>4 DEF Shown
<1>6. Overlaid(Value, prop_value) = prop_value
  BY <1>1, OverlaidSame DEF Value
<1> QED
  BY <1>3, <1>5, <1>6 DEF Value

\* The shell shows what it owes, over every sequence of commands, reboots and steps
\* of set_property: __system_property_get copies a value without its terminator
\* into a static buffer, into which property_cmd.c has copied bytes that nobody
\* typed, so that a tail may follow; it is never older or other than what stood
\* there, and never in the value's place.
THEOREM ShowsWhatIsOwed == Spec => GetShowsTheValue
<1> DEFINE Shows == /\ \A k \in Keys : CmdGet(k) =>
                          LET owed == Owed(prop_key')
                              shown == StringIn(prop_value')
                          IN  /\ Len(owed) <= Len(shown)
                              /\ \A i \in 1..Len(shown) :
                                    shown[i] = IF i <= Len(owed) THEN owed[i] ELSE prop_value[i]
                              /\ Stored(k) \/ Stored(ReadOnlyTwin(prop_key')) \/ shown = <<>>
                    /\ SetPuts => (Shown(prop_key) = Owed(prop_key))'
<1>1. StoreInv => Shows
  BY GetShows, SetShows
<1> QED
  BY <1>1, StoreKept, PTL DEF Spec, GetShowsTheValue

\* No name is both persistent and read-only: its first token is the one or the
\* other.
LEMMA PrefixesDiffer == ASSUME NEW k, IsPersistent(k) PROVE ~IsReadOnly(k)
BY DEF IsPersistent, IsReadOnly, Prefixed

\* set_property reaches the tree with a read-only property only if it is not
\* there yet: __system_property_set has tested it, in the same step or before
\* the file was written.
LEMMA PutsNothingReadOnly ==
    ASSUME StoreInv, SetPuts, Stored(prop_key) PROVE ~IsReadOnly(prop_key)
<1>1. CASE pc = "put"
  BY <1>1, PrefixesDiffer DEF StoreInv, WritesPersistent
<1>2. CASE pc = "set" /\ Goes
  BY <1>2 DEF Goes, GivesUp
<1> QED
  BY <1>1, <1>2 DEF SetPuts, PutsNow

\* Between two boots no command, and no step of set_property under it, changes
\* or removes a read-only property that is there (__system_property_set refuses
\* it), whatever the files and the names are.
THEOREM ReadOnlyProperties == Spec => ReadOnlyKept
<1> DEFINE Kept == \A k \in DOMAIN mem : IsReadOnly(k) =>
                      k \in DOMAIN mem' /\ mem'[k] = mem[k]
<1>1. StoreInv /\ [Next]_vars => [Kept \/ Reboot]_vars
  <2> SUFFICES ASSUME StoreInv, Next, ~Reboot PROVE Kept
    OBVIOUS
  <2>1. CASE UNCHANGED mem
    BY <2>1
  <2>2. CASE SetPuts
    <3> SUFFICES ASSUME NEW k \in DOMAIN mem, IsReadOnly(k)
                 PROVE k \in DOMAIN mem' /\ mem'[k] = mem[k]
      OBVIOUS
    <3>1. k # prop_key
      BY <2>2, PutsNothingReadOnly DEF Stored
    <3> QED
      BY <2>2, <3>1 DEF SetPuts, TreeWithPut
  <2>3. CASE ~SetPuts
    <3>1. UNCHANGED mem
      BY <2>3 DEF Next, CmdList, CmdSetUsage, CmdGet, CmdSet, SetRefused, SetGivesUp,
                  SetTruncates, SetWithoutFile, SetAppends, SetRewrites, SetOverruns,
                  SetDropped
    <3> QED
      BY <3>1
  <2> QED
    BY <2>2, <2>3
<1> QED
  BY <1>1, StoreKept, PTL DEF Spec, ReadOnlyKept
=============================================================================
