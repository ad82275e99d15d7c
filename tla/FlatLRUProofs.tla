--------------------------- MODULE FlatLRUProofs ---------------------------
(***************************************************************************)
(* What flat_lru guarantees for any keys, any data and any capacity: the   *)
(* vector stays sorted, its ranks are the order of use, an entry lost is   *)
(* the one used least recently, and the whole implements LossyMap.         *)
(***************************************************************************)
EXTENDS FlatLRU, TLAPS, WellFoundedInduction, SequenceTheorems

Sorted(c) == \A i, j \in DOMAIN c : i < j => c[i].key < c[j].key

-----------------------------------------------------------------------------
(* Searching *)

\* A set of natural numbers has a least element.
LEMMA LeastNatural ==
    ASSUME NEW T \in SUBSET Nat, T # {}
    PROVE  \E n \in T : \A m \in T : n <= m
<1> DEFINE R == OpToRel(<, Nat)
<1>1. \A m, n \in Nat : m < n => <<m, n>> \in R  BY DEF OpToRel
<1>2. IsWellFoundedOn(R, Nat)  BY NatLessThanWellFounded
<1> HIDE DEF R
<1>3. PICK n \in T : \A m \in T : <<m, n>> \notin R  BY <1>2, WFMin
<1>4. \A m \in T : ~(m < n)  BY <1>1, <1>3
<1> QED  BY <1>3, <1>4

\* std::ranges::lower_bound finds a position in any vector.
LEMMA LowerBoundIs ==
    ASSUME NEW c \in Seq(Entries), NEW k \in Keys
    PROVE  /\ LowerBound(c, k) \in 1..(Len(c) + 1)
           /\ \A j \in 1..(LowerBound(c, k) - 1) : c[j].key < k
           /\ LowerBound(c, k) <= Len(c) => c[LowerBound(c, k)].key >= k
<1>1. Len(c) \in Nat /\ k \in Nat  BY KeysAssumption
<1>2. \A j \in 1..Len(c) : c[j].key \in Nat
  <2>1. \A j \in 1..Len(c) : c[j] \in Entries  OBVIOUS
  <2> QED  BY <2>1, KeysAssumption DEF Entries
<1> DEFINE P(i) == i <= Len(c) => c[i].key >= k
           T == {i \in 1..(Len(c) + 1) : P(i)}
<1>3. T \in SUBSET Nat /\ T # {}
  <2>1. Len(c) + 1 \in T  BY <1>1
  <2> QED  BY <2>1
<1>4. PICK i \in T : \A m \in T : i <= m
  <2> HIDE DEF T
  <2> QED  BY <1>3, LeastNatural
<1>5. \A j \in 1..(i - 1) : c[j].key < k
  <2> SUFFICES ASSUME NEW j \in 1..(i - 1) PROVE c[j].key < k
    OBVIOUS
  <2>1. j \in 1..Len(c) /\ j < i  BY <1>1, <1>4
  <2>2. j \notin T  BY <1>1, <1>4, <2>1
  <2>3. ~(c[j].key >= k)  BY <1>1, <2>1, <2>2
  <2> QED  BY <1>1, <1>2, <2>1, <2>3
<1>6. i \in 1..(Len(c) + 1) /\ P(i)  BY <1>4
<1> QED  BY <1>5, <1>6 DEF LowerBound

\* In a sorted vector a key is found where it is.
LEMMA HitIs ==
    ASSUME NEW c \in Seq(Entries), Sorted(c), NEW k \in Keys
    PROVE  /\ \A m \in DOMAIN c : c[m].key = k => m = LowerBound(c, k)
           /\ Hit(c, k) <=> \E m \in DOMAIN c : c[m].key = k /\ IsValid(c[m])
<1> DEFINE i == LowerBound(c, k)
<1>1. /\ i \in 1..(Len(c) + 1) /\ \A j \in 1..(i - 1) : c[j].key < k
      /\ i <= Len(c) => c[i].key >= k
  BY LowerBoundIs
<1>2. DOMAIN c = 1..Len(c) /\ Len(c) \in Nat  OBVIOUS
<1>3. \A j \in 1..Len(c) : c[j].key \in Nat
  <2>1. \A j \in 1..Len(c) : c[j] \in Entries  OBVIOUS
  <2> QED  BY <2>1, KeysAssumption DEF Entries
<1> HIDE DEF i
<1>4. ASSUME NEW m \in DOMAIN c, c[m].key = k PROVE m = i
  <2>1. k \in Nat  BY KeysAssumption
  <2>2. ~(m < i)
    <3> SUFFICES ASSUME m < i PROVE FALSE
      OBVIOUS
    <3>1. m \in 1..(i - 1)  BY <1>1, <1>2
    <3>2. c[m].key < k  BY <1>1, <3>1
    <3> QED  BY <1>4, <2>1, <3>2
  <2>3. ~(i < m)
    <3> SUFFICES ASSUME i < m PROVE FALSE
      OBVIOUS
    <3>1. i \in DOMAIN c /\ i <= Len(c)  BY <1>1, <1>2
    <3>2. c[i].key < c[m].key  BY <3>1 DEF Sorted
    <3>3. c[i].key >= k /\ c[i].key \in Nat  BY <1>1, <1>2, <1>3, <3>1
    <3> QED  BY <1>4, <2>1, <3>2, <3>3
  <2> QED  BY <1>1, <1>2, <2>2, <2>3
<1>5. Hit(c, k) <=> i \in DOMAIN c /\ c[i].key = k /\ IsValid(c[i])
  BY DEF Hit, i
<1> QED  BY <1>4, <1>5 DEF i

\* The entry to evict has the greatest rank.
LEMMA EvictIndexIs ==
    ASSUME NEW c \in Seq(Entries), c # <<>>
    PROVE  /\ EvictIndex(c) \in DOMAIN c
           /\ \A j \in DOMAIN c : c[j].refs <= c[EvictIndex(c)].refs
<1>1. DOMAIN c = 1..Len(c) /\ Len(c) \in Nat /\ Len(c) # 0  OBVIOUS
<1>a. 1 \in DOMAIN c  BY <1>1
<1>2. \A j \in DOMAIN c : c[j].refs \in 0..LenMax
  <2>1. \A j \in DOMAIN c : c[j] \in Entries  OBVIOUS
  <2> QED  BY <2>1 DEF Entries
<1>3. LenMax \in Nat  BY LenMaxAssumption
<1> DEFINE R == {LenMax - c[j].refs : j \in DOMAIN c}
<1>4. PICK n \in R : \A m \in R : n <= m
  <2>1. R \in SUBSET Nat  BY <1>2, <1>3
  <2>2. R # {}  BY <1>a
  <2> HIDE DEF R
  <2> QED  BY <2>1, <2>2, LeastNatural
<1> DEFINE T == {j \in DOMAIN c : LenMax - c[j].refs = n}
<1>5. PICK i \in T : \A m \in T : i <= m
  <2>1. T \in SUBSET Nat  BY <1>1
  <2>2. T # {}  BY <1>4
  <2> HIDE DEF T
  <2> QED  BY <2>1, <2>2, LeastNatural
<1>6. ASSUME NEW j \in DOMAIN c
      PROVE  c[j].refs <= c[i].refs /\ (c[j].refs = c[i].refs => i <= j)
  <2>1. n <= LenMax - c[j].refs  BY <1>4
  <2>2. i \in DOMAIN c /\ n = LenMax - c[i].refs  BY <1>5
  <2>3. c[i].refs \in Nat /\ c[j].refs \in Nat  BY <1>2, <2>2
  <2>4. c[j].refs <= c[i].refs  BY <1>3, <2>1, <2>2, <2>3
  <2>5. ASSUME c[j].refs = c[i].refs PROVE i <= j
    <3>1. j \in T  BY <2>2, <2>5
    <3> QED  BY <1>5, <3>1
  <2> QED  BY <2>4, <2>5
<1>7. i \in DOMAIN c  BY <1>5
<1> DEFINE Q(e) == \A j \in DOMAIN c :
                      c[j].refs <= c[e].refs /\ (c[j].refs = c[e].refs => e <= j)
<1>8. Q(i)  BY <1>6
<1>9. EvictIndex(c) = CHOOSE e \in DOMAIN c : Q(e)  BY DEF EvictIndex
<1> HIDE DEF Q
<1>10. EvictIndex(c) \in DOMAIN c /\ Q(EvictIndex(c))  BY <1>7, <1>8, <1>9
<1> QED  BY <1>10 DEF Q

-----------------------------------------------------------------------------
(* Moving entries *)

\* d is c with e put at n: what follows moves up.
Inserted(S, c, n, e, d) ==
    /\ d \in Seq(S) /\ Len(d) = Len(c) + 1 /\ d[n] = e
    /\ \A j \in 1..(n - 1) : d[j] = c[j]
    /\ \A j \in (n + 1)..(Len(c) + 1) : d[j] = c[j - 1]

\* vector::emplace
LEMMA InsertAtIs ==
    ASSUME NEW S, NEW c \in Seq(S), NEW n \in 1..(Len(c) + 1), NEW e \in S
    PROVE  Inserted(S, c, n, e, InsertAt(c, n, e))
<1> DEFINE a == SubSeq(c, 1, n - 1)
           z == SubSeq(c, n, Len(c))
           b == <<e>>
           ab == a \o b
<1>1. Len(c) \in Nat /\ n \in Int /\ n - 1 \in Nat  OBVIOUS
<1>2. /\ a \in Seq(S) /\ Len(a) = n - 1
      /\ \A j \in 1..(n - 1) : a[j] = c[j]
  <2>1. \A j \in 1..(n - 1) : c[j] \in S  BY <1>1
  <2>2. /\ a \in Seq(S) /\ Len(a) = IF 1 <= n - 1 THEN n - 1 - 1 + 1 ELSE 0
        /\ \A j \in 1..(n - 1 - 1 + 1) : a[j] = c[1 + j - 1]
    BY <1>1, <2>1, SubSeqProperties
  <2>3. Len(a) = n - 1  BY <1>1, <2>2
  <2>4. \A j \in 1..(n - 1) : a[j] = c[j]
    <3> SUFFICES ASSUME NEW j \in 1..(n - 1) PROVE a[j] = c[j]
      OBVIOUS
    <3>1. j \in 1..(n - 1 - 1 + 1) /\ 1 + j - 1 = j  BY <1>1
    <3> HIDE DEF a
    <3> QED  BY <2>2, <3>1
  <2> QED  BY <2>2, <2>3, <2>4
<1>3. /\ z \in Seq(S) /\ Len(z) = Len(c) - n + 1
      /\ \A j \in 1..(Len(c) - n + 1) : z[j] = c[n + j - 1]
  <2>1. \A j \in n..Len(c) : c[j] \in S  BY <1>1
  <2>2. /\ z \in Seq(S) /\ Len(z) = IF n <= Len(c) THEN Len(c) - n + 1 ELSE 0
        /\ \A j \in 1..(Len(c) - n + 1) : z[j] = c[n + j - 1]
    BY <1>1, <2>1, SubSeqProperties
  <2> QED  BY <1>1, <2>2
<1>4. b \in Seq(S) /\ Len(b) = 1 /\ b[1] = e  OBVIOUS
<1> HIDE DEF a, b, z
<1>5. /\ ab \in Seq(S) /\ Len(ab) = n
      /\ ab[n] = e /\ \A j \in 1..(n - 1) : ab[j] = c[j]
  <2>1. /\ a \o b \in Seq(S) /\ Len(a \o b) = Len(a) + Len(b)
        /\ \A i \in 1..(Len(a) + Len(b)) :
              (a \o b)[i] = IF i <= Len(a) THEN a[i] ELSE b[i - Len(a)]
    BY <1>2, <1>4, ConcatProperties
  <2>2. Len(a) + Len(b) = n /\ n - Len(a) = 1 /\ n \in 1..n /\ ~(n <= Len(a))
    BY <1>1, <1>2, <1>4
  <2>3. ab[n] = e  BY <1>4, <2>1, <2>2
  <2>4. ASSUME NEW j \in 1..(n - 1) PROVE ab[j] = c[j]
    <3>1. j \in 1..n /\ j <= Len(a)  BY <1>1, <1>2
    <3> QED  BY <1>2, <2>1, <2>2, <3>1
  <2> QED  BY <2>1, <2>2, <2>3, <2>4
<1> HIDE DEF ab
<1>6. /\ ab \o z \in Seq(S) /\ Len(ab \o z) = Len(ab) + Len(z)
      /\ \A i \in 1..(Len(ab) + Len(z)) :
            (ab \o z)[i] = IF i <= Len(ab) THEN ab[i] ELSE z[i - Len(ab)]
  BY <1>3, <1>5, ConcatProperties
<1>7. InsertAt(c, n, e) = ab \o z  BY DEF InsertAt, ab, a, b, z
<1>8. Len(ab) + Len(z) = Len(c) + 1  BY <1>1, <1>3, <1>5
<1>9. n \in 1..(Len(c) + 1) /\ n <= Len(ab)  BY <1>1, <1>5
<1>10. ASSUME NEW j \in 1..(n - 1) PROVE (ab \o z)[j] = c[j]
  <2>1. j \in 1..(Len(c) + 1) /\ j <= Len(ab)  BY <1>1, <1>5
  <2> QED  BY <1>5, <1>6, <1>8, <2>1
<1>11. ASSUME NEW j \in (n + 1)..(Len(c) + 1) PROVE (ab \o z)[j] = c[j - 1]
  <2>1. /\ j \in 1..(Len(c) + 1) /\ ~(j <= Len(ab))
        /\ j - Len(ab) \in 1..(Len(c) - n + 1) /\ n + (j - Len(ab)) - 1 = j - 1
    BY <1>1, <1>5
  <2> QED  BY <1>3, <1>6, <1>8, <2>1
<1> QED  BY <1>5, <1>6, <1>7, <1>8, <1>9, <1>10, <1>11 DEF Inserted

\* Taking an entry out: what follows it moves down.
LEMMA RemoveAtIs ==
    ASSUME NEW S, NEW c \in Seq(S), NEW e \in 1..Len(c)
    PROVE  /\ RemoveAt(c, e) \in Seq(S) /\ Len(RemoveAt(c, e)) = Len(c) - 1
           /\ \A j \in 1..(e - 1) : RemoveAt(c, e)[j] = c[j]
           /\ \A j \in e..(Len(c) - 1) : RemoveAt(c, e)[j] = c[j + 1]
<1> DEFINE a == SubSeq(c, 1, e - 1)
           z == SubSeq(c, e + 1, Len(c))
<1>1. Len(c) \in Nat /\ e \in Int /\ e - 1 \in Nat  OBVIOUS
<1>2. /\ a \in Seq(S) /\ Len(a) = e - 1
      /\ \A j \in 1..(e - 1) : a[j] = c[j]
  <2>1. \A j \in 1..(e - 1) : c[j] \in S  BY <1>1
  <2>2. /\ a \in Seq(S) /\ Len(a) = IF 1 <= e - 1 THEN e - 1 - 1 + 1 ELSE 0
        /\ \A j \in 1..(e - 1 - 1 + 1) : a[j] = c[1 + j - 1]
    BY <1>1, <2>1, SubSeqProperties
  <2>3. Len(a) = e - 1  BY <1>1, <2>2
  <2>4. \A j \in 1..(e - 1) : a[j] = c[j]
    <3> SUFFICES ASSUME NEW j \in 1..(e - 1) PROVE a[j] = c[j]
      OBVIOUS
    <3>1. j \in 1..(e - 1 - 1 + 1) /\ 1 + j - 1 = j  BY <1>1
    <3> HIDE DEF a
    <3> QED  BY <2>2, <3>1
  <2> QED  BY <2>2, <2>3, <2>4
<1>3. /\ z \in Seq(S) /\ Len(z) = Len(c) - e
      /\ \A j \in 1..(Len(c) - e) : z[j] = c[e + j]
  <2>1. \A j \in (e + 1)..Len(c) : c[j] \in S  BY <1>1
  <2>2. e + 1 \in Int  BY <1>1
  <2>3. /\ z \in Seq(S)
        /\ Len(z) = IF e + 1 <= Len(c) THEN Len(c) - (e + 1) + 1 ELSE 0
        /\ \A j \in 1..(Len(c) - (e + 1) + 1) : z[j] = c[(e + 1) + j - 1]
    BY <1>1, <2>1, <2>2, SubSeqProperties
  <2>4. Len(z) = Len(c) - e  BY <1>1, <2>3
  <2>5. \A j \in 1..(Len(c) - e) : z[j] = c[e + j]
    <3> SUFFICES ASSUME NEW j \in 1..(Len(c) - e) PROVE z[j] = c[e + j]
      OBVIOUS
    <3>1. j \in 1..(Len(c) - (e + 1) + 1) /\ (e + 1) + j - 1 = e + j  BY <1>1
    <3> HIDE DEF z
    <3> QED  BY <2>3, <3>1
  <2> QED  BY <2>3, <2>4, <2>5
<1> HIDE DEF a, z
<1>4. /\ a \o z \in Seq(S) /\ Len(a \o z) = Len(a) + Len(z)
      /\ \A i \in 1..(Len(a) + Len(z)) :
            (a \o z)[i] = IF i <= Len(a) THEN a[i] ELSE z[i - Len(a)]
  BY <1>2, <1>3, ConcatProperties
<1>5. RemoveAt(c, e) = a \o z  BY DEF RemoveAt, a, z
<1>6. Len(a) + Len(z) = Len(c) - 1  BY <1>1, <1>2, <1>3
<1>7. ASSUME NEW j \in 1..(e - 1) PROVE (a \o z)[j] = c[j]
  <2>1. j \in 1..(Len(c) - 1) /\ j <= Len(a)  BY <1>1, <1>2
  <2> QED  BY <1>2, <1>4, <1>6, <2>1
<1>8. ASSUME NEW j \in e..(Len(c) - 1) PROVE (a \o z)[j] = c[j + 1]
  <2>1. /\ j \in 1..(Len(c) - 1) /\ ~(j <= Len(a))
        /\ j - Len(a) \in 1..(Len(c) - e) /\ e + (j - Len(a)) = j + 1
    BY <1>1, <1>2
  <2> QED  BY <1>3, <1>4, <1>6, <2>1
<1> QED  BY <1>4, <1>5, <1>6, <1>7, <1>8

\* What std::rotate makes of the vector, with the key put into the slot at n: the
\* other entries keep their order, those before n are older ones of before the
\* lower bound i, those after it of i and after.
LEMMA RotatedIs ==
    ASSUME NEW S, NEW c \in Seq(S), NEW e \in 1..Len(c), NEW i \in 1..(Len(c) + 1)
    PROVE  LET n == IF e < i THEN i - 1 ELSE i
               rot == InsertAt(RemoveAt(c, e), n, c[e])
           IN
           /\ rot \in Seq(S) /\ Len(rot) = Len(c) /\ n \in 1..Len(c) /\ rot[n] = c[e]
           /\ \A j \in 1..(n - 1) : rot[j] = c[IF j < e THEN j ELSE j + 1]
           /\ \A j \in (n + 1)..Len(c) : rot[j] = c[IF j <= e THEN j - 1 ELSE j]
<1> DEFINE n == IF e < i THEN i - 1 ELSE i
           x == RemoveAt(c, e)
           v == c[e]
           rot == InsertAt(x, n, v)
<1>1. Len(c) \in Nat /\ Len(c) >= 1 /\ e \in Int /\ i \in Int  OBVIOUS
<1>2. n \in 1..Len(c)  BY <1>1
<1>3. /\ x \in Seq(S) /\ Len(x) = Len(c) - 1
      /\ \A j \in 1..(e - 1) : x[j] = c[j]
      /\ \A j \in e..(Len(c) - 1) : x[j] = c[j + 1]
  BY RemoveAtIs
<1>4. v \in S  OBVIOUS
<1> HIDE DEF x, v, n
<1>5. n \in 1..(Len(x) + 1)  BY <1>1, <1>2, <1>3
<1>6. /\ rot \in Seq(S) /\ Len(rot) = Len(x) + 1 /\ rot[n] = v
      /\ \A j \in 1..(n - 1) : rot[j] = x[j]
      /\ \A j \in (n + 1)..(Len(x) + 1) : rot[j] = x[j - 1]
  <2>1. x \in Seq(S) /\ n \in 1..(Len(x) + 1) /\ v \in S  BY <1>3, <1>4, <1>5
  <2>2. Inserted(S, x, n, v, InsertAt(x, n, v))  BY <2>1, InsertAtIs
  <2> QED  BY <2>2 DEF Inserted
<1> HIDE DEF rot
<1>7. Len(x) + 1 = Len(c)  BY <1>1, <1>3
<1>8. ASSUME NEW j \in 1..(n - 1) PROVE rot[j] = c[IF j < e THEN j ELSE j + 1]
  <2>1. CASE j < e
    <3>1. j \in 1..(e - 1)  BY <1>1, <1>2, <2>1
    <3> QED  BY <1>3, <1>6, <2>1, <3>1
  <2>2. CASE ~(j < e)
    <3>1. j \in e..(Len(c) - 1)  BY <1>1, <1>2, <2>2
    <3> QED  BY <1>3, <1>6, <2>2, <3>1
  <2> QED  BY <2>1, <2>2
<1>9. ASSUME NEW j \in (n + 1)..Len(c) PROVE rot[j] = c[IF j <= e THEN j - 1 ELSE j]
  <2>0. rot[j] = x[j - 1] /\ j \in Int  BY <1>1, <1>2, <1>6, <1>7
  <2>1. CASE j <= e
    <3>1. j - 1 \in 1..(e - 1)  BY <1>1, <1>2, <2>1
    <3> QED  BY <1>3, <2>0, <2>1, <3>1
  <2>2. CASE ~(j <= e)
    <3>1. j - 1 \in e..(Len(c) - 1) /\ (j - 1) + 1 = j  BY <1>1, <1>2, <2>2
    <3>2. x[j - 1] = c[(j - 1) + 1]  BY <1>3, <3>1
    <3> QED  BY <2>0, <2>2, <3>1, <3>2
  <2> QED  BY <2>1, <2>2
<1> QED  BY <1>2, <1>6, <1>7, <1>8, <1>9 DEF rot, x, v, n

-----------------------------------------------------------------------------
(* Ranks and the order of use *)

LEMMA EntryTypes ==
    ASSUME NEW c \in Seq(Entries)
    PROVE  /\ DOMAIN c = 1..Len(c) /\ Len(c) \in Nat
           /\ \A j \in DOMAIN c : /\ c[j] \in Entries /\ c[j].key \in Keys
                                  /\ c[j].key \in Nat /\ c[j].refs \in 0..LenMax
                                  /\ c[j].data \in Data \cup {None}
<1>1. DOMAIN c = 1..Len(c) /\ Len(c) \in Nat  OBVIOUS
<1>2. \A j \in DOMAIN c : c[j] \in Entries  OBVIOUS
<1>3. \A x \in Entries : /\ x.key \in Keys /\ x.refs \in 0..LenMax
                          /\ x.data \in Data \cup {None}
  BY DEF Entries
<1> QED  BY <1>1, <1>2, <1>3, KeysAssumption

\* touch: the entries keep their keys and data; ranks below that of the touched
\* entry grow by one.
LEMMA TouchIs ==
    ASSUME NEW d \in Seq(Entries), NEW i \in DOMAIN d
    PROVE  /\ Touch(d, i) \in Seq(Entries) /\ Len(Touch(d, i)) = Len(d)
           /\ DOMAIN Touch(d, i) = DOMAIN d
           /\ \A j \in DOMAIN d :
                 /\ Touch(d, i)[j].key = d[j].key /\ Touch(d, i)[j].data = d[j].data
                 /\ Touch(d, i)[j].refs =
                       IF j = i THEN 0
                       ELSE IF d[j].refs < d[i].refs THEN d[j].refs + 1 ELSE d[j].refs
<1>1. /\ DOMAIN d = 1..Len(d) /\ Len(d) \in Nat
      /\ \A j \in DOMAIN d : d[j] \in Entries /\ d[j].refs \in 0..LenMax
  BY EntryTypes
<1>2. LenMax \in Nat  BY LenMaxAssumption
<1>3. DOMAIN Touch(d, i) = DOMAIN d  BY DEF Touch
<1>4. ASSUME NEW j \in DOMAIN d
      PROVE  /\ Touch(d, i)[j] \in Entries
             /\ Touch(d, i)[j].key = d[j].key /\ Touch(d, i)[j].data = d[j].data
             /\ Touch(d, i)[j].refs =
                   IF j = i THEN 0
                   ELSE IF d[j].refs < d[i].refs THEN d[j].refs + 1 ELSE d[j].refs
  <2>1. Touch(d, i)[j] = IF j = i THEN [d[j] EXCEPT !.refs = 0]
                         ELSE IF d[j].refs < d[i].refs
                         THEN [d[j] EXCEPT !.refs = @ + 1] ELSE d[j]
    BY DEF Touch
  <2>2. d[j] \in Entries /\ d[j].refs \in 0..LenMax /\ d[i].refs \in 0..LenMax
    BY <1>1
  <2>3. CASE j = i  BY <1>2, <2>1, <2>2, <2>3 DEF Entries
  <2>4. CASE j # i /\ d[j].refs < d[i].refs
    <3>1. d[j].refs + 1 \in 0..LenMax  BY <1>2, <2>2, <2>4
    <3> QED  BY <2>1, <2>2, <2>4, <3>1 DEF Entries
  <2>5. CASE j # i /\ ~(d[j].refs < d[i].refs)  BY <2>1, <2>2, <2>5
  <2> QED  BY <2>3, <2>4, <2>5
<1>5. Touch(d, i) \in [1..Len(d) -> Entries]
  <2>1. Touch(d, i) = [j \in DOMAIN d |-> Touch(d, i)[j]]  BY DEF Touch
  <2> QED  BY <1>1, <1>4, <2>1
<1>6. Touch(d, i) \in Seq(Entries) /\ Len(Touch(d, i)) = Len(d)  BY <1>1, <1>5
<1> QED  BY <1>3, <1>4, <1>6

\* The order of use after a use of k
LEMMA UsedIs ==
    ASSUME uses \subseteq Keys \X Keys, NEW k \in Keys
    PROVE  /\ Used(k) \subseteq Keys \X Keys
           /\ \A x, y \in Keys :
                 <<x, y>> \in Used(k) <=>
                    IF x = k THEN y = k \/ <<y, y>> \in uses
                    ELSE y # k /\ <<x, y>> \in uses
<1>1. ASSUME NEW x \in Keys, NEW y \in Keys
      PROVE  <<x, y>> \in Unused({k}) <=> x # k /\ y # k /\ <<x, y>> \in uses
  BY DEF Unused
<1>2. ASSUME NEW x \in Keys, NEW y \in Keys
      PROVE  <<x, y>> \in {<<k, z>> : z \in InUse \cup {k}} <=>
                x = k /\ (y = k \/ <<y, y>> \in uses)
  BY DEF InUse
<1>3. Used(k) \subseteq Keys \X Keys
  <2>1. Unused({k}) \subseteq Keys \X Keys  BY DEF Unused
  <2>2. {<<k, z>> : z \in InUse \cup {k}} \subseteq Keys \X Keys
    <3> DEFINE U == InUse \cup {k}
    <3>1. U \subseteq Keys  BY DEF InUse
    <3> HIDE DEF U
    <3>2. \A p \in {<<k, z>> : z \in U} : p \in Keys \X Keys  BY <3>1
    <3>3. {<<k, z>> : z \in U} \subseteq Keys \X Keys  BY <3>2
    <3> QED  BY <3>3 DEF U
  <2> QED  BY <2>1, <2>2 DEF Used
<1>4. ASSUME NEW x \in Keys, NEW y \in Keys
      PROVE  <<x, y>> \in Used(k) <=>
                IF x = k THEN y = k \/ <<y, y>> \in uses
                ELSE y # k /\ <<x, y>> \in uses
  BY <1>1, <1>2 DEF Used
<1> QED  BY <1>3, <1>4

LEMMA UnusedIs ==
    ASSUME uses \subseteq Keys \X Keys, NEW S
    PROVE  /\ Unused(S) \subseteq Keys \X Keys
           /\ \A x, y \in Keys :
                 <<x, y>> \in Unused(S) <=> x \notin S /\ y \notin S /\ <<x, y>> \in uses
BY DEF Unused

\* What find() and update() make of the vector before they touch entry i of it, the
\* one of key k: the other entries were there before, of another rank, and a valid
\* one that is gone had the greatest rank.
Shape(d, i, k) ==
    /\ Len(d) <= LenMax /\ Sorted(d) /\ d[i].key = k
    /\ \A j \in DOMAIN d : j # i =>
          /\ \E m \in DOMAIN cache : cache[m] = d[j]
          /\ IsValid(d[j]) => d[j].refs # d[i].refs
    /\ \A m \in DOMAIN cache : cache[m].key # k /\ IsValid(cache[m]) =>
          \/ \E j \in DOMAIN d : j # i /\ d[j] = cache[m]
          \/ \A l \in DOMAIN cache : IsValid(cache[l]) => cache[l].refs <= cache[m].refs

\* Entries that are valid after touch() were so before, and keep their order.
LEMMA TouchRanks ==
    ASSUME NEW d \in Seq(Entries), NEW i \in DOMAIN d,
           \A j \in DOMAIN d : j # i /\ IsValid(d[j]) => d[j].refs # d[i].refs
    PROVE  LET t == Touch(d, i) IN
           /\ t[i].refs = 0 /\ IsValid(t[i])
           /\ \A j \in DOMAIN d : j # i /\ IsValid(t[j]) => IsValid(d[j]) /\ t[j].refs > 0
           /\ \A a, b \in DOMAIN d :
                 a # i /\ b # i /\ IsValid(t[a]) /\ IsValid(t[b]) =>
                    (t[a].refs <= t[b].refs <=> d[a].refs <= d[b].refs)
           /\ \A j \in DOMAIN d : j # i /\ IsValid(d[j]) /\ ~IsValid(t[j]) =>
                 d[j].refs = LenMax - 1
<1> DEFINE t == Touch(d, i)
<1>1. \A j \in DOMAIN d : d[j].refs \in 0..LenMax  BY EntryTypes
<1>2. LenMax \in Nat /\ LenMax # 0  BY LenMaxAssumption
<1>3. \A j \in DOMAIN d :
         t[j].refs = IF j = i THEN 0
                     ELSE IF d[j].refs < d[i].refs THEN d[j].refs + 1 ELSE d[j].refs
  BY TouchIs
<1> HIDE DEF t
<1>4. t[i].refs = 0 /\ IsValid(t[i])  BY <1>2, <1>3 DEF IsValid
<1>5. ASSUME NEW j \in DOMAIN d, j # i, IsValid(t[j])
      PROVE  IsValid(d[j]) /\ t[j].refs > 0
  <2>1. d[j].refs \in 0..LenMax /\ d[i].refs \in 0..LenMax  BY <1>1
  <2>2. t[j].refs # LenMax
        /\ t[j].refs = IF d[j].refs < d[i].refs THEN d[j].refs + 1 ELSE d[j].refs
    BY <1>3, <1>5 DEF IsValid
  <2>3. d[j].refs # LenMax  BY <1>2, <2>1, <2>2
  <2>4. d[j].refs # d[i].refs  BY <1>5, <2>3 DEF IsValid
  <2>5. t[j].refs > 0  BY <1>2, <2>1, <2>2, <2>4
  <2> QED  BY <2>3, <2>5 DEF IsValid
<1>6. ASSUME NEW a \in DOMAIN d, NEW b \in DOMAIN d, a # i, b # i,
             IsValid(t[a]), IsValid(t[b])
      PROVE  t[a].refs <= t[b].refs <=> d[a].refs <= d[b].refs
  <2>1. /\ d[a].refs \in 0..LenMax /\ d[b].refs \in 0..LenMax
        /\ d[i].refs \in 0..LenMax
    BY <1>1
  <2>2. d[a].refs # d[i].refs /\ d[b].refs # d[i].refs  BY <1>5, <1>6
  <2>3. /\ t[a].refs = IF d[a].refs < d[i].refs THEN d[a].refs + 1 ELSE d[a].refs
        /\ t[b].refs = IF d[b].refs < d[i].refs THEN d[b].refs + 1 ELSE d[b].refs
    BY <1>3, <1>6
  <2>4. CASE d[a].refs < d[i].refs /\ d[b].refs < d[i].refs
    <3>1. t[a].refs = d[a].refs + 1 /\ t[b].refs = d[b].refs + 1  BY <2>3, <2>4
    <3> QED  BY <1>2, <2>1, <3>1
  <2>5. CASE d[a].refs < d[i].refs /\ ~(d[b].refs < d[i].refs)
    <3>1. t[a].refs = d[a].refs + 1 /\ t[b].refs = d[b].refs  BY <2>3, <2>5
    <3> QED  BY <1>2, <2>1, <2>2, <2>5, <3>1
  <2>6. CASE ~(d[a].refs < d[i].refs) /\ d[b].refs < d[i].refs
    <3>1. t[a].refs = d[a].refs /\ t[b].refs = d[b].refs + 1  BY <2>3, <2>6
    <3> QED  BY <1>2, <2>1, <2>2, <2>6, <3>1
  <2>7. CASE ~(d[a].refs < d[i].refs) /\ ~(d[b].refs < d[i].refs)
    <3>1. t[a].refs = d[a].refs /\ t[b].refs = d[b].refs  BY <2>3, <2>7
    <3> QED  BY <3>1
  <2> QED  BY <2>4, <2>5, <2>6, <2>7
<1>7. ASSUME NEW j \in DOMAIN d, j # i, IsValid(d[j]), ~IsValid(t[j])
      PROVE  d[j].refs = LenMax - 1
  <2>1. d[j].refs \in 0..LenMax /\ d[i].refs \in 0..LenMax  BY <1>1
  <2>2. t[j].refs = IF d[j].refs < d[i].refs THEN d[j].refs + 1 ELSE d[j].refs
    BY <1>3, <1>7
  <2> QED  BY <1>2, <1>7, <2>1, <2>2 DEF IsValid
<1> QED  BY <1>4, <1>5, <1>6, <1>7 DEF t

\* A use of an entry keeps the invariant.
LEMMA UseKeeps ==
    ASSUME IInv, NEW d \in Seq(Entries), NEW i \in DOMAIN d, NEW k \in Keys,
           Shape(d, i, k), cache' = Touch(d, i), uses' = Used(k),
           evicted' = None \/ evicted' \in Keys \X Data
    PROVE  IInv'
<1>1. /\ cache \in Seq(Entries) /\ uses \subseteq Keys \X Keys
      /\ Sorted(cache) /\ UsesInv /\ RankInv
  BY DEF IInv, SortedUnique, Typed, Sorted
<1>2. /\ Len(d) <= LenMax /\ Sorted(d) /\ d[i].key = k
      /\ \A j \in DOMAIN d : j # i =>
            /\ \E m \in DOMAIN cache : cache[m] = d[j]
            /\ IsValid(d[j]) => d[j].refs # d[i].refs
  BY DEF Shape
<1> DEFINE t == Touch(d, i)
<1>3. /\ t \in Seq(Entries) /\ Len(t) = Len(d) /\ DOMAIN t = DOMAIN d
      /\ \A j \in DOMAIN d : t[j].key = d[j].key
  BY TouchIs
<1>4. /\ t[i].refs = 0 /\ IsValid(t[i])
      /\ \A j \in DOMAIN d : j # i /\ IsValid(t[j]) => IsValid(d[j]) /\ t[j].refs > 0
      /\ \A a, b \in DOMAIN d :
            a # i /\ b # i /\ IsValid(t[a]) /\ IsValid(t[b]) =>
               (t[a].refs <= t[b].refs <=> d[a].refs <= d[b].refs)
  <2>1. \A j \in DOMAIN d : j # i /\ IsValid(d[j]) => d[j].refs # d[i].refs  BY <1>2
  <2> QED  BY <2>1, TouchRanks
<1>5. /\ DOMAIN d = 1..Len(d) /\ Len(d) \in Nat
      /\ \A j \in DOMAIN d : d[j].key \in Keys /\ d[j].key \in Nat
  BY EntryTypes
<1>6. \A j \in DOMAIN d : t[j].refs \in Nat
  <2>1. \A j \in DOMAIN t : t[j].refs \in 0..LenMax  BY <1>3, EntryTypes
  <2> QED  BY <1>3, <2>1, LenMaxAssumption
<1>7. /\ Used(k) \subseteq Keys \X Keys
      /\ \A x, y \in Keys :
            <<x, y>> \in Used(k) <=> IF x = k THEN y = k \/ <<y, y>> \in uses
                                     ELSE y # k /\ <<x, y>> \in uses
  BY <1>1, UsedIs
<1> HIDE DEF t
<1>8. cache' = t  BY DEF t
<1>9. SortedUnique'
  <2>1. Len(t) <= LenMax  BY <1>2, <1>3
  <2>2. \A a, b \in DOMAIN t : a < b => t[a].key < t[b].key
    BY <1>2, <1>3 DEF Sorted
  <2> QED  BY <1>3, <1>7, <1>8, <2>1, <2>2 DEF SortedUnique, Typed
<1>10. UsesInv'
  <2> SUFFICES ASSUME NEW x \in Keys, NEW y \in Keys, <<x, y>> \in Used(k),
                      <<y, x>> \in Used(k)
               PROVE  x = y
    BY DEF UsesInv
  <2> QED  BY <1>1, <1>7 DEF UsesInv
<1>11. ASSUME NEW j \in DOMAIN d, j # i
       PROVE  d[j].key # k
  <2>1. i < j \/ j < i  BY <1>5, <1>11
  <2>2. d[i].key < d[j].key \/ d[j].key < d[i].key  BY <1>2, <2>1 DEF Sorted
  <2> QED  BY <1>2, <1>5, <2>2
<1>12. RankInv'
  <2> SUFFICES ASSUME NEW a \in DOMAIN d, NEW b \in DOMAIN d,
                      IsValid(t[a]), IsValid(t[b])
               PROVE  t[a].refs <= t[b].refs <=> <<t[a].key, t[b].key>> \in Used(k)
    BY <1>3, <1>8 DEF RankInv
  <2>0. t[a].key = d[a].key /\ t[b].key = d[b].key /\ d[a].key \in Keys /\ d[b].key \in Keys
    BY <1>3, <1>5
  <2>1. ASSUME NEW j \in DOMAIN d, j # i, IsValid(t[j])
        PROVE  <<d[j].key, d[j].key>> \in uses
    <3>1. PICK m \in DOMAIN cache : cache[m] = d[j]  BY <1>2, <2>1
    <3>2. IsValid(cache[m]) /\ cache[m].refs \in Nat
      <4>1. cache[m].refs \in 0..LenMax  BY <1>1, EntryTypes
      <4> QED  BY <1>4, <2>1, <3>1, <4>1, LenMaxAssumption
    <3>3. cache[m].refs <= cache[m].refs  BY <3>2
    <3> QED  BY <1>1, <3>1, <3>2, <3>3 DEF RankInv
  <2>2. CASE a = i /\ b = i
    <3>1. t[a].refs <= t[b].refs  BY <1>4, <2>2
    <3>2. <<k, k>> \in Used(k)  BY <1>7
    <3> QED  BY <1>2, <2>0, <2>2, <3>1, <3>2
  <2>3. CASE a = i /\ b # i
    <3>1. t[a].refs <= t[b].refs  BY <1>4, <1>6, <2>3
    <3>2. <<k, d[b].key>> \in Used(k)  BY <1>7, <2>0, <2>1, <2>3
    <3> QED  BY <1>2, <2>0, <2>3, <3>1, <3>2
  <2>4. CASE a # i /\ b = i
    <3>1. ~(t[a].refs <= t[b].refs)
      <4>1. t[a].refs > 0 /\ t[a].refs \in Nat /\ t[b].refs = 0  BY <1>4, <1>6, <2>4
      <4> QED  BY <4>1
    <3>2. <<d[a].key, k>> \notin Used(k)  BY <1>7, <1>11, <2>0, <2>4
    <3> QED  BY <1>2, <2>0, <2>4, <3>1, <3>2
  <2>5. CASE a # i /\ b # i
    <3>1. t[a].refs <= t[b].refs <=> d[a].refs <= d[b].refs  BY <1>4, <2>5
    <3>2. PICK m \in DOMAIN cache : cache[m] = d[a]  BY <1>2, <2>5
    <3>3. PICK l \in DOMAIN cache : cache[l] = d[b]  BY <1>2, <2>5
    <3>4. IsValid(d[a]) /\ IsValid(d[b])  BY <1>4, <2>5
    <3>5. d[a].refs <= d[b].refs <=> <<d[a].key, d[b].key>> \in uses
      BY <1>1, <3>2, <3>3, <3>4 DEF RankInv
    <3>6. d[a].key # k /\ d[b].key # k  BY <1>11, <2>5
    <3> QED  BY <1>7, <2>0, <3>1, <3>5, <3>6
  <2> QED  BY <2>2, <2>3, <2>4, <2>5
<1> QED  BY <1>9, <1>10, <1>12 DEF IInv

LEMMA Facts ==
    ASSUME IInv
    PROVE  /\ cache \in Seq(Entries) /\ Len(cache) <= LenMax /\ Sorted(cache)
           /\ uses \subseteq Keys \X Keys
           /\ DOMAIN cache = 1..Len(cache) /\ Len(cache) \in Nat
           /\ \A m \in DOMAIN cache :
                 /\ cache[m] \in Entries /\ cache[m].key \in Keys
                 /\ cache[m].key \in Nat /\ cache[m].refs \in 0..LenMax
                 /\ cache[m].refs \in Nat /\ cache[m].data \in Data \cup {None}
<1>1. /\ cache \in Seq(Entries) /\ Len(cache) <= LenMax /\ Sorted(cache)
      /\ uses \subseteq Keys \X Keys
  BY DEF IInv, SortedUnique, Typed, Sorted
<1>2. /\ DOMAIN cache = 1..Len(cache) /\ Len(cache) \in Nat
      /\ \A m \in DOMAIN cache :
            /\ cache[m] \in Entries /\ cache[m].key \in Keys
            /\ cache[m].key \in Nat /\ cache[m].refs \in 0..LenMax
            /\ cache[m].data \in Data \cup {None}
  BY <1>1, EntryTypes
<1>3. \A n \in 0..LenMax : n \in Nat  BY LenMaxAssumption
<1> QED  BY <1>1, <1>2, <1>3

\* No two entries have the same key, no two valid ones the same rank.
LEMMA EntriesDiffer ==
    ASSUME IInv, NEW a \in DOMAIN cache, NEW b \in DOMAIN cache, a # b
    PROVE  /\ cache[a].key # cache[b].key
           /\ IsValid(cache[a]) /\ IsValid(cache[b]) => cache[a].refs # cache[b].refs
<1>1. cache[a].key # cache[b].key
  <2>1. a < b \/ b < a  BY Facts
  <2>2. cache[a].key < cache[b].key \/ cache[b].key < cache[a].key
    BY <2>1, Facts DEF Sorted
  <2> QED  BY <2>2, Facts
<1>2. ASSUME IsValid(cache[a]), IsValid(cache[b]), cache[a].refs = cache[b].refs
      PROVE  FALSE
  <2>1. cache[a].refs <= cache[b].refs /\ cache[b].refs <= cache[a].refs
    BY <1>2, Facts
  <2>2. /\ <<cache[a].key, cache[b].key>> \in uses
        /\ <<cache[b].key, cache[a].key>> \in uses
    BY <1>2, <2>1 DEF IInv, RankInv
  <2>3. cache[a].key \in Keys /\ cache[b].key \in Keys  BY Facts
  <2> QED  BY <1>1, <2>2, <2>3 DEF IInv, UsesInv
<1> QED  BY <1>1, <1>2

-----------------------------------------------------------------------------
(* What each operation touches *)

\* find()
LEMMA FindShape ==
    ASSUME IInv, NEW k \in Keys, Hit(cache, k)
    PROVE  LowerBound(cache, k) \in DOMAIN cache /\ Shape(cache, LowerBound(cache, k), k)
<1> DEFINE i == LowerBound(cache, k)
<1>1. i \in DOMAIN cache /\ cache[i].key = k /\ IsValid(cache[i])  BY DEF Hit
<1> HIDE DEF i
<1>2. ASSUME NEW j \in DOMAIN cache, j # i, IsValid(cache[j])
      PROVE  cache[j].refs # cache[i].refs
  BY <1>1, <1>2, EntriesDiffer
<1>3. \A m \in DOMAIN cache : cache[m].key # k => m # i  BY <1>1
<1>4. Len(cache) <= LenMax /\ Sorted(cache)  BY Facts
<1> QED  BY <1>1, <1>2, <1>3, <1>4 DEF Shape, i

\* The keys stay sorted when the new one is put in its place.
LEMMA PlacedSorted ==
    ASSUME IInv, NEW k \in Keys, NEW d \in Seq(Entries), NEW n \in DOMAIN d, d[n].key = k,
           NEW p, \A j \in DOMAIN d : j # n =>
                     /\ p[j] \in DOMAIN cache /\ d[j] = cache[p[j]]
                     /\ j < n => cache[p[j]].key < k
                     /\ n < j => k < cache[p[j]].key,
           \A a, b \in DOMAIN d : a # n /\ b # n /\ a < b => p[a] < p[b]
    PROVE  Sorted(d)
<1> SUFFICES ASSUME NEW a \in DOMAIN d, NEW b \in DOMAIN d, a < b
             PROVE  d[a].key < d[b].key
  BY DEF Sorted
<1>0. \A j \in DOMAIN d : d[j].key \in Nat /\ j \in Nat
  <2>1. DOMAIN d = 1..Len(d) /\ Len(d) \in Nat /\ \A j \in DOMAIN d : d[j].key \in Nat
    BY EntryTypes
  <2> QED  BY <2>1
<1>1. CASE a = n /\ b # n  BY <1>1
<1>2. CASE a # n /\ b = n  BY <1>2
<1>3. CASE a # n /\ b # n
  <2>1. p[a] \in DOMAIN cache /\ p[b] \in DOMAIN cache /\ p[a] < p[b]  BY <1>3
  <2>2. cache[p[a]].key < cache[p[b]].key  BY <2>1, Facts DEF Sorted
  <2> QED  BY <1>3, <2>2
<1>4. ~(a = n /\ b = n)  BY <1>0
<1> QED  BY <1>1, <1>2, <1>3, <1>4

\* What update() does to the vector and returns, for any of its cases
Reshaped(k, v) ==
    /\ \E d \in Seq(Entries) : \E i \in DOMAIN d :
          Shape(d, i, k) /\ d[i].data = v /\ cache' = Touch(d, i)
    /\ evicted' = None \/ evicted' \in Keys \X Data

\* update() into the slot at the lower bound
LEMMA InPlaceShape ==
    ASSUME IInv, NEW k \in Keys, NEW v \in Data, UpdateInPlace(k, v)
    PROVE  Reshaped(k, v)
<1> DEFINE i == LowerBound(cache, k)
           new == Entry(k, cache[i].refs, v)
           d == [cache EXCEPT ![i] = new]
<1>1. i \in DOMAIN cache /\ cache' = Touch(d, i)  BY DEF UpdateInPlace, Replace
<1>2. /\ \A j \in 1..(i - 1) : cache[j].key < k
      /\ i <= Len(cache) => cache[i].key >= k
  BY Facts, LowerBoundIs
<1>3. i \in DOMAIN cache /\ i \in Nat /\ i <= Len(cache)
  BY <1>1, Facts
<1>4. Hit(cache, k) \/ ~IsValid(cache[i])  BY DEF UpdateInPlace
<1>5. Hit(cache, k) => cache[i].key = k /\ IsValid(cache[i])  BY DEF Hit
<1> HIDE DEF i
<1>6. new \in Entries /\ new.key = k /\ new.refs = cache[i].refs /\ new.data = v
  <2>1. cache[i].refs \in 0..LenMax  BY <1>3, Facts
  <2> QED  BY <2>1 DEF Entry, Entries
<1> HIDE DEF new
<1>7. /\ d \in Seq(Entries) /\ DOMAIN d = DOMAIN cache /\ Len(d) = Len(cache)
      /\ d[i] = new /\ \A j \in DOMAIN cache : j # i => d[j] = cache[j]
  <2>1. cache \in Seq(Entries)  BY Facts
  <2> QED  BY <1>3, <1>6, <2>1
<1>8. cache' = Touch(d, i)  BY <1>1
<1> HIDE DEF d
<1>9. Sorted(d)
  <2> DEFINE p == [j \in DOMAIN cache |-> j]
  <2>1. ASSUME NEW j \in DOMAIN d, j # i
        PROVE  /\ p[j] \in DOMAIN cache /\ d[j] = cache[p[j]]
               /\ j < i => cache[p[j]].key < k
               /\ i < j => k < cache[p[j]].key
    <3>1. j \in DOMAIN cache /\ p[j] = j /\ d[j] = cache[j] /\ j \in Nat
      BY <1>7, <2>1, Facts
    <3>2. ASSUME j < i PROVE cache[j].key < k
      <4>1. j \in 1..(i - 1)  BY <1>3, <3>1, <3>2, Facts
      <4> QED  BY <1>2, <4>1
    <3>3. ASSUME i < j PROVE k < cache[j].key
      <4>1. cache[i].key < cache[j].key  BY <1>3, <3>1, <3>3, Facts DEF Sorted
      <4>2. cache[i].key >= k /\ k \in Nat /\ cache[i].key \in Nat /\ cache[j].key \in Nat
        BY <1>2, <1>3, <3>1, KeysAssumption, Facts
      <4> QED  BY <4>1, <4>2
    <3> QED  BY <3>1, <3>2, <3>3
  <2>2. \A a, b \in DOMAIN d : a # i /\ b # i /\ a < b => p[a] < p[b]  BY <1>7
  <2>3. i \in DOMAIN d /\ d[i].key = k  BY <1>3, <1>6, <1>7
  <2>4. d \in Seq(Entries)  BY <1>7
  <2> HIDE DEF p
  <2> QED  BY <2>1, <2>2, <2>3, <2>4, PlacedSorted
<1>10. ASSUME NEW j \in DOMAIN d, j # i
       PROVE  /\ \E m \in DOMAIN cache : cache[m] = d[j]
              /\ IsValid(d[j]) => d[j].refs # d[i].refs
  <2>1. j \in DOMAIN cache /\ d[j] = cache[j] /\ d[i].refs = cache[i].refs
    BY <1>6, <1>7, <1>10
  <2>2. ASSUME IsValid(cache[j]), cache[j].refs = cache[i].refs PROVE FALSE
    <3>1. IsValid(cache[i])  BY <2>2 DEF IsValid
    <3> QED  BY <1>3, <1>10, <2>1, <2>2, <3>1, EntriesDiffer
  <2> QED  BY <2>1, <2>2
<1>11. ASSUME NEW m \in DOMAIN cache, cache[m].key # k, IsValid(cache[m])
       PROVE  \E j \in DOMAIN d : j # i /\ d[j] = cache[m]
  <2>1. m # i  BY <1>4, <1>5, <1>11
  <2> QED  BY <1>7, <2>1
<1>12. Shape(d, i, k)
  <2>1. Len(d) <= LenMax /\ d[i].key = k  BY <1>6, <1>7, Facts
  <2> QED  BY <1>9, <1>10, <1>11, <2>1 DEF Shape
<1>13. evicted' = None \/ evicted' \in Keys \X Data
  <2>1. cache[i].key \in Keys /\ cache[i].data \in Data \cup {None}  BY <1>3, Facts
  <2>2. evicted' = IF cache[i].data = None THEN None ELSE <<cache[i].key, cache[i].data>>
    BY DEF UpdateInPlace, Replace, i
  <2> QED  BY <2>1, <2>2
<1>14. i \in DOMAIN d /\ d[i].data = v  BY <1>3, <1>6, <1>7
<1> QED  BY <1>7, <1>8, <1>12, <1>13, <1>14 DEF Reshaped

\* Where update() has neither the key nor an invalid slot at its lower bound, the
\* keys there and after are greater.
LEMMA AfterBound ==
    ASSUME IInv, NEW k \in Keys,
           LowerBound(cache, k) \in DOMAIN cache =>
              ~Hit(cache, k) /\ IsValid(cache[LowerBound(cache, k)])
    PROVE  /\ LowerBound(cache, k) \in 1..(Len(cache) + 1)
           /\ \A m \in DOMAIN cache : m < LowerBound(cache, k) => cache[m].key < k
           /\ \A m \in DOMAIN cache : LowerBound(cache, k) <= m => k < cache[m].key
<1> DEFINE i == LowerBound(cache, k)
<1>1. /\ i \in 1..(Len(cache) + 1)
      /\ \A j \in 1..(i - 1) : cache[j].key < k
      /\ i <= Len(cache) => cache[i].key >= k
  BY Facts, LowerBoundIs
<1>2. i \in DOMAIN cache => cache[i].key # k  BY DEF Hit
<1> HIDE DEF i
<1>3. DOMAIN cache = 1..Len(cache) /\ Len(cache) \in Nat /\ k \in Nat
  BY Facts, KeysAssumption
<1>4. ASSUME NEW m \in DOMAIN cache, m < i PROVE cache[m].key < k
  <2>1. m \in 1..(i - 1)  BY <1>1, <1>3, <1>4
  <2> QED  BY <1>1, <2>1
<1>5. ASSUME NEW m \in DOMAIN cache, i <= m PROVE k < cache[m].key
  <2>1. i \in DOMAIN cache /\ i <= Len(cache)  BY <1>1, <1>3, <1>5
  <2>2. cache[i].key \in Nat /\ cache[m].key \in Nat  BY <2>1, Facts
  <2>3. k < cache[i].key  BY <1>1, <1>2, <1>3, <2>1, <2>2
  <2>4. i = m \/ cache[i].key < cache[m].key
    <3>1. i = m \/ i < m  BY <1>1, <1>3, <1>5
    <3> QED  BY <2>1, <3>1, Facts DEF Sorted
  <2> QED  BY <1>3, <2>2, <2>3, <2>4
<1> QED  BY <1>1, <1>4, <1>5 DEF i

\* update() with room for one more entry
LEMMA InsertShape ==
    ASSUME IInv, NEW k \in Keys, NEW v \in Data, UpdateInsert(k, v)
    PROVE  Reshaped(k, v)
<1> DEFINE i == LowerBound(cache, k)
           new == Entry(k, LenMax, v)
           d == InsertAt(cache, i, new)
<1>1. /\ i \in DOMAIN cache => ~Hit(cache, k) /\ IsValid(cache[i])
      /\ Len(cache) < LenMax /\ cache' = Touch(d, i) /\ evicted' = None
  BY DEF UpdateInsert
<1>2. /\ i \in 1..(Len(cache) + 1)
      /\ \A m \in DOMAIN cache : m < i => cache[m].key < k
      /\ \A m \in DOMAIN cache : i <= m => k < cache[m].key
  BY <1>1, AfterBound
<1>3. new \in Entries /\ new.key = k /\ new.refs = LenMax /\ new.data = v
  BY LenMaxAssumption DEF Entry, Entries
<1>4. DOMAIN cache = 1..Len(cache) /\ Len(cache) \in Nat /\ cache \in Seq(Entries)
  BY Facts
<1> HIDE DEF i, new
<1>5. /\ InsertAt(cache, i, new) \in Seq(Entries)
      /\ Len(InsertAt(cache, i, new)) = Len(cache) + 1
      /\ InsertAt(cache, i, new)[i] = new
      /\ \A j \in 1..(i - 1) : InsertAt(cache, i, new)[j] = cache[j]
      /\ \A j \in (i + 1)..(Len(cache) + 1) : InsertAt(cache, i, new)[j] = cache[j - 1]
  <2>1. cache \in Seq(Entries) /\ i \in 1..(Len(cache) + 1) /\ new \in Entries
    BY <1>2, <1>3, <1>4
  <2>2. Inserted(Entries, cache, i, new, InsertAt(cache, i, new))  BY <2>1, InsertAtIs
  <2> QED  BY <2>2 DEF Inserted
<1>6. cache' = Touch(d, i)  BY <1>1
<1>7. d \in Seq(Entries) /\ DOMAIN d = 1..(Len(cache) + 1) /\ i \in DOMAIN d /\ d[i] = new
  <2>1. d \in Seq(Entries) /\ Len(d) = Len(cache) + 1  BY <1>5
  <2> HIDE DEF d
  <2>2. DOMAIN d = 1..Len(d)  BY <2>1
  <2> QED  BY <1>2, <1>5, <2>1, <2>2 DEF d
<1> DEFINE p == [j \in DOMAIN d |-> IF j < i THEN j ELSE j - 1]
<1>8. /\ Len(d) = Len(cache) + 1
      /\ \A j \in 1..(i - 1) : d[j] = cache[j]
      /\ \A j \in (i + 1)..(Len(cache) + 1) : d[j] = cache[j - 1]
  BY <1>5
<1> HIDE DEF d
<1>9. ASSUME NEW j \in DOMAIN d, j # i
      PROVE  /\ p[j] \in DOMAIN cache /\ d[j] = cache[p[j]]
             /\ j < i => cache[p[j]].key < k
             /\ i < j => k < cache[p[j]].key
  <2>1. CASE j < i
    <3>1. p[j] = j /\ j \in 1..(i - 1) /\ j \in DOMAIN cache /\ ~(i < j)
      BY <1>2, <1>4, <1>7, <2>1
    <3> QED  BY <1>2, <1>8, <2>1, <3>1
  <2>2. CASE i < j
    <3>1. /\ p[j] = j - 1 /\ j \in (i + 1)..(Len(cache) + 1) /\ j - 1 \in DOMAIN cache
          /\ i <= j - 1 /\ ~(j < i)
      BY <1>2, <1>4, <1>7, <2>2
    <3>2. d[j] = cache[j - 1]  BY <1>8, <3>1
    <3>3. k < cache[j - 1].key  BY <1>2, <3>1
    <3>4. d[j] = cache[p[j]] /\ k < cache[p[j]].key /\ p[j] \in DOMAIN cache
      BY <3>1, <3>2, <3>3
    <3> QED  BY <3>1, <3>4
  <2>3. j < i \/ i < j  BY <1>2, <1>4, <1>7, <1>9
  <2> QED  BY <2>1, <2>2, <2>3
<1>10. Sorted(d)
  <2>1. ASSUME NEW a \in DOMAIN d, NEW b \in DOMAIN d, a # i, b # i, a < b
        PROVE  p[a] < p[b]
    BY <1>2, <1>4, <1>7, <2>1
  <2>2. i \in DOMAIN d /\ d[i].key = k  BY <1>3, <1>7
  <2>3. d \in Seq(Entries)  BY <1>7
  <2> HIDE DEF p
  <2>4. \A j \in DOMAIN d : j # i =>
           /\ p[j] \in DOMAIN cache /\ d[j] = cache[p[j]]
           /\ j < i => cache[p[j]].key < k
           /\ i < j => k < cache[p[j]].key
    BY <1>9
  <2> QED  BY <2>1, <2>2, <2>3, <2>4, PlacedSorted
<1>11. ASSUME NEW j \in DOMAIN d, j # i
       PROVE  /\ \E m \in DOMAIN cache : cache[m] = d[j]
              /\ IsValid(d[j]) => d[j].refs # d[i].refs
  <2>1. \E m \in DOMAIN cache : cache[m] = d[j]  BY <1>9, <1>11
  <2> QED  BY <1>3, <1>7, <2>1 DEF IsValid
<1>12. ASSUME NEW m \in DOMAIN cache
       PROVE  \E j \in DOMAIN d : j # i /\ d[j] = cache[m]
  <2>1. CASE m < i
    <3>1. m \in 1..(i - 1) /\ m \in DOMAIN d /\ m # i  BY <1>2, <1>4, <1>7, <2>1
    <3> QED  BY <1>8, <3>1
  <2>2. CASE ~(m < i)
    <3> DEFINE j == m + 1
    <3>1. /\ j \in (i + 1)..(Len(cache) + 1) /\ j \in DOMAIN d /\ j # i
          /\ j - 1 = m
      BY <1>2, <1>4, <1>7, <2>2
    <3> HIDE DEF j
    <3>2. d[j] = cache[j - 1]  BY <1>8, <3>1
    <3> QED  BY <3>1, <3>2
  <2> QED  BY <2>1, <2>2
<1>13. Shape(d, i, k)
  <2>1. Len(d) <= LenMax  BY <1>1, <1>4, <1>8, LenMaxAssumption
  <2>2. d[i].key = k  BY <1>3, <1>7
  <2> QED  BY <1>10, <1>11, <1>12, <2>1, <2>2 DEF Shape
<1>14. d[i].data = v  BY <1>3, <1>7
<1> QED  BY <1>1, <1>6, <1>7, <1>13, <1>14 DEF Reshaped

\* update() of a full vector: the entry of the greatest rank makes room.
LEMMA EvictShape ==
    ASSUME IInv, NEW k \in Keys, NEW v \in Data, UpdateEvict(k, v)
    PROVE  Reshaped(k, v)
<1> DEFINE i == LowerBound(cache, k)
           e == EvictIndex(cache)
           n == IF e < i THEN i - 1 ELSE i
           rot == InsertAt(RemoveAt(cache, e), n, cache[e])
           new == Entry(k, rot[n].refs, v)
           d == [rot EXCEPT ![n] = new]
<1>1. /\ i \in DOMAIN cache => ~Hit(cache, k) /\ IsValid(cache[i])
      /\ Len(cache) = LenMax /\ cache' = Touch(d, n)
      /\ evicted' = IF rot[n].data = None THEN None ELSE <<rot[n].key, rot[n].data>>
  BY DEF UpdateEvict, Replace
<1>2. /\ i \in 1..(Len(cache) + 1)
      /\ \A m \in DOMAIN cache : m < i => cache[m].key < k
      /\ \A m \in DOMAIN cache : i <= m => k < cache[m].key
  BY <1>1, AfterBound
<1>3. DOMAIN cache = 1..Len(cache) /\ Len(cache) \in Nat /\ cache \in Seq(Entries)
  BY Facts
<1>4. e \in DOMAIN cache /\ \A j \in DOMAIN cache : cache[j].refs <= cache[e].refs
  <2>1. cache # <<>>  BY <1>1, <1>3, LenMaxAssumption
  <2> QED  BY <1>3, <2>1, EvictIndexIs
<1>5. e \in 1..Len(cache)  BY <1>3, <1>4
<1> HIDE DEF i, e
<1>6. /\ rot \in Seq(Entries) /\ Len(rot) = Len(cache) /\ n \in 1..Len(cache)
      /\ rot[n] = cache[e]
      /\ \A j \in 1..(n - 1) : rot[j] = cache[IF j < e THEN j ELSE j + 1]
      /\ \A j \in (n + 1)..Len(cache) : rot[j] = cache[IF j <= e THEN j - 1 ELSE j]
  <2>1. cache \in Seq(Entries) /\ e \in 1..Len(cache) /\ i \in 1..(Len(cache) + 1)
    BY <1>2, <1>3, <1>5
  <2> QED  BY <2>1, RotatedIs
<1>7. n = IF e < i THEN i - 1 ELSE i  OBVIOUS
<1> HIDE DEF rot, n
<1>8. new \in Entries /\ new.key = k /\ new.refs = cache[e].refs /\ new.data = v
  <2>1. cache[e].refs \in 0..LenMax  BY <1>4, Facts
  <2> QED  BY <1>6, <2>1 DEF Entry, Entries
<1>9. cache' = Touch(d, n)
      /\ evicted' = IF cache[e].data = None THEN None ELSE <<cache[e].key, cache[e].data>>
  BY <1>1, <1>6
<1> HIDE DEF new
<1>10. /\ d \in Seq(Entries) /\ DOMAIN d = 1..Len(cache) /\ Len(d) = Len(cache)
       /\ n \in DOMAIN d /\ d[n] = new
       /\ \A j \in DOMAIN d : j # n => d[j] = rot[j]
  <2>1. rot \in Seq(Entries) /\ DOMAIN rot = 1..Len(cache) /\ n \in 1..Len(cache)
    BY <1>6
  <2> QED  BY <1>6, <1>8, <2>1
<1> HIDE DEF d
<1> DEFINE p == [j \in DOMAIN d |->
                    IF j < n THEN IF j < e THEN j ELSE j + 1
                    ELSE IF j <= e THEN j - 1 ELSE j]
<1>11. ASSUME NEW j \in DOMAIN d, j # n
       PROVE  /\ p[j] \in DOMAIN cache /\ p[j] # e /\ d[j] = cache[p[j]]
              /\ j < n => cache[p[j]].key < k
              /\ n < j => k < cache[p[j]].key
  <2>1. CASE j < n
    <3>1. /\ p[j] = IF j < e THEN j ELSE j + 1
          /\ j \in 1..(n - 1) /\ ~(n < j)
      BY <1>2, <1>3, <1>6, <1>10, <2>1
    <3>2. p[j] \in DOMAIN cache /\ p[j] # e /\ p[j] < i
      BY <1>2, <1>3, <1>5, <1>7, <3>1
    <3> QED  BY <1>2, <1>6, <1>10, <1>11, <3>1, <3>2
  <2>2. CASE n < j
    <3>1. /\ p[j] = IF j <= e THEN j - 1 ELSE j
          /\ j \in (n + 1)..Len(cache) /\ ~(j < n)
      BY <1>2, <1>3, <1>6, <1>10, <2>2
    <3>2. p[j] \in DOMAIN cache /\ p[j] # e /\ i <= p[j]
      BY <1>2, <1>3, <1>5, <1>7, <3>1
    <3> QED  BY <1>2, <1>6, <1>10, <1>11, <3>1, <3>2
  <2>3. j < n \/ n < j  BY <1>3, <1>6, <1>10, <1>11
  <2> QED  BY <2>1, <2>2, <2>3
<1>12. Sorted(d)
  <2>1. ASSUME NEW a \in DOMAIN d, NEW b \in DOMAIN d, a # n, b # n, a < b
        PROVE  p[a] < p[b]
    BY <1>2, <1>3, <1>5, <1>6, <1>7, <1>10, <2>1
  <2>2. n \in DOMAIN d /\ d[n].key = k  BY <1>8, <1>10
  <2>3. d \in Seq(Entries)  BY <1>10
  <2> HIDE DEF p
  <2>4. \A j \in DOMAIN d : j # n =>
           /\ p[j] \in DOMAIN cache /\ d[j] = cache[p[j]]
           /\ j < n => cache[p[j]].key < k
           /\ n < j => k < cache[p[j]].key
    BY <1>11
  <2> QED  BY <2>1, <2>2, <2>3, <2>4, PlacedSorted
<1>13. ASSUME NEW j \in DOMAIN d, j # n
       PROVE  /\ \E m \in DOMAIN cache : cache[m] = d[j]
              /\ IsValid(d[j]) => d[j].refs # d[n].refs
  <2>1. PICK m \in DOMAIN cache : m # e /\ cache[m] = d[j]  BY <1>11, <1>13
  <2>2. ASSUME IsValid(cache[m]), cache[m].refs = cache[e].refs PROVE FALSE
    <3>1. IsValid(cache[e])  BY <2>2 DEF IsValid
    <3> QED  BY <1>4, <2>1, <2>2, <3>1, EntriesDiffer
  <2> QED  BY <1>8, <1>10, <2>1, <2>2
<1>14. ASSUME NEW m \in DOMAIN cache, m # e
       PROVE  \E j \in DOMAIN d : j # n /\ d[j] = cache[m]
  <2> DEFINE j == IF m < e THEN IF m < i THEN m ELSE m + 1
                  ELSE IF m < i THEN m - 1 ELSE m
  <2>1. j \in DOMAIN d /\ j # n /\ p[j] = m
    BY <1>2, <1>3, <1>5, <1>6, <1>7, <1>10, <1>14
  <2> HIDE DEF j, p
  <2> QED  BY <1>11, <2>1
<1>15. Shape(d, n, k)
  <2>1. Len(d) <= LenMax  BY <1>1, <1>3, <1>10, LenMaxAssumption
  <2>2. d[n].key = k  BY <1>8, <1>10
  <2>3. ASSUME NEW m \in DOMAIN cache
        PROVE  \/ \E j \in DOMAIN d : j # n /\ d[j] = cache[m]
               \/ \A l \in DOMAIN cache : cache[l].refs <= cache[m].refs
    BY <1>4, <1>14
  <2> QED  BY <1>12, <1>13, <2>1, <2>2, <2>3 DEF Shape
<1>16. evicted' = None \/ evicted' \in Keys \X Data
  <2>1. cache[e].key \in Keys /\ cache[e].data \in Data \cup {None}  BY <1>4, Facts
  <2> QED  BY <1>9, <2>1
<1>17. d[n].data = v /\ cache' = Touch(d, n)  BY <1>8, <1>9, <1>10
<1> QED  BY <1>10, <1>15, <1>16, <1>17 DEF Reshaped

-----------------------------------------------------------------------------
(* What a lookup gives after an operation *)

\* No lookup of a key other than k gives anything new.
NothingNew(k) ==
    \A x \in Keys : x # k /\ Hit(cache', x) =>
       /\ Hit(cache, x)
       /\ cache'[LowerBound(cache', x)].data = cache[LowerBound(cache, x)].data

\* A key other than k that is lost was used before all that were there.
LostOldest(k) ==
    \A x \in Keys : x # k /\ Hit(cache, x) /\ ~Hit(cache', x) =>
       \A y \in Keys : Hit(cache, y) => <<y, x>> \in uses

LEMMA UseShows ==
    ASSUME IInv, NEW d \in Seq(Entries), NEW i \in DOMAIN d, NEW k \in Keys,
           Shape(d, i, k), cache' = Touch(d, i)
    PROVE  /\ NothingNew(k) /\ LostOldest(k)
           /\ Hit(cache', k) /\ cache'[LowerBound(cache', k)].data = d[i].data
<1> DEFINE t == Touch(d, i)
<1>1. /\ Sorted(d) /\ d[i].key = k
      /\ \A j \in DOMAIN d : j # i =>
            /\ \E m \in DOMAIN cache : cache[m] = d[j]
            /\ IsValid(d[j]) => d[j].refs # d[i].refs
      /\ \A m \in DOMAIN cache : cache[m].key # k /\ IsValid(cache[m]) =>
            \/ \E j \in DOMAIN d : j # i /\ d[j] = cache[m]
            \/ \A l \in DOMAIN cache : IsValid(cache[l]) => cache[l].refs <= cache[m].refs
  BY DEF Shape
<1>2. /\ t \in Seq(Entries) /\ DOMAIN t = DOMAIN d
      /\ \A j \in DOMAIN d : t[j].key = d[j].key /\ t[j].data = d[j].data
  BY TouchIs
<1>3. /\ IsValid(t[i])
      /\ \A j \in DOMAIN d : j # i /\ IsValid(t[j]) => IsValid(d[j])
      /\ \A j \in DOMAIN d : j # i /\ IsValid(d[j]) /\ ~IsValid(t[j]) =>
            d[j].refs = LenMax - 1
  <2>1. \A j \in DOMAIN d : j # i /\ IsValid(d[j]) => d[j].refs # d[i].refs  BY <1>1
  <2> QED  BY <2>1, TouchRanks
<1>4. cache' = t  OBVIOUS
<1> HIDE DEF t
<1>5. Sorted(t)  BY <1>1, <1>2 DEF Sorted
<1>6. ASSUME NEW x \in Keys
      PROVE  /\ \A m \in DOMAIN t : t[m].key = x => m = LowerBound(t, x)
             /\ Hit(t, x) <=> \E m \in DOMAIN t : t[m].key = x /\ IsValid(t[m])
  BY <1>2, <1>5, HitIs
<1>7. ASSUME NEW x \in Keys
      PROVE  /\ \A m \in DOMAIN cache : cache[m].key = x => m = LowerBound(cache, x)
             /\ Hit(cache, x) <=>
                   \E m \in DOMAIN cache : cache[m].key = x /\ IsValid(cache[m])
  <2>1. cache \in Seq(Entries) /\ Sorted(cache)  BY Facts
  <2> QED  BY <2>1, HitIs
<1>8. NothingNew(k)
  <2> SUFFICES ASSUME NEW x \in Keys, x # k, Hit(t, x)
               PROVE  /\ Hit(cache, x)
                      /\ t[LowerBound(t, x)].data = cache[LowerBound(cache, x)].data
    BY <1>4 DEF NothingNew
  <2>1. PICK j \in DOMAIN d : t[j].key = x /\ IsValid(t[j])  BY <1>2, <1>6
  <2>2. j # i /\ IsValid(d[j]) /\ d[j].key = x /\ t[j].data = d[j].data
    BY <1>1, <1>2, <1>3, <2>1
  <2>3. PICK m \in DOMAIN cache : cache[m] = d[j]  BY <1>1, <2>2
  <2>4. Hit(cache, x) /\ LowerBound(cache, x) = m  BY <1>7, <2>2, <2>3
  <2>5. LowerBound(t, x) = j  BY <1>2, <1>6, <2>1
  <2> QED  BY <2>2, <2>3, <2>4, <2>5
<1>9. LostOldest(k)
  <2> SUFFICES ASSUME NEW x \in Keys, x # k, Hit(cache, x), ~Hit(t, x),
                      NEW y \in Keys, Hit(cache, y)
               PROVE  <<y, x>> \in uses
    BY <1>4 DEF LostOldest
  <2>1. PICK m \in DOMAIN cache : cache[m].key = x /\ IsValid(cache[m])  BY <1>7
  <2>2. PICK l \in DOMAIN cache : cache[l].key = y /\ IsValid(cache[l])  BY <1>7
  <2>3. cache[l].refs <= cache[m].refs
    <3>1. CASE \E j \in DOMAIN d : j # i /\ d[j] = cache[m]
      <4>1. PICK j \in DOMAIN d : j # i /\ d[j] = cache[m]  BY <3>1
      <4>2. ~IsValid(t[j])  BY <1>2, <1>6, <2>1, <4>1
      <4>3. cache[m].refs = LenMax - 1  BY <1>3, <2>1, <4>1, <4>2
      <4>4. cache[l].refs \in 0..LenMax /\ cache[l].refs # LenMax
        BY <2>2, Facts DEF IsValid
      <4> QED  BY <4>3, <4>4, LenMaxAssumption
    <3>2. CASE \A n \in DOMAIN cache : IsValid(cache[n]) => cache[n].refs <= cache[m].refs
      BY <2>2, <3>2
    <3> QED  BY <1>1, <2>1, <3>1, <3>2
  <2> QED  BY <2>1, <2>2, <2>3 DEF IInv, RankInv
<1>10. Hit(t, k) /\ t[LowerBound(t, k)].data = d[i].data
  <2>1. t[i].key = k /\ i \in DOMAIN t /\ t[i].data = d[i].data  BY <1>1, <1>2
  <2>2. Hit(t, k) /\ LowerBound(t, k) = i  BY <1>3, <1>6, <2>1
  <2> QED  BY <2>1, <2>2
<1> QED  BY <1>4, <1>8, <1>9, <1>10

\* Entries whose keys are in S become invalid.
LEMMA InvalidKeeps ==
    ASSUME IInv, NEW I, NEW S \in SUBSET Keys, evicted' = None, uses' = Unused(S),
           cache' = [m \in DOMAIN cache |-> IF m \in I THEN Invalid(cache[m]) ELSE cache[m]],
           \A m \in DOMAIN cache : IsValid(cache[m]) => (m \in I <=> cache[m].key \in S)
    PROVE  /\ IInv'
           /\ \A x \in Keys : Hit(cache', x) =>
                 /\ Hit(cache, x)
                 /\ cache'[LowerBound(cache', x)].data = cache[LowerBound(cache, x)].data
           /\ \A x \in Keys : Hit(cache, x) /\ ~Hit(cache', x) => x \in S
<1>1. /\ cache \in Seq(Entries) /\ Len(cache) <= LenMax /\ Sorted(cache)
      /\ uses \subseteq Keys \X Keys
      /\ DOMAIN cache = 1..Len(cache) /\ Len(cache) \in Nat
  BY Facts
<1> DEFINE t == [m \in DOMAIN cache |-> IF m \in I THEN Invalid(cache[m]) ELSE cache[m]]
<1>2. ASSUME NEW m \in DOMAIN cache
      PROVE  /\ t[m] \in Entries /\ t[m].key = cache[m].key
             /\ IsValid(t[m]) => m \notin I /\ t[m] = cache[m]
             /\ m \notin I => t[m] = cache[m]
  <2>1. cache[m] \in Entries /\ cache[m].key \in Keys  BY Facts
  <2>2. CASE m \in I
    <3>1. t[m] = Invalid(cache[m])  BY <2>2
    <3> HIDE DEF t
    <3>2. /\ t[m].key = cache[m].key /\ t[m].refs = LenMax
          /\ t[m] \in Entries
      BY <2>1, <3>1, LenMaxAssumption DEF Invalid, Entry, Entries
    <3> QED  BY <2>2, <3>2 DEF IsValid
  <2>3. CASE m \notin I  BY <2>1, <2>3
  <2> QED  BY <2>2, <2>3
<1>3. DOMAIN t = DOMAIN cache /\ t \in [1..Len(cache) -> Entries]  BY <1>1, <1>2
<1>4. cache' = t  OBVIOUS
<1> HIDE DEF t
<1>5. t \in Seq(Entries) /\ Len(t) = Len(cache)  BY <1>1, <1>3
<1>6. Sorted(t)  BY <1>1, <1>2, <1>3 DEF Sorted
<1>7. /\ Unused(S) \subseteq Keys \X Keys
      /\ \A x, y \in Keys :
            <<x, y>> \in Unused(S) <=> x \notin S /\ y \notin S /\ <<x, y>> \in uses
  BY <1>1, UnusedIs
<1>8. IInv'
  <2>1. SortedUnique'
    <3>1. Len(t) <= LenMax  BY <1>1, <1>5
    <3> QED  BY <1>4, <1>5, <1>6, <1>7, <3>1 DEF SortedUnique, Typed, Sorted
  <2>2. UsesInv'  BY <1>7 DEF IInv, UsesInv
  <2>3. RankInv'
    <3> SUFFICES ASSUME NEW a \in DOMAIN cache, NEW b \in DOMAIN cache,
                        IsValid(t[a]), IsValid(t[b])
                 PROVE  t[a].refs <= t[b].refs <=> <<t[a].key, t[b].key>> \in Unused(S)
      BY <1>3, <1>4 DEF RankInv
    <3>1. /\ t[a] = cache[a] /\ a \notin I /\ IsValid(cache[a])
          /\ t[b] = cache[b] /\ b \notin I /\ IsValid(cache[b])
      BY <1>2
    <3>2. /\ cache[a].key \in Keys /\ cache[a].key \notin S
          /\ cache[b].key \in Keys /\ cache[b].key \notin S
      BY <3>1, Facts
    <3>3. cache[a].refs <= cache[b].refs <=> <<cache[a].key, cache[b].key>> \in uses
      BY <3>1 DEF IInv, RankInv
    <3> QED  BY <1>7, <3>1, <3>2, <3>3
  <2> QED  BY <2>1, <2>2, <2>3 DEF IInv
<1>9. ASSUME NEW x \in Keys
      PROVE  /\ \A m \in DOMAIN t : t[m].key = x => m = LowerBound(t, x)
             /\ Hit(t, x) <=> \E m \in DOMAIN t : t[m].key = x /\ IsValid(t[m])
  BY <1>5, <1>6, HitIs
<1>10. ASSUME NEW x \in Keys
       PROVE  /\ \A m \in DOMAIN cache : cache[m].key = x => m = LowerBound(cache, x)
              /\ Hit(cache, x) <=>
                    \E m \in DOMAIN cache : cache[m].key = x /\ IsValid(cache[m])
  BY <1>1, HitIs
<1>11. ASSUME NEW x \in Keys, Hit(t, x)
       PROVE  /\ Hit(cache, x)
              /\ t[LowerBound(t, x)].data = cache[LowerBound(cache, x)].data
  <2>1. PICK m \in DOMAIN cache : t[m].key = x /\ IsValid(t[m])  BY <1>3, <1>9, <1>11
  <2>2. t[m] = cache[m]  BY <1>2, <2>1
  <2>3. LowerBound(t, x) = m /\ LowerBound(cache, x) = m /\ Hit(cache, x)
    BY <1>3, <1>9, <1>10, <2>1, <2>2
  <2> QED  BY <2>2, <2>3
<1>12. ASSUME NEW x \in Keys, Hit(cache, x), ~Hit(t, x)
       PROVE  x \in S
  <2>1. PICK m \in DOMAIN cache : cache[m].key = x /\ IsValid(cache[m])  BY <1>10, <1>12
  <2>2. m \in I
    <3> SUFFICES ASSUME m \notin I PROVE FALSE
      OBVIOUS
    <3>1. t[m] = cache[m]  BY <1>2
    <3> QED  BY <1>3, <1>9, <1>12, <2>1, <3>1
  <2> QED  BY <2>1, <2>2
<1> QED  BY <1>4, <1>8, <1>11, <1>12

\* What every step does: the invariant stays, and either something is used, or
\* keys are invalidated, or a lookup misses and nothing changes.
UsesKey(k) ==
    /\ NothingNew(k) /\ LostOldest(k) /\ Hit(cache', k)
    /\ \/ /\ Hit(cache, k)
          /\ cache'[LowerBound(cache', k)].data = cache[LowerBound(cache, k)].data
       \/ cache'[LowerBound(cache', k)].data \in Data
Drops(S) ==
    /\ \A x \in Keys : Hit(cache', x) =>
          /\ Hit(cache, x)
          /\ cache'[LowerBound(cache', x)].data = cache[LowerBound(cache, x)].data
    /\ \A x \in Keys : Hit(cache, x) /\ ~Hit(cache', x) => x \in S
    /\ uses' = Unused(S)

LEMMA StepShows ==
    ASSUME IInv, [Next]_vars
    PROVE  /\ IInv'
           /\ \/ \E k \in Keys : UsesKey(k)
              \/ \E S \in SUBSET Keys : Drops(S)
              \/ UNCHANGED <<cache, uses>>
<1>1. ASSUME UNCHANGED <<cache, uses>>, evicted' = evicted \/ evicted' = None
      PROVE  IInv'
  BY <1>1 DEF IInv, SortedUnique, Typed, UsesInv, RankInv
<1>2. ASSUME NEW k \in Keys, Find(k)
      PROVE  IInv' /\ (UsesKey(k) \/ UNCHANGED <<cache, uses>>)
  <2>1. CASE Hit(cache, k)
    <3> DEFINE i == LowerBound(cache, k)
    <3>1. i \in DOMAIN cache /\ Shape(cache, i, k) /\ cache \in Seq(Entries)
      BY <2>1, FindShape, Facts
    <3>2. cache' = Touch(cache, i) /\ uses' = Used(k) /\ evicted' = None
      BY <1>2, <2>1 DEF Find
    <3>3. IInv'
      <4> HIDE DEF i
      <4> QED  BY <3>1, <3>2, UseKeeps
    <3>4. /\ NothingNew(k) /\ LostOldest(k) /\ Hit(cache', k)
          /\ cache'[LowerBound(cache', k)].data = cache[i].data
      <4> HIDE DEF i
      <4> QED  BY <3>1, <3>2, UseShows
    <3> QED  BY <2>1, <3>3, <3>4 DEF UsesKey
  <2>2. CASE ~Hit(cache, k)  BY <1>1, <1>2, <2>2 DEF Find
  <2> QED  BY <2>1, <2>2
<1>3. ASSUME NEW k \in Keys, NEW v \in Data, Update(k, v)
      PROVE  IInv' /\ UsesKey(k)
  <2>1. Reshaped(k, v)  BY <1>3, InPlaceShape, InsertShape, EvictShape DEF Update
  <2>a. PICK d \in Seq(Entries) : \E i \in DOMAIN d :
           Shape(d, i, k) /\ d[i].data = v /\ cache' = Touch(d, i)
    BY <2>1 DEF Reshaped
  <2>2. PICK i \in DOMAIN d :
           Shape(d, i, k) /\ d[i].data = v /\ cache' = Touch(d, i)
    BY <2>a
  <2>3. uses' = Used(k) /\ (evicted' = None \/ evicted' \in Keys \X Data)
    BY <1>3, <2>1 DEF Update, Reshaped
  <2>4. IInv'  BY <2>2, <2>3, UseKeeps
  <2>5. /\ NothingNew(k) /\ LostOldest(k) /\ Hit(cache', k)
        /\ cache'[LowerBound(cache', k)].data = d[i].data
    BY <2>2, UseShows
  <2> QED  BY <2>2, <2>4, <2>5 DEF UsesKey
<1>4. ASSUME NEW k \in Keys, Invalidate(k)
      PROVE  IInv' /\ Drops({k})
  <2> DEFINE I == IF Hit(cache, k) THEN {LowerBound(cache, k)} ELSE {}
  <2>1. cache' = [m \in DOMAIN cache |-> IF m \in I THEN Invalid(cache[m]) ELSE cache[m]]
    <3>1. CASE Hit(cache, k)
      <4>1. cache' = [cache EXCEPT ![LowerBound(cache, k)] =
                                      Invalid(cache[LowerBound(cache, k)])]
        BY <1>4, <3>1 DEF Invalidate
      <4>2. I = {LowerBound(cache, k)}  BY <3>1
      <4> HIDE DEF I
      <4>3. cache \in Seq(Entries)  BY Facts
      <4> QED  BY <4>1, <4>2, <4>3
    <3>2. CASE ~Hit(cache, k)
      <4>1. cache' = cache /\ I = {} /\ cache \in Seq(Entries)
        BY <1>4, <3>2, Facts DEF Invalidate
      <4> HIDE DEF I
      <4> QED  BY <4>1
    <3> QED  BY <3>1, <3>2
  <2>2. \A m \in DOMAIN cache : IsValid(cache[m]) => (m \in I <=> cache[m].key \in {k})
    <3>1. /\ \A m \in DOMAIN cache : cache[m].key = k => m = LowerBound(cache, k)
          /\ Hit(cache, k) <=> \E m \in DOMAIN cache : cache[m].key = k /\ IsValid(cache[m])
      BY Facts, HitIs
    <3>2. Hit(cache, k) => cache[LowerBound(cache, k)].key = k  BY DEF Hit
    <3> QED  BY <3>1, <3>2
  <2>3. uses' = Unused({k}) /\ evicted' = None /\ {k} \in SUBSET Keys
    BY <1>4 DEF Invalidate
  <2> HIDE DEF I
  <2> QED  BY <2>1, <2>2, <2>3, InvalidKeeps DEF Drops
<1>5. ASSUME NEW f \in Keys, NEW l \in Keys, f < l, InvalidateRange(f, l)
      PROVE  \E S \in SUBSET Keys : IInv' /\ Drops(S)
  <2> DEFINE I == {m \in DOMAIN cache : LowerBound(cache, f) <= m /\ m < LowerBound(cache, l)}
             S == {k \in Keys : f <= k /\ k < l}
  <2>1. cache' = [m \in DOMAIN cache |-> IF m \in I THEN Invalid(cache[m]) ELSE cache[m]]
    BY <1>5 DEF InvalidateRange
  <2>2. ASSUME NEW m \in DOMAIN cache PROVE m \in I <=> cache[m].key \in S
    <3>1. ASSUME NEW k \in Keys
          PROVE  LowerBound(cache, k) <= m <=> k <= cache[m].key
      <4> DEFINE i == LowerBound(cache, k)
      <4>1. /\ i \in 1..(Len(cache) + 1) /\ \A j \in 1..(i - 1) : cache[j].key < k
            /\ i <= Len(cache) => cache[i].key >= k
        BY Facts, LowerBoundIs
      <4> HIDE DEF i
      <4>2. /\ m \in 1..Len(cache) /\ Len(cache) \in Nat /\ k \in Nat
            /\ cache[m].key \in Nat
        BY Facts, KeysAssumption
      <4>3. CASE m < i
        <5>1. m \in 1..(i - 1) /\ ~(i <= m)  BY <4>1, <4>2, <4>3
        <5>2. cache[m].key < k  BY <4>1, <5>1
        <5> QED  BY <4>2, <5>1, <5>2 DEF i
      <4>4. CASE i <= m
        <5>1. i \in DOMAIN cache /\ i <= Len(cache) /\ (i = m \/ i < m)
          BY <4>1, <4>2, <4>4, Facts
        <5>2. i = m \/ cache[i].key < cache[m].key  BY <5>1, Facts DEF Sorted
        <5>3. cache[i].key \in Nat /\ cache[i].key >= k  BY <4>1, <5>1, Facts
        <5> QED  BY <4>2, <4>4, <5>2, <5>3 DEF i
      <4> QED  BY <4>1, <4>2, <4>3, <4>4
    <3>2. LowerBound(cache, l) \in 1..(Len(cache) + 1) /\ m \in Nat
      BY Facts, LowerBoundIs
    <3>3. m < LowerBound(cache, l) <=> ~(LowerBound(cache, l) <= m)  BY <3>2, Facts
    <3>4. cache[m].key \in Keys /\ cache[m].key \in Nat /\ l \in Nat
      BY Facts, KeysAssumption
    <3>5. cache[m].key < l <=> ~(l <= cache[m].key)  BY <3>4
    <3> QED  BY <3>1, <3>3, <3>4, <3>5
  <2>3. uses' = Unused(S) /\ evicted' = None /\ S \in SUBSET Keys
    BY <1>5 DEF InvalidateRange
  <2> HIDE DEF I, S
  <2>4. IInv' /\ Drops(S)  BY <2>1, <2>2, <2>3, InvalidKeeps DEF Drops
  <2> QED  BY <2>3, <2>4
<1>6. ASSUME UNCHANGED vars
      PROVE  IInv' /\ UNCHANGED <<cache, uses>>
  BY <1>1, <1>6 DEF vars
<1>7. CASE Next
  <2>1. CASE \E k \in Keys : Find(k) \/ Invalidate(k)
    <3>1. \A k \in Keys : {k} \in SUBSET Keys  OBVIOUS
    <3> QED  BY <1>2, <1>4, <2>1, <3>1
  <2>2. CASE \E k \in Keys, v \in Data : Update(k, v)  BY <1>3, <2>2
  <2>3. CASE \E f, l \in Keys : f < l /\ InvalidateRange(f, l)  BY <1>5, <2>3
  <2> QED  BY <1>7, <2>1, <2>2, <2>3 DEF Next
<1> QED  BY <1>6, <1>7

-----------------------------------------------------------------------------
(* Theorems *)

\* The empty vector
LEMMA InitIInv == Init => IInv
<1> SUFFICES ASSUME Init PROVE IInv
  OBVIOUS
<1>1. cache = <<>> /\ evicted = None /\ uses = {}  BY DEF Init
<1>2. <<>> \in Seq(Entries) /\ Len(<<>>) = 0 /\ DOMAIN <<>> = {}  OBVIOUS
<1>3. 0 <= LenMax  BY LenMaxAssumption
<1>4. Typed  BY <1>1, <1>2, <1>3 DEF Typed
<1> QED  BY <1>1, <1>2, <1>4 DEF IInv, SortedUnique, UsesInv, RankInv

\* The inductive invariant of flat_lru: sorted, and ranked by the last use.
THEOREM Invariance == Spec => []IInv
<1>1. IInv /\ [Next]_vars => IInv'  BY StepShows
<1> QED  BY <1>1, InitIInv, PTL DEF Spec

\* The vector stays sorted with no key twice, through every rotation of update().
THEOREM StaysSorted == Spec => []SortedUnique
<1>1. IInv => SortedUnique  BY DEF IInv
<1> QED  BY <1>1, Invariance, PTL

\* What was invalidated is not found before it is stored again.
THEOREM StaysGone == Spec => []InvalidatedStaysGone
<1>1. IInv => InvalidatedStaysGone
  <2> SUFFICES ASSUME IInv, NEW k \in Keys, Hit(cache, k)
               PROVE  <<k, k>> \in uses
    BY DEF InvalidatedStaysGone, Present, InUse
  <2> DEFINE i == LowerBound(cache, k)
  <2>1. i \in DOMAIN cache /\ cache[i].key = k /\ IsValid(cache[i])  BY DEF Hit
  <2> HIDE DEF i
  <2>2. cache[i].refs \in Nat  BY <2>1, Facts
  <2>3. cache[i].refs <= cache[i].refs  BY <2>2
  <2> QED  BY <2>1, <2>3 DEF IInv, RankInv
<1> QED  BY <1>1, Invariance, PTL

\* An entry that update() evicts, or that touch() ages out, was used before all
\* those that stay.
THEOREM LeastRecentGoes == Spec => EvictsLeastRecent
<1> DEFINE A == \A k \in Present \ Present' :
                   k \in InUse' => \A x \in Present \cap Present' : <<x, k>> \in uses
<1>1. IInv /\ [Next]_vars => A
  <2> SUFFICES ASSUME IInv, [Next]_vars, NEW k \in Keys, Hit(cache, k), ~Hit(cache', k),
                      <<k, k>> \in uses', NEW x \in Keys, Hit(cache, x)
               PROVE  <<x, k>> \in uses
    BY DEF Present, InUse
  <2>1. CASE \E u \in Keys : UsesKey(u)
    <3>1. PICK u \in Keys : UsesKey(u)  BY <2>1
    <3>2. u # k /\ LostOldest(u)  BY <3>1 DEF UsesKey
    <3> QED  BY <3>2 DEF LostOldest
  <2>2. CASE \E S \in SUBSET Keys : Drops(S)
    <3>1. PICK S \in SUBSET Keys : Drops(S)  BY <2>2
    <3>2. k \in S /\ uses' = Unused(S)  BY <3>1 DEF Drops
    <3>3. <<k, k>> \notin Unused(S)  BY <3>2 DEF Unused
    <3> QED  BY <3>2, <3>3
  <2>3. CASE UNCHANGED <<cache, uses>>
    <3>1. cache' = cache  BY <2>3
    <3> QED  BY <3>1
  <2> QED  BY <2>1, <2>2, <2>3, StepShows
<1>2. IInv /\ [Next]_vars => [A]_vars  BY <1>1
<1> HIDE DEF A
<1>3. Spec => [][A]_vars  BY <1>2, Invariance, PTL DEF Spec
<1> QED  BY <1>3 DEF EvictsLeastRecent, A

\* What a lookup gives
LookupIn(c, k) == IF Hit(c, k) THEN c[LowerBound(c, k)].data ELSE None
Lookup == [k \in Keys |-> LookupIn(cache, k)]

LEMMA LookupType ==
    ASSUME NEW c \in Seq(Entries), NEW k \in Keys
    PROVE  LookupIn(c, k) \in Data \cup {None}
<1> DEFINE i == LowerBound(c, k)
<1>1. CASE Hit(c, k)
  <2>1. i \in DOMAIN c  BY <1>1 DEF Hit
  <2> HIDE DEF i
  <2>2. c[i].data \in Data \cup {None}  BY <2>1, EntryTypes
  <2> QED  BY <1>1, <2>2 DEF LookupIn, i
<1>2. CASE ~Hit(c, k)  BY <1>2 DEF LookupIn
<1> QED  BY <1>1, <1>2

\* Every step of flat_lru is a step of LossyMap or leaves what lookups give.
LEMMA StepContract ==
    ASSUME IInv, IInv', [Next]_vars
    PROVE  [Contract!Next]_Lookup
<1>1. cache \in Seq(Entries) /\ cache' \in Seq(Entries)
  BY DEF IInv, SortedUnique, Typed
<1>2. Lookup' = [k \in Keys |-> LookupIn(cache', k)]  BY DEF Lookup, LookupIn, Hit, LowerBound, IsValid
<1>3. /\ Lookup' \in [Keys -> Data \cup {None}]
      /\ \A k \in Keys : Lookup[k] = LookupIn(cache, k) /\ Lookup'[k] = LookupIn(cache', k)
  BY <1>1, <1>2, LookupType DEF Lookup
<1>5. ASSUME \A k \in Keys : Lookup'[k] \in {Lookup[k], None}
      PROVE  Contract!Remove
  <2>1. Lookup' \in {f \in [Keys -> Data \cup {None}] :
                        \A x \in Keys : f[x] \in {Lookup[x], None}}
    BY <1>3, <1>5
  <2> QED  BY <2>1 DEF Contract!Remove, Contract!Stores, Lookup, LookupIn
<1>6. ASSUME NEW k \in Keys, UsesKey(k)
      PROVE  Contract!Next
  <2>1. ASSUME NEW x \in Keys, x # k PROVE Lookup'[x] \in {Lookup[x], None}
    <3>1. Hit(cache', x) => LookupIn(cache', x) = LookupIn(cache, x)
      BY <1>6, <2>1 DEF UsesKey, NothingNew, LookupIn
    <3>2. ~Hit(cache', x) => LookupIn(cache', x) = None  BY DEF LookupIn
    <3> QED  BY <1>3, <3>1, <3>2
  <2>2. \/ Lookup'[k] = Lookup[k]
        \/ Lookup'[k] \in Data
    BY <1>3, <1>6 DEF UsesKey, LookupIn
  <2>3. CASE Lookup'[k] = Lookup[k]
    <3>1. \A x \in Keys : Lookup'[x] \in {Lookup[x], None}  BY <2>1, <2>3
    <3> QED  BY <1>5, <3>1 DEF Contract!Next
  <2>4. CASE Lookup'[k] \in Data
    <3>1. Contract!Put(k, Lookup'[k])
      <4>1. Lookup' \in {f \in [Keys -> Data \cup {None}] :
                f[k] = Lookup'[k] /\ \A x \in Keys \ {k} : f[x] \in {Lookup[x], None}}
        BY <1>3, <2>1
      <4> QED  BY <4>1 DEF Contract!Put, Contract!Stores, Lookup, LookupIn
    <3> QED  BY <2>4, <3>1 DEF Contract!Next
  <2> QED  BY <2>2, <2>3, <2>4
<1>7. ASSUME NEW S \in SUBSET Keys, Drops(S)
      PROVE  Contract!Next
  <2>1. ASSUME NEW x \in Keys PROVE Lookup'[x] \in {Lookup[x], None}
    <3>1. Hit(cache', x) => LookupIn(cache', x) = LookupIn(cache, x)
      BY <1>7 DEF Drops, LookupIn
    <3>2. ~Hit(cache', x) => LookupIn(cache', x) = None  BY DEF LookupIn
    <3> QED  BY <1>3, <3>1, <3>2
  <2> QED  BY <1>5, <2>1 DEF Contract!Next
<1>8. ASSUME UNCHANGED <<cache, uses>> PROVE Lookup' = Lookup
  <2>1. cache' = cache  BY <1>8
  <2> QED  BY <1>2, <2>1 DEF Lookup
<1> QED  BY <1>6, <1>7, <1>8, StepShows

\* flat_lru implements LossyMap: whatever was inserted, rotated, evicted and
\* invalidated, a lookup gives what was stored last under the key, or nothing.
THEOREM Implements == Spec => ImplementsContract
<1>1. Init => Contract!Init
  <2> SUFFICES ASSUME Init PROVE Contract!Init
    OBVIOUS
  <2>1. cache = <<>>  BY DEF Init
  <2>2. \A k \in Keys : ~Hit(cache, k)  BY <2>1 DEF Hit
  <2> QED  BY <2>2 DEF Contract!Init
<1>2. IInv /\ IInv' /\ [Next]_vars => [Contract!Next]_Lookup  BY StepContract
<1> QED  BY <1>1, <1>2, Invariance, PTL
         DEF Spec, ImplementsContract, Contract!Spec, Lookup, LookupIn
============================================================================
