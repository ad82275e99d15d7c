-------------------------- MODULE TargetStackProofs --------------------------
(***************************************************************************)
(* What the stacks guarantee for any number of groups, mirrors, cells and  *)
(* requests, and any length of strips and of read strips: mirrors hold     *)
(* what was answered, reads find it, a flush keeps it, and an error takes  *)
(* offline what it happened in.  On files that have to grow, the handler   *)
(* of a short read takes from that, but only writes that had not been      *)
(* answered when the read was sent and that it met already executed; on    *)
(* files that are long enough from the start it takes nothing.             *)
(***************************************************************************)
EXTENDS TargetStack, FiniteSetTheorems, TLAPS

-----------------------------------------------------------------------------
(* Division *)

\* Division with remainder
LEMMA DivMod ==
    ASSUME NEW a \in Nat, NEW w \in Nat \ {0}
    PROVE  /\ a % w \in 0..(w - 1) /\ (a \div w) \in Nat
           /\ a = (a \div w) * w + (a % w)
OBVIOUS

\* A greater multiple is greater by at least one whole.
LEMMA NextMultiple ==
    ASSUME NEW w \in Nat, NEW p \in Nat, NEW q \in Nat, p < q
    PROVE  p * w + w <= q * w
<1>1. q - p - 1 \in Nat  OBVIOUS
<1>2. (q - p - 1) * w >= 0  BY <1>1
<1>3. (q - p - 1) * w = q * w - p * w - w  OBVIOUS
<1> QED  BY <1>2, <1>3

\* What lies between two multiples
LEMMA DivIs ==
    ASSUME NEW w \in Nat \ {0}, NEW a \in Nat, NEW p \in Nat
    PROVE  a \div w = p <=> p * w <= a /\ a < p * w + w
<1> DEFINE q == a \div w
           r == a % w
           e == p * w
           f == q * w
<1>1. r \in 0..(w - 1) /\ q \in Nat /\ a = f + r  BY DivMod
<1> HIDE DEF q, r
<1>2. e \in Nat /\ f \in Nat  BY <1>1
<1>3. CASE p = q
  <2>1. e = f  BY <1>3
  <2> HIDE DEF e, f
  <2>2. e <= a /\ a < e + w  BY <1>1, <1>2, <2>1
  <2> QED  BY <1>3, <2>2 DEF e, q
<1>4. CASE p < q
  <2>1. e + w <= f  BY <1>1, <1>4, NextMultiple
  <2> HIDE DEF e, f
  <2>2. ~(a < e + w)  BY <1>1, <1>2, <2>1
  <2> QED  BY <1>4, <2>2 DEF e, q
<1>5. CASE q < p
  <2>1. f + w <= e  BY <1>1, <1>5, NextMultiple
  <2> HIDE DEF e, f
  <2>2. ~(e <= a)  BY <1>1, <1>2, <2>1
  <2> QED  BY <1>5, <2>2 DEF e, q
<1> QED  BY <1>1, <1>3, <1>4, <1>5

\* A multiple and a remainder are unique.
LEMMA DivUnique ==
    ASSUME NEW w \in Nat \ {0}, NEW q \in Nat, NEW p \in Nat,
           NEW r \in 0..(w - 1), NEW t \in 0..(w - 1), q * w + r = p * w + t
    PROVE  q = p /\ r = t
<1> DEFINE e == p * w
           f == q * w
<1>1. e \in Nat /\ f \in Nat /\ f + r = e + t  OBVIOUS
<1>2. CASE q = p
  <2>1. e = f  BY <1>2
  <2> HIDE DEF e, f
  <2> QED  BY <1>1, <1>2, <2>1
<1>3. CASE q < p
  <2>1. f + w <= e  BY <1>3, NextMultiple
  <2> HIDE DEF e, f
  <2> QED  BY <1>1, <2>1
<1>4. CASE p < q
  <2>1. e + w <= f  BY <1>4, NextMultiple
  <2> HIDE DEF e, f
  <2> QED  BY <1>1, <2>1
<1> QED  BY <1>2, <1>3, <1>4

-----------------------------------------------------------------------------
(* The shape of a stack *)

\* How many groups and mirrors there are
NrGroups  == IF Striped THEN NGroups ELSE 1
NrMirrors == IF Mirrored THEN NMirrors ELSE 1

LEMMA ShapeIs ==
    /\ NrGroups \in Nat \ {0} /\ Groups = 0..(NrGroups - 1) /\ 0 \in Groups
    /\ NrMirrors \in Nat \ {0} /\ Mirrors = 0..(NrMirrors - 1) /\ 0 \in Mirrors
    /\ IsFiniteSet(Mirrors) /\ Cardinality(Mirrors) = NrMirrors
    /\ Cells \subseteq Nat /\ NCells \in Nat \ {0} /\ StripLen \in Nat \ {0}
<1>1. NrGroups \in Nat \ {0} /\ NrMirrors \in Nat \ {0} /\ NCells \in Nat \ {0}
      /\ StripLen \in Nat \ {0}
  BY StackAssumption DEF NrGroups, NrMirrors
<1>2. Groups = 0..(NrGroups - 1) /\ Mirrors = 0..(NrMirrors - 1)
  BY DEF Groups, Mirrors, NrGroups, NrMirrors
<1>3. 0 \in Groups /\ 0 \in Mirrors  BY <1>1, <1>2
<1>4. IsFiniteSet(Mirrors) /\ Cardinality(Mirrors) = NrMirrors
  BY <1>1, <1>2, FS_Interval
<1>5. Cells \subseteq Nat  BY DEF Cells
<1> QED  BY <1>1, <1>2, <1>3, <1>4, <1>5

\* Requests cover cells.
LEMMA SpanIs ==
    ASSUME NEW q \in RWs
    PROVE  /\ First[q] \in Nat /\ Last[q] \in Nat /\ First[q] <= Last[q]
           /\ First[q] \in Cells /\ Last[q] \in Cells
           /\ First[q]..Last[q] \subseteq Cells
<1>1. First[q] \in Cells /\ Last[q] \in Cells /\ First[q] <= Last[q]  BY SpanAssumption
<1> QED  BY <1>1, ShapeIs DEF Cells

\* A cell has a place in a group.
LEMMA PlaceIs ==
    ASSUME NEW c \in Nat
    PROVE  /\ Place(c) = [g |-> Place(c).g, off |-> Place(c).off]
           /\ Place(c).g \in Groups /\ Place(c).off \in Nat
<1>1. CASE ~Striped
  <2>1. Place(c) = [g |-> 0, off |-> c]  BY <1>1 DEF Place
  <2> QED  BY <2>1, ShapeIs
<1>2. CASE Striped
  <2> DEFINE strip == c \div StripLen
             x     == c % StripLen
             s     == strip \div NGroups
             d     == strip % NGroups
  <2>1. StripLen \in Nat \ {0} /\ NGroups \in Nat \ {0}  BY StackAssumption
  <2>2. x \in 0..(StripLen - 1) /\ strip \in Nat  BY <2>1, DivMod
  <2>3. Place(c) = [g |-> d, off |-> x + s * StripLen]  BY <1>2 DEF Place
  <2> HIDE DEF strip, x
  <2>4. d \in 0..(NGroups - 1) /\ s \in Nat  BY <2>1, <2>2, DivMod
  <2> HIDE DEF s, d
  <2>5. s * StripLen \in Nat  BY <2>1, <2>4
  <2>6. x + s * StripLen \in Nat  BY <2>2, <2>5
  <2>7. d \in Groups  BY <1>2, <2>4 DEF Groups
  <2> QED  BY <2>3, <2>6, <2>7
<1> QED  BY <1>1, <1>2

\* No two cells have the same.
LEMMA PlaceInjective ==
    ASSUME NEW c \in Nat, NEW d \in Nat, Place(c) = Place(d)
    PROVE  c = d
<1>1. CASE ~Striped  BY <1>1 DEF Place
<1>2. CASE Striped
  <2> DEFINE L  == StripLen
             N  == NGroups
             k  == c \div L
             x  == c % L
             l  == d \div L
             y  == d % L
  <2>1. L \in Nat \ {0} /\ N \in Nat \ {0}  BY StackAssumption
  <2>2. x \in 0..(L - 1) /\ k \in Nat /\ c = k * L + x  BY <2>1, DivMod
  <2>3. y \in 0..(L - 1) /\ l \in Nat /\ d = l * L + y  BY <2>1, DivMod
  <2>4. /\ Place(c) = [g |-> k % N, off |-> x + (k \div N) * L]
        /\ Place(d) = [g |-> l % N, off |-> y + (l \div N) * L]
    BY <1>2 DEF Place
  <2>5. k % N = l % N /\ x + (k \div N) * L = y + (l \div N) * L
    <3> DEFINE g == k % N
               h == l % N
               e == x + (k \div N) * L
               f == y + (l \div N) * L
    <3>1. Place(c) = [g |-> g, off |-> e] /\ Place(d) = [g |-> h, off |-> f]  BY <2>4
    <3> HIDE DEF g, h, e, f
    <3> DEFINE P == [g |-> g, off |-> e]
               Q == [g |-> h, off |-> f]
    <3>2. P.g = g /\ P.off = e /\ Q.g = h /\ Q.off = f  OBVIOUS
    <3>3. P = Q  BY <3>1
    <3> HIDE DEF P, Q
    <3>4. g = h /\ e = f  BY <3>2, <3>3
    <3> QED  BY <3>4 DEF g, h, e, f
  <2> HIDE DEF k, x, l, y, L, N
  <2> DEFINE s == k \div N
             t == l \div N
  <2>6. s \in Nat /\ t \in Nat /\ k = s * N + (k % N) /\ l = t * N + (l % N)
    BY <2>1, <2>2, <2>3, DivMod
  <2>7. s * L + x = t * L + y
    <3> DEFINE e == s * L
               f == t * L
    <3>1. e \in Nat /\ f \in Nat /\ x + e = y + f  BY <2>1, <2>5, <2>6
    <3> HIDE DEF e, f
    <3>2. e + x = f + y  BY <2>1, <2>2, <2>3, <3>1
    <3> QED  BY <3>2 DEF e, f
  <2> HIDE DEF s, t
  <2>8. s = t /\ x = y  BY <2>1, <2>2, <2>3, <2>6, <2>7, DivUnique
  <2>9. k = l  BY <2>5, <2>6, <2>8
  <2> QED  BY <2>2, <2>3, <2>8, <2>9
<1> QED  BY <1>1, <1>2

\* The cells of a strip follow each other.
LEMMA PlaceRun ==
    ASSUME NEW c \in Nat, NEW d \in Nat, c <= d, PartOf(c) = PartOf(d)
    PROVE  Place(d) = [g |-> Place(c).g, off |-> Place(c).off + (d - c)]
<1>1. CASE ~Striped  BY <1>1 DEF Place
<1>2. CASE Striped
  <2> DEFINE L == StripLen
             k == c \div L
             s == (k \div NGroups) * L
             x == c % L
             y == d % L
             e == k * L
  <2>1. L \in Nat \ {0} /\ NGroups \in Nat \ {0}  BY StackAssumption
  <2>2. d \div L = k  BY <1>2 DEF PartOf
  <2>3. x \in 0..(L - 1) /\ k \in Nat /\ c = e + x  BY <2>1, DivMod
  <2>4. y \in 0..(L - 1) /\ d = e + y  BY <2>1, <2>2, DivMod
  <2>5. /\ Place(c) = [g |-> k % NGroups, off |-> x + s]
        /\ Place(d) = [g |-> k % NGroups, off |-> y + s]
    BY <1>2, <2>2 DEF Place
  <2>6. s \in Nat
    <3> HIDE DEF k
    <3>1. (k \div NGroups) \in Nat  BY <2>1, <2>3, DivMod
    <3> QED  BY <2>1, <3>1
  <2>7. e \in Nat  BY <2>1, <2>3
  <2> HIDE DEF L, k, s, x, y, e
  <2>8. y + s = x + s + (d - c)  BY <2>1, <2>3, <2>4, <2>6, <2>7
  <2> QED  BY <2>5, <2>8
<1> QED  BY <1>1, <1>2

\* A part is a run of cells, and every cell is in one.
LEMMA PartIs ==
    ASSUME NEW q \in RWs, NEW p \in Parts(q)
    PROVE  \E a \in Nat, b \in Nat : a <= b /\ PartCells(q, p) = a..b
<1> DEFINE f == First[q]
           l == Last[q]
           L == StripLen
<1>1. f \in Nat /\ l \in Nat /\ f <= l  BY SpanIs
<1>2. CASE ~Striped
  <2>1. \A c \in f..l : PartOf(c) = p  BY <1>2 DEF PartOf, Parts
  <2>2. PartCells(q, p) = f..l  BY <2>1 DEF PartCells
  <2> QED  BY <1>1, <2>2
<1>3. CASE Striped
  <2>1. L \in Nat \ {0}  BY ShapeIs
  <2>2. (f \div L) \in Nat /\ (l \div L) \in Nat  BY <1>1, <2>1, DivMod
  <2>3. p \in (f \div L)..(l \div L)  BY <1>3 DEF Parts, PartOf
  <2>4. p \in Nat /\ (f \div L) <= p /\ p <= (l \div L)  BY <2>2, <2>3
  <2> DEFINE e == p * L
             a == IF f < e THEN e ELSE f
             b == IF l < e + L THEN l ELSE e + L - 1
  <2>5. e \in Nat  BY <2>1, <2>4
  <2>6. \A c \in Nat : c \div L = p <=> (e <= c /\ c < e + L)  BY <2>1, <2>4, DivIs
  <2>7. f < e + L
    <3>1. CASE f \div L = p  BY <1>1, <2>6, <3>1
    <3>2. CASE f \div L < p
      <4> DEFINE k == f \div L
                 g == k * L
      <4>1. k \in Nat /\ k < p  BY <2>2, <3>2
      <4>2. f < g + L  BY <1>1, <2>1, <2>2, DivIs
      <4> HIDE DEF k
      <4>3. g + L <= e /\ g \in Nat  BY <2>1, <2>4, <4>1, NextMultiple
      <4> HIDE DEF g, e
      <4> QED  BY <1>1, <2>1, <2>5, <4>2, <4>3
    <3> QED  BY <2>2, <2>4, <3>1, <3>2
  <2>8. e <= l
    <3>1. CASE l \div L = p  BY <1>1, <2>6, <3>1
    <3>2. CASE p < l \div L
      <4> DEFINE k == l \div L
                 g == k * L
      <4>1. k \in Nat /\ p < k  BY <2>2, <3>2
      <4>2. g <= l  BY <1>1, <2>1, <2>2, DivIs
      <4> HIDE DEF k
      <4>3. e + L <= g /\ g \in Nat  BY <2>1, <2>4, <4>1, NextMultiple
      <4> HIDE DEF g, e
      <4> QED  BY <1>1, <2>1, <2>5, <4>2, <4>3
    <3> QED  BY <2>2, <2>4, <3>1, <3>2
  <2>9. \A c \in f..l : PartOf(c) = p <=> (e <= c /\ c < e + L)
    BY <1>1, <1>3, <2>6 DEF PartOf
  <2> HIDE DEF e, f, l, L
  <2>10. a \in Nat /\ b \in Nat /\ a <= b  BY <1>1, <2>1, <2>5, <2>7, <2>8
  <2>11. {c \in f..l : e <= c /\ c < e + L} = a..b
    BY <1>1, <2>1, <2>5, <2>7, <2>8
  <2>12. PartCells(q, p) = a..b  BY <2>9, <2>11 DEF PartCells, f, l
  <2> HIDE DEF a, b
  <2> QED  BY <2>10, <2>12
<1> QED  BY <1>2, <1>3

\* Division keeps the order.
LEMMA DivMono ==
    ASSUME NEW w \in Nat \ {0}, NEW a \in Nat, NEW b \in Nat, a <= b
    PROVE  a \div w <= b \div w
<1> DEFINE k == a \div w
           m == b \div w
           g == k * w
           h == m * w
<1>1. k \in Nat /\ m \in Nat /\ g <= a /\ b < h + w  BY DivMod, DivIs
<1>2. CASE m < k
  <2> HIDE DEF k, m
  <2>1. h + w <= g /\ h \in Nat /\ g \in Nat  BY <1>1, <1>2, NextMultiple
  <2> HIDE DEF g, h
  <2> QED  BY <1>1, <2>1
<1> QED  BY <1>1, <1>2

LEMMA EveryCellInPart ==
    ASSUME NEW q \in RWs, NEW c \in First[q]..Last[q]
    PROVE  PartOf(c) \in Parts(q) /\ c \in PartCells(q, PartOf(c))
<1> DEFINE f == First[q]
           l == Last[q]
           L == StripLen
<1>1. f \in Nat /\ l \in Nat /\ c \in Nat /\ f <= c /\ c <= l  BY SpanIs
<1>2. c \in PartCells(q, PartOf(c))  BY DEF PartCells
<1>3. CASE ~Striped  BY <1>2, <1>3 DEF PartOf, Parts
<1>4. CASE Striped
  <2>1. L \in Nat \ {0}  BY ShapeIs
  <2>3. (f \div L) \in Nat /\ (l \div L) \in Nat /\ (c \div L) \in Nat  BY <1>1, <2>1, DivMod
  <2>4. (f \div L) <= (c \div L) /\ (c \div L) <= (l \div L)  BY <1>1, <2>1, DivMono
  <2> QED  BY <1>2, <1>4, <2>3, <2>4 DEF PartOf, Parts
<1> QED  BY <1>3, <1>4

\* They are finitely many.
LEMMA PartsFinite ==
    ASSUME NEW q \in RWs
    PROVE  IsFiniteSet(Parts(q))
<1>1. CASE ~Striped
  <2>1. Parts(q) = 0..0  BY <1>1 DEF Parts, PartOf
  <2>2. Parts(q) = {0}  BY <2>1
  <2>3. IsFiniteSet({0})  BY FS_Singleton
  <2> QED  BY <2>2, <2>3
<1>2. CASE Striped
  <2> DEFINE a == First[q] \div StripLen
             b == Last[q] \div StripLen
  <2>1. a \in Nat /\ b \in Nat  BY SpanIs, ShapeIs, DivMod
  <2>2. Parts(q) = a..b  BY <1>2 DEF Parts, PartOf
  <2> HIDE DEF a, b
  <2> QED  BY <2>1, <2>2, FS_Interval
<1> QED  BY <1>1, <1>2

\* Where a part begins, how long it is, and where its cells lie
LEMMA PartRun ==
    ASSUME NEW q \in RWs, NEW p \in Parts(q)
    PROVE  /\ PartFirst(q, p) \in Nat /\ PartLen(q, p) \in Nat \ {0}
           /\ PartCells(q, p) = PartFirst(q, p)..(PartFirst(q, p) + PartLen(q, p) - 1)
           /\ PartCells(q, p) \subseteq Cells /\ PartCells(q, p) \subseteq First[q]..Last[q]
           /\ p \in Nat /\ PartGroup(q, p) \in Groups
           /\ \A c \in PartCells(q, p) : Place(c).g = PartGroup(q, p)
           /\ \A c, d \in PartCells(q, p) : c <= d =>
                 Place(d) = [g |-> Place(c).g, off |-> Place(c).off + (d - c)]
<1> DEFINE C == PartCells(q, p)
           f == PartFirst(q, p)
<1>1. PICK a \in Nat, b \in Nat : a <= b /\ C = a..b  BY PartIs
<1>2. f = a
  <2>1. a \in C /\ \A d \in C : a <= d  BY <1>1
  <2>2. ASSUME NEW c \in C, \A d \in C : c <= d PROVE c = a
    <3>1. c <= a /\ a <= c  BY <2>1, <2>2
    <3>2. c \in Nat  BY <1>1
    <3> QED  BY <3>1, <3>2
  <2> HIDE DEF C
  <2> QED  BY <2>1, <2>2 DEF PartFirst, C
<1>3. PartLen(q, p) = b - a + 1  BY <1>1, FS_Interval DEF PartLen
<1>4. f \in Nat /\ PartLen(q, p) \in Nat \ {0} /\ C = f..(f + PartLen(q, p) - 1)
  BY <1>1, <1>2, <1>3
<1>5. C \subseteq Cells /\ C \subseteq First[q]..Last[q]  BY SpanIs DEF PartCells
<1>6. p \in Nat
  <2>1. CASE ~Striped  BY <2>1 DEF Parts, PartOf
  <2>2. CASE Striped
    <3>1. (First[q] \div StripLen) \in Nat /\ (Last[q] \div StripLen) \in Nat
      BY SpanIs, ShapeIs, DivMod
    <3> QED  BY <2>2, <3>1 DEF Parts, PartOf
  <2> QED  BY <2>1, <2>2
<1>7. \A c \in C : c \in Nat /\ PartOf(c) = p  BY <1>1 DEF PartCells
<1>8. \A c, d \in C : c <= d =>
         Place(d) = [g |-> Place(c).g, off |-> Place(c).off + (d - c)]
  BY <1>7, PlaceRun
<1>9. f \in C /\ \A c \in C : f <= c  BY <1>1, <1>2
<1>10. PartGroup(q, p) = Place(f).g  BY DEF PartGroup
<1>11. \A c \in C : Place(c).g = Place(f).g  BY <1>8, <1>9
<1>12. Place(f).g \in Groups  BY <1>4, PlaceIs
<1> QED  BY <1>4, <1>5, <1>6, <1>8, <1>10, <1>11, <1>12

-----------------------------------------------------------------------------
(* Submitting *)

\* The operation submitted for some cells of a part
LEMMA OpIs ==
    ASSUME NEW q \in RWs, NEW p \in Parts(q), NEW m \in Mirrors, NEW c \in Nat,
           NEW len \in Nat \ {0}, c..(c + len - 1) \subseteq PartCells(q, p),
           NEW o, o = Op(q, p, m, c, len)
    PROVE  /\ o \in OpRecords /\ Located(o)
           /\ o.q = q /\ o.p = p /\ o.m = m /\ o.ph = "sent" /\ o.res = <<>>
           /\ OpCells(o) = c..(c + len - 1)
<1>1. /\ o = [q |-> q, p |-> p, g |-> Place(c).g, m |-> m, c |-> c, off |-> Place(c).off,
              len |-> len, ph |-> "sent", res |-> <<>>]
      /\ o.q = q /\ o.p = p /\ o.g = Place(c).g /\ o.m = m /\ o.c = c
      /\ o.off = Place(c).off /\ o.len = len /\ o.ph = "sent" /\ o.res = <<>>
  BY DEF Op
<1>2. c \in c..(c + len - 1)  OBVIOUS
<1>3. /\ p \in Nat /\ c \in PartCells(q, p) /\ c \in Cells /\ Place(c).g = PartGroup(q, p)
      /\ Place(c).g \in Groups
  BY <1>2, PartRun
<1>4. Place(c).off \in Nat  BY PlaceIs
<1>5. <<>> \in Seq(Values)  OBVIOUS
<1>6. o \in OpRecords  BY <1>1, <1>3, <1>4, <1>5 DEF OpRecords
<1>7. OpCells(o) = c..(c + len - 1)  BY <1>1 DEF OpCells
<1>8. ASSUME NEW d \in OpCells(o)
      PROVE  Place(d) = [g |-> o.g, off |-> o.off + (d - o.c)]
  <2>1. d \in PartCells(q, p) /\ c <= d  BY <1>7
  <2> QED  BY <1>1, <1>3, <2>1, PartRun
<1>9. Located(o)  BY <1>1, <1>3, <1>7, <1>8 DEF Located
<1> QED  BY <1>1, <1>6, <1>7, <1>9

\* What is taken of a request
LEMMA TakenIs ==
    ASSUME NEW q \in RWs
    PROVE  /\ Taken(q) \subseteq Parts(q)
           /\ ~Refused(q) => Taken(q) = Parts(q)
           /\ Taken(q) = {} => Refused(q)
<1>1. First[q] \in First[q]..Last[q]  BY SpanIs
<1>2. Parts(q) # {}  BY <1>1, EveryCellInPart
<1> QED  BY <1>2 DEF Taken, Refused

\* What the submitters of a write put to work: what is taken of it, on each mirror.
LEMMA WriteOpsAre ==
    ASSUME NEW w \in Writes
    PROVE  /\ \A o \in WriteOps(w) : /\ o \in OpRecords /\ Located(o)
                                     /\ o.q = w /\ o.ph = "sent" /\ o.res = <<>>
           /\ Taken(w) = {} => WriteOps(w) = {}
           /\ ~Refused(w) => \A c \in First[w]..Last[w], m \in Mirrors :
                 \E o \in WriteOps(w) : o.m = m /\ c \in OpCells(o)
<1>1. w \in RWs  BY DEF RWs
<1> DEFINE O(p, m) == Op(w, p, m, PartFirst(w, p), PartLen(w, p))
<1>2. ASSUME NEW p \in Parts(w), NEW m \in Mirrors
      PROVE  /\ O(p, m) \in OpRecords /\ Located(O(p, m))
             /\ O(p, m).q = w /\ O(p, m).m = m /\ O(p, m).ph = "sent" /\ O(p, m).res = <<>>
             /\ OpCells(O(p, m)) = PartCells(w, p)
  <2> DEFINE f == PartFirst(w, p)
             l == PartLen(w, p)
             o == O(p, m)
  <2>1. f \in Nat /\ l \in Nat \ {0} /\ PartCells(w, p) = f..(f + l - 1)
    BY <1>1, PartRun
  <2>2. o = Op(w, p, m, f, l)  OBVIOUS
  <2> HIDE DEF f, l, o
  <2>3. /\ o \in OpRecords /\ Located(o)
        /\ o.q = w /\ o.m = m /\ o.ph = "sent" /\ o.res = <<>>
        /\ OpCells(o) = f..(f + l - 1)
    BY <1>1, <2>1, <2>2, OpIs
  <2> QED  BY <2>1, <2>3 DEF o
<1>3. WriteOps(w) = {O(p, m) : p \in Taken(w), m \in Mirrors}  BY DEF WriteOps
<1> HIDE DEF O
<1>4. ASSUME NEW o \in WriteOps(w)
      PROVE  o \in OpRecords /\ Located(o) /\ o.q = w /\ o.ph = "sent" /\ o.res = <<>>
  <2>1. PICK p \in Taken(w), m \in Mirrors : o = O(p, m)  BY <1>3
  <2>2. p \in Parts(w)  BY <1>1, TakenIs
  <2> QED  BY <1>2, <2>1, <2>2
<1>5. ASSUME ~Refused(w), NEW c \in First[w]..Last[w], NEW m \in Mirrors
      PROVE  \E o \in WriteOps(w) : o.m = m /\ c \in OpCells(o)
  <2>1. PartOf(c) \in Parts(w) /\ c \in PartCells(w, PartOf(c))  BY <1>1, EveryCellInPart
  <2>2. PartOf(c) \in Taken(w)  BY <1>1, <1>5, <2>1, TakenIs
  <2>3. O(PartOf(c), m) \in WriteOps(w)  BY <1>3, <2>2
  <2> QED  BY <1>2, <2>1, <2>3
<1>6. Taken(w) = {} => WriteOps(w) = {}  BY <1>3
<1> QED  BY <1>4, <1>5, <1>6

\* The chunks of a part of a read cover it, and are not empty.
LEMMA ChunksAre ==
    ASSUME NEW r \in RWs, NEW p \in Parts(r)
    PROVE  /\ ChunkLen \in Nat \ {0} /\ Chunks(r, p) \subseteq 0..NCells
           /\ \A i \in Chunks(r, p) :
                 /\ i * ChunkLen \in Nat /\ ChunkSize(r, p, i) \in Nat \ {0}
                 /\ i * ChunkLen + ChunkSize(r, p, i) <= PartLen(r, p)
           /\ \A c \in 0..(PartLen(r, p) - 1) : \E i \in Chunks(r, p) :
                 i * ChunkLen <= c /\ c < i * ChunkLen + ChunkSize(r, p, i)
<1> DEFINE L   == ChunkLen
           len == PartLen(r, p)
           n   == (len - 1) \div L
           f   == PartFirst(r, p)
           Size(i) == ChunkSize(r, p, i)
<1>1. L \in Nat \ {0}
  BY StackAssumption, ShapeIs DEF ChunkLen, ReadStripLen
<1>2. len \in Nat \ {0} /\ len - 1 \in Nat  BY PartRun
<1>3. len - 1 < NCells
  <2>1. f \in Nat /\ PartCells(r, p) = f..(f + len - 1) /\ PartCells(r, p) \subseteq Cells
    BY PartRun
  <2> HIDE DEF f, len
  <2>2. f + len - 1 \in Cells  BY <1>2, <2>1
  <2> QED  BY <1>2, <2>1, <2>2, ShapeIs DEF Cells
<1>4. Chunks(r, p) = 0..n  BY DEF Chunks
<1>5. \A i \in Nat : Size(i) = IF i * L + L <= len THEN L ELSE len - i * L
  BY DEF ChunkSize
<1> HIDE DEF L, len, Size
<1>6. n \in Nat  BY <1>1, <1>2, DivMod
<1>7. n <= len - 1
  <2> DEFINE k == len - 1
             e == n * L
  <2>1. k \in Nat /\ n = k \div L  BY <1>2
  <2> HIDE DEF k
  <2>2. e <= k /\ e \in Nat  BY <1>1, <1>6, <2>1, DivIs
  <2> HIDE DEF n
  <2>3. n <= e
    <3>1. n * (L - 1) >= 0  BY <1>1, <1>6
    <3>2. n * (L - 1) = e - n  BY <1>1, <1>6
    <3> QED  BY <1>6, <2>2, <3>1, <3>2
  <2> HIDE DEF e
  <2> QED  BY <1>6, <2>1, <2>2, <2>3 DEF k
<1>8. Chunks(r, p) \subseteq 0..NCells
  <2> HIDE DEF n
  <2> QED  BY <1>2, <1>3, <1>4, <1>6, <1>7, ShapeIs
<1>9. ASSUME NEW i \in 0..n
      PROVE  i * L \in Nat /\ Size(i) \in Nat \ {0} /\ i * L + Size(i) <= len
  <2> DEFINE e == i * L
             h == n * L
  <2>1. i \in Nat /\ i <= n  BY <1>6
  <2>2. h <= len - 1  BY <1>1, <1>2, <1>6, DivIs
  <2>3. e \in Nat /\ h \in Nat  BY <1>1, <1>6, <2>1
  <2>4. Size(i) = IF e + L <= len THEN L ELSE len - e  BY <1>5, <2>1
  <2>5. e <= h
    <3>1. CASE i = n  BY <2>3, <3>1
    <3>2. CASE i < n
      <4> HIDE DEF n
      <4>1. e + L <= h  BY <1>1, <1>6, <2>1, <3>2, NextMultiple
      <4> HIDE DEF e, h
      <4> QED  BY <1>1, <2>3, <4>1
    <3> HIDE DEF n, e, h
    <3> QED  BY <1>6, <2>1, <3>1, <3>2
  <2> HIDE DEF e, h
  <2> QED  BY <1>1, <1>2, <2>2, <2>3, <2>4, <2>5 DEF e
<1>10. ASSUME NEW c \in 0..(len - 1)
       PROVE  \E i \in 0..n : i * L <= c /\ c < i * L + Size(i)
  <2> DEFINE i == c \div L
             e == i * L
  <2>1. c \in Nat /\ c <= len - 1 /\ i \in Nat  BY <1>1, <1>2, DivMod
  <2>2. i <= n  BY <1>1, <1>2, <2>1, DivMono
  <2>3. e <= c /\ c < e + L /\ e \in Nat  BY <1>1, <2>1, DivIs
  <2>4. Size(i) = IF e + L <= len THEN L ELSE len - e  BY <1>5, <2>1
  <2> HIDE DEF i
  <2>5. i \in 0..n
    <3> HIDE DEF n
    <3> QED  BY <1>6, <2>1, <2>2
  <2> HIDE DEF e
  <2>6. c < e + Size(i)  BY <1>1, <1>2, <2>1, <2>3, <2>4
  <2> QED  BY <2>3, <2>5, <2>6 DEF e
<1> QED  BY <1>1, <1>4, <1>8, <1>9, <1>10 DEF L, len, Size

\* The operation for chunk i of part p of a read
ChunkOp(r, p, i) ==
    Op(r, p, (next_hid[PartGroup(r, p)] + Turns(r, PartGroup(r, p), p, i))
               % Cardinality(Mirrors),
       PartFirst(r, p) + i * ChunkLen, ChunkSize(r, p, i))

LEMMA ChunkOpIs ==
    ASSUME next_hid \in [Groups -> Mirrors], NEW r \in Reads, NEW p \in Parts(r),
           NEW i \in Chunks(r, p), NEW o, o = ChunkOp(r, p, i)
    PROVE  /\ o \in OpRecords /\ Located(o)
           /\ o.q = r /\ o.ph = "sent" /\ o.res = <<>>
           /\ OpCells(o) = (PartFirst(r, p) + i * ChunkLen)..
                              (PartFirst(r, p) + i * ChunkLen + ChunkSize(r, p, i) - 1)
<1> DEFINE f    == PartFirst(r, p)
           len  == PartLen(r, p)
           e    == i * ChunkLen
           size == ChunkSize(r, p, i)
           g    == PartGroup(r, p)
           t    == Turns(r, g, p, i)
           m    == (next_hid[g] + t) % Cardinality(Mirrors)
           c    == f + e
<1>1. r \in RWs  BY DEF RWs
<1>2. f \in Nat /\ PartCells(r, p) = f..(f + len - 1) /\ len \in Nat /\ g \in Groups
  BY <1>1, PartRun
<1>3. e \in Nat /\ size \in Nat \ {0} /\ e + size <= len  BY <1>1, ChunksAre
<1>4. i \in Nat
  <2>1. i \in 0..NCells  BY <1>1, ChunksAre
  <2> QED  BY <2>1
<1>5. t \in Nat
  <2> DEFINE D == {d \in Taken(r) : d < p /\ PartGroup(r, d) = g}
             B == UNION {{<<d, j>> : j \in Chunks(r, d)} : d \in D}
  <2>1. t = Cardinality(B) + i  BY DEF Turns
  <2>2. B \subseteq Parts(r) \X (0..NCells)
    <3>1. \A d \in D : d \in Parts(r)  BY <1>1, TakenIs
    <3>2. \A d \in D : \A j \in Chunks(r, d) : j \in 0..NCells  BY <1>1, <3>1, ChunksAre
    <3> QED  BY <3>1, <3>2
  <2>3. IsFiniteSet(Parts(r) \X (0..NCells))
    <3>1. IsFiniteSet(0..NCells)  BY ShapeIs, FS_Interval
    <3>2. IsFiniteSet(Parts(r))  BY <1>1, PartsFinite
    <3> QED  BY <3>1, <3>2, FS_Product
  <2> HIDE DEF B
  <2>4. Cardinality(B) \in Nat  BY <2>2, <2>3, FS_Subset, FS_CardinalityType
  <2> QED  BY <1>4, <2>1, <2>4
<1> HIDE DEF t, g, e, f, len, size
<1>6. next_hid[g] \in Nat  BY <1>2, ShapeIs
<1>7. m \in Mirrors
  <2>1. next_hid[g] + t \in Nat  BY <1>5, <1>6
  <2> QED  BY <2>1, ShapeIs, DivMod
<1> HIDE DEF m
<1>8. c \in Nat /\ c..(c + size - 1) \subseteq PartCells(r, p)  BY <1>2, <1>3
<1>9. o = Op(r, p, m, c, size)  BY DEF ChunkOp, m, c, size, t, g, e, f
<1> HIDE DEF c
<1>10. /\ o \in OpRecords /\ Located(o)
       /\ o.q = r /\ o.ph = "sent" /\ o.res = <<>> /\ OpCells(o) = c..(c + size - 1)
  BY <1>1, <1>3, <1>7, <1>8, <1>9, OpIs
<1> QED  BY <1>10 DEF c, e, f, size

\* What the submitters of a read put to work: chunks of what is taken of it.
LEMMA ReadOpsAre ==
    ASSUME next_hid \in [Groups -> Mirrors], NEW r \in Reads
    PROVE  /\ \A o \in ReadOps(r) : /\ o \in OpRecords /\ Located(o)
                                    /\ o.q = r /\ o.ph = "sent" /\ o.res = <<>>
           /\ Taken(r) = {} => ReadOps(r) = {}
           /\ ~Refused(r) => \A c \in First[r]..Last[r] :
                 \E o \in ReadOps(r) : c \in OpCells(o)
           /\ IsFiniteSet(ReadOps(r))
<1>1. r \in RWs  BY DEF RWs
<1>2. ReadOps(r) = UNION {{ChunkOp(r, p, i) : i \in Chunks(r, p)} : p \in Taken(r)}
  BY DEF ReadOps, ChunkOp
<1>3. Taken(r) \subseteq Parts(r)  BY <1>1, TakenIs
<1>4. ASSUME NEW o \in ReadOps(r)
      PROVE  o \in OpRecords /\ Located(o) /\ o.q = r /\ o.ph = "sent" /\ o.res = <<>>
  <2>1. PICK p \in Taken(r) : \E i \in Chunks(r, p) : o = ChunkOp(r, p, i)  BY <1>2
  <2>2. PICK i \in Chunks(r, p) : o = ChunkOp(r, p, i)  BY <2>1
  <2>3. p \in Parts(r)  BY <1>3
  <2> QED  BY <2>2, <2>3, ChunkOpIs
<1>5. ASSUME ~Refused(r), NEW c \in First[r]..Last[r]
      PROVE  \E o \in ReadOps(r) : c \in OpCells(o)
  <2> DEFINE p   == PartOf(c)
             f   == PartFirst(r, p)
             len == PartLen(r, p)
             x   == c - f
  <2>1. p \in Parts(r) /\ c \in PartCells(r, p)  BY <1>1, EveryCellInPart
  <2>2. p \in Taken(r)  BY <1>1, <1>5, <2>1, TakenIs
  <2>3. f \in Nat /\ len \in Nat /\ PartCells(r, p) = f..(f + len - 1)  BY <1>1, <2>1, PartRun
  <2> HIDE DEF p, f, len
  <2>4. x \in 0..(len - 1) /\ c = f + x  BY <2>1, <2>3
  <2> HIDE DEF x
  <2>5. PICK i \in Chunks(r, p) : i * ChunkLen <= x /\ x < i * ChunkLen + ChunkSize(r, p, i)
    BY <1>1, <2>1, <2>4, ChunksAre DEF len
  <2> DEFINE e == i * ChunkLen
             size == ChunkSize(r, p, i)
             o == ChunkOp(r, p, i)
  <2>6. e \in Nat /\ size \in Nat /\ e <= x /\ x < e + size  BY <1>1, <2>1, <2>5, ChunksAre
  <2>7. OpCells(o) = (f + e)..(f + e + size - 1)  BY <2>1, ChunkOpIs DEF f
  <2>8. o \in ReadOps(r)  BY <1>2, <2>2
  <2> HIDE DEF e, size, o
  <2>9. c \in OpCells(o)  BY <2>3, <2>4, <2>6, <2>7
  <2> QED  BY <2>8, <2>9
<1>6. Taken(r) = {} => ReadOps(r) = {}  BY <1>2
<1>7. IsFiniteSet(ReadOps(r))
  <2> DEFINE P == {t \in Parts(r) \X (0..NCells) : t[1] \in Taken(r) /\ t[2] \in Chunks(r, t[1])}
             F == [t \in P |-> ChunkOp(r, t[1], t[2])]
  <2>1. IsFiniteSet(P)
    <3>1. IsFiniteSet(0..NCells)  BY ShapeIs, FS_Interval
    <3>2. IsFiniteSet(Parts(r))  BY <1>1, PartsFinite
    <3>3. IsFiniteSet(Parts(r) \X (0..NCells))  BY <3>1, <3>2, FS_Product
    <3>4. P \in SUBSET (Parts(r) \X (0..NCells))  OBVIOUS
    <3> HIDE DEF P
    <3> QED  BY <3>3, <3>4, FS_Subset
  <2>2. \A o \in ReadOps(r) : \E t \in P : F[t] = o
    <3> SUFFICES ASSUME NEW o \in ReadOps(r) PROVE \E t \in P : F[t] = o
      OBVIOUS
    <3>1. PICK p \in Taken(r) : \E i \in Chunks(r, p) : o = ChunkOp(r, p, i)  BY <1>2
    <3>2. PICK i \in Chunks(r, p) : o = ChunkOp(r, p, i)  BY <3>1
    <3>3. <<p, i>> \in P  BY <1>1, <1>3, ChunksAre
    <3>4. F[<<p, i>>] = o  BY <3>2, <3>3
    <3> QED  BY <3>3, <3>4
  <2>3. F \in [P -> ReadOps(r)]  BY <1>2
  <2> HIDE DEF P, F
  <2>4. F \in Surjection(P, ReadOps(r))  BY <2>2, <2>3 DEF Surjection
  <2> QED  BY <2>1, <2>4, FS_Surjection
<1> QED  BY <1>4, <1>5, <1>6, <1>7

-----------------------------------------------------------------------------
(* What a system call does to a file *)

LEMMA AtIs ==
    ASSUME NEW f \in Seq(Values), NEW x \in Nat
    PROVE  At(f, x) \in Values
<1>1. CASE x < Len(f)
  <2>1. x + 1 \in 1..Len(f)  BY <1>1
  <2> QED  BY <1>1, <2>1 DEF At
<1>2. CASE ~(x < Len(f))  BY <1>2 DEF At, Values
<1> QED  BY <1>1, <1>2

LEMMA ResizedIs ==
    ASSUME NEW f \in Seq(Values), NEW n \in Nat
    PROVE  /\ Resized(f, n) \in Seq(Values)
           /\ \A x \in Nat : At(Resized(f, n), x) = IF x < n THEN At(f, x) ELSE Zero
<1> DEFINE G == [i \in 1..n |-> At(f, i - 1)]
<1>1. \A i \in 1..n : At(f, i - 1) \in Values
  <2>1. \A i \in 1..n : i - 1 \in Nat  OBVIOUS
  <2> QED  BY <2>1, AtIs
<1>2. G \in Seq(Values) /\ Len(G) = n  BY <1>1
<1>3. ASSUME NEW x \in Nat
      PROVE  At(G, x) = IF x < n THEN At(f, x) ELSE Zero
  <2>1. At(G, x) = IF x < Len(G) THEN G[x + 1] ELSE Zero  BY DEF At
  <2>2. x < n => x + 1 \in 1..n /\ (x + 1) - 1 = x  OBVIOUS
  <2>3. x < n => G[x + 1] = At(f, x)  BY <2>2
  <2> HIDE DEF G
  <2> QED  BY <1>2, <2>1, <2>3
<1> QED  BY <1>2, <1>3 DEF Resized

LEMMA WrittenIs ==
    ASSUME NEW f \in Seq(Values), NEW off \in Nat, NEW len \in Nat \ {0}, NEW v \in Values
    PROVE  /\ Written(f, off, len, v) \in Seq(Values)
           /\ \A x \in Nat : At(Written(f, off, len, v), x) =
                 IF off <= x /\ x < off + len THEN v ELSE At(f, x)
           /\ Len(f) <= Len(Written(f, off, len, v))
<1> DEFINE n    == IF Len(f) < off + len THEN off + len ELSE Len(f)
           V(i) == IF i > off /\ i <= off + len THEN v ELSE At(f, i - 1)
           G    == [i \in 1..n |-> V(i)]
<1>1. n \in Nat /\ Len(f) \in Nat /\ Len(f) <= n /\ off + len <= n  OBVIOUS
<1>2. G = Written(f, off, len, v)  BY DEF Written
<1> HIDE DEF n
<1>3. \A i \in 1..n : V(i) \in Values
  <2>1. \A i \in 1..n : i - 1 \in Nat  BY <1>1
  <2> QED  BY <2>1, AtIs
<1>4. G \in Seq(Values) /\ Len(G) = n  BY <1>1, <1>3
<1>5. ASSUME NEW x \in Nat
      PROVE  At(G, x) = IF off <= x /\ x < off + len THEN v ELSE At(f, x)
  <2>1. At(G, x) = IF x < Len(G) THEN G[x + 1] ELSE Zero  BY DEF At
  <2>2. CASE x < n
    <3>1. x + 1 \in 1..n /\ (x + 1) - 1 = x  BY <1>1, <2>2
    <3>2. G[x + 1] = V(x + 1)  BY <3>1
    <3>3. V(x + 1) = IF off <= x /\ x < off + len THEN v ELSE At(f, x)  BY <3>1
    <3>4. At(G, x) = G[x + 1]
      <4> HIDE DEF G
      <4> QED  BY <1>4, <2>1, <2>2
    <3> HIDE DEF G, V
    <3> QED  BY <3>2, <3>3, <3>4
  <2>3. CASE ~(x < n)
    <3>1. At(G, x) = Zero  BY <1>4, <2>1, <2>3
    <3>2. At(f, x) = Zero  BY <1>1, <2>3 DEF At
    <3>3. ~(x < off + len)  BY <1>1, <2>3
    <3> QED  BY <3>1, <3>2, <3>3
  <2> QED  BY <2>2, <2>3
<1> HIDE DEF G
<1> QED  BY <1>1, <1>2, <1>4, <1>5

LEMMA ReadAtIs ==
    ASSUME NEW f \in Seq(Values), NEW off \in Nat, NEW len \in Nat \ {0}
    PROVE  /\ ReadAt(f, off, len) \in Seq(Values) /\ Len(ReadAt(f, off, len)) <= len
           /\ \A i \in 1..Len(ReadAt(f, off, len)) :
                 ReadAt(f, off, len)[i] = At(f, off + i - 1)
           /\ Short(ReadAt(f, off, len), len) <=> Len(f) < off + len
<1> DEFINE n == IF off + len <= Len(f) THEN off + len ELSE Len(f)
           s == SubSeq(f, off + 1, n)
<1>1. n \in Nat /\ n <= Len(f) /\ n <= off + len  OBVIOUS
<1>2. ReadAt(f, off, len) = s  BY DEF ReadAt
<1> HIDE DEF n
<1>3. \A i \in (off + 1)..n : i \in 1..Len(f)  BY <1>1
<1>4. /\ s \in Seq(Values)
      /\ Len(s) = IF off + 1 <= n THEN n - (off + 1) + 1 ELSE 0
      /\ \A i \in 1..Len(s) : s[i] = f[off + 1 + i - 1]
  <2>1. \A i \in (off + 1)..n : f[i] \in Values  BY <1>3
  <2> QED  BY <1>1, <2>1
<1> HIDE DEF s
<1>5. Len(s) <= len  BY <1>1, <1>4
<1>6. ASSUME NEW i \in 1..Len(s)
      PROVE  s[i] = At(f, off + i - 1)
  <2>1. Len(s) = n - off /\ i \in Nat /\ 1 <= i /\ i <= n - off  BY <1>1, <1>4
  <2>2. off + i - 1 \in Nat /\ off + i - 1 < Len(f) /\ (off + i - 1) + 1 = off + 1 + i - 1
    BY <1>1, <2>1
  <2> QED  BY <1>4, <2>2 DEF At
<1>7. Short(s, len) <=> Len(f) < off + len
  <2>1. CASE off + len <= Len(f)
    <3>1. n = off + len  BY <2>1 DEF n
    <3> QED  BY <1>4, <2>1, <3>1 DEF Short
  <2>2. CASE ~(off + len <= Len(f))
    <3>1. n = Len(f)  BY <2>2 DEF n
    <3> QED  BY <1>4, <2>2, <3>1 DEF Short
  <2> QED  BY <2>1, <2>2
<1> QED  BY <1>2, <1>4, <1>5, <1>6, <1>7

-----------------------------------------------------------------------------
(* What every step leaves alone *)

Requests == RWs \cup Flushes

\* The shape of a stack depends on its kind alone.
LEMMA SameShape ==
    ASSUME kind' = kind
    PROVE  /\ Striped' = Striped /\ Mirrored' = Mirrored /\ OnFiles' = OnFiles
           /\ Groups' = Groups /\ Mirrors' = Mirrors /\ Nodes' = Nodes
           /\ OpRecords' = OpRecords
           /\ \A c : Place(c)' = Place(c)
           /\ \A q : Parts(q)' = Parts(q)
           /\ \A q, p : PartCells(q, p)' = PartCells(q, p)
           /\ \A q, p : PartGroup(q, p)' = PartGroup(q, p)
<1>1. Striped' = Striped /\ Mirrored' = Mirrored /\ OnFiles' = OnFiles
  BY DEF Striped, Mirrored, OnFiles
<1>2. Groups' = Groups /\ Mirrors' = Mirrors  BY <1>1 DEF Groups, Mirrors
<1>3. Nodes' = Nodes  BY <1>1, <1>2 DEF Nodes
<1>4. OpRecords' = OpRecords  BY <1>2 DEF OpRecords
<1>5. \A c : Place(c)' = Place(c)  BY <1>1 DEF Place
<1>6. \A c : PartOf(c)' = PartOf(c)  BY <1>1 DEF PartOf
<1>7. \A q : Parts(q)' = Parts(q)  BY <1>6 DEF Parts
<1>8. \A q, p : PartCells(q, p)' = PartCells(q, p)  BY <1>6 DEF PartCells
<1>9. \A q, p : PartFirst(q, p)' = PartFirst(q, p)  BY <1>8 DEF PartFirst
<1>10. \A q, p : PartGroup(q, p)' = PartGroup(q, p)  BY <1>5, <1>9 DEF PartGroup
<1> QED  BY <1>1, <1>2, <1>3, <1>4, <1>5, <1>7, <1>8, <1>10

LEMMA SameLocated ==
    ASSUME kind' = kind, NEW o
    PROVE  Located(o)' = Located(o)
BY SameShape DEF Located, OpCells

\* Operations and requests have their types.
LEMMA OpType ==
    ASSUME TypeOK, NEW o \in ops
    PROVE  /\ o \in OpRecords
           /\ o.q \in RWs /\ o.q \in Requests /\ o.p \in Nat /\ o.g \in Groups
           /\ o.m \in Mirrors /\ o.c \in Cells /\ o.c \in Nat /\ o.off \in Nat
           /\ o.len \in Nat \ {0} /\ o.ph \in {"sent", "run"} /\ o.res \in Seq(Values)
           /\ req[o.q] \in ReqRecords
<1>1. o \in OpRecords  BY DEF TypeOK
<1>2. /\ o.q \in RWs /\ o.p \in Nat /\ o.g \in Groups
      /\ o.m \in Mirrors /\ o.c \in Cells /\ o.off \in Nat
      /\ o.len \in Nat \ {0} /\ o.ph \in {"sent", "run"} /\ o.res \in Seq(Values)
  BY <1>1 DEF OpRecords
<1>3. o.c \in Nat  BY <1>2, ShapeIs
<1>4. o.q \in Requests /\ req[o.q] \in ReqRecords  BY <1>2 DEF TypeOK, Requests
<1> QED  BY <1>1, <1>2, <1>3, <1>4

LEMMA FileType ==
    ASSUME TypeOK, NEW g \in Groups, NEW m \in Mirrors
    PROVE  file[g][m] \in Seq(Values) /\ stable[g][m] \in Seq(Values)
BY DEF TypeOK

\* What a step may do to a request: it is submitted once, finds answered what then
\* was, and once answered keeps the answer, but for what a death loses.
ReqStep(q) ==
    /\ req'[q].st = "new" => req'[q] = req[q]
    /\ req[q].st = "new" => req'[q].before \subseteq Claimed
    /\ req[q].st # "new" => /\ req'[q].st # "new" /\ req'[q].before = req[q].before
                            /\ req'[q].refused = req[q].refused
    /\ req[q].st \in {"ok", "lost"} => /\ req'[q].st \in {req[q].st, "lost"}
                                       /\ req'[q].got = req[q].got
    /\ req[q].st = "err" => req'[q].st = "err"
    /\ req[q].st = "lost" => req'[q].st = "lost"

\* A step other than a death keeps the answers, and what is at work was before, or
\* is on files.
Alive ==
    /\ Claimed \subseteq Claimed'
    /\ \A q \in Requests : req'[q].st = "busy" => req[q].st = "busy" \/ (q \in RWs /\ OnFiles)

\* What a request of which nothing is at work yet becomes when it is submitted
LEMMA SubmittedIs ==
    ASSUME TypeOK, NEW q \in RWs, req[q].st = "new"
    PROVE  /\ Submitted(q) \in ReqRecords
           /\ Submitted(q).st = (IF Taken(q) = {} THEN "ok" ELSE "busy")
           /\ Submitted(q).refused = Refused(q)
           /\ Submitted(q).before = Claimed /\ Submitted(q).got = req[q].got
<1>1. req[q] \in ReqRecords  BY DEF TypeOK
<1>2. Refused(q) \in BOOLEAN  BY DEF Refused
<1>3. Claimed \in SUBSET Writes  BY DEF Claimed
<1>4. /\ Submitted(q).st = (IF Taken(q) = {} THEN "ok" ELSE "busy")
      /\ Submitted(q).refused = Refused(q)
      /\ Submitted(q).before = Claimed /\ Submitted(q).got = req[q].got
  BY <1>1 DEF Submitted, ReqRecords
<1>5. Submitted(q) \in ReqRecords  BY <1>1, <1>2, <1>3 DEF Submitted, ReqRecords
<1> QED  BY <1>4, <1>5

\* One request changes, and no other.
LEMMA OneRequest ==
    ASSUME TypeOK, ReqInv, kind' = kind, NEW q \in Requests, NEW x,
           req' = [req EXCEPT ![q] = x],
           /\ x.st # "new"
           /\ req[q].st = "new" => x.before \subseteq Claimed
           /\ req[q].st # "new" => x.before = req[q].before /\ x.refused = req[q].refused
           /\ req[q].st \in {"new", "busy"}
    PROVE  /\ \A r \in Requests : ReqStep(r)
           /\ \A r \in Requests : r # q => req'[r] = req[r]
           /\ req'[q] = x /\ Claimed \subseteq Claimed'
           /\ (x.st = "busy" => req[q].st = "busy" \/ (q \in RWs /\ OnFiles)) => Alive
<1>1. req \in [Requests -> ReqRecords]  BY DEF TypeOK, Requests
<1>2. req'[q] = x /\ \A r \in Requests : r # q => req'[r] = req[r]  BY <1>1
<1>3. \A r \in Requests : ReqStep(r)
  <2> SUFFICES ASSUME NEW r \in Requests PROVE ReqStep(r)
    OBVIOUS
  <2>1. CASE r = q  BY <1>2, <2>1 DEF ReqStep
  <2>2. CASE r # q
    <3>1. req'[r] = req[r]  BY <1>2, <2>2
    <3>2. req[r].st = "new" => req[r].before = {}  BY DEF ReqInv, Requests
    <3> QED  BY <3>1, <3>2 DEF ReqStep
  <2> QED  BY <2>1, <2>2
<1>4. Claimed \subseteq Claimed'
  <2> SUFFICES ASSUME NEW w \in Claimed PROVE w \in Claimed'
    OBVIOUS
  <2>1. w \in Writes /\ kind # "null" /\ req[w].st = "ok" /\ ~req[w].refused  BY DEF Claimed
  <2>2. w \in Requests  BY <2>1 DEF Requests, RWs
  <2>3. req'[w] = req[w]  BY <1>2, <2>1, <2>2
  <2> QED  BY <2>1, <2>3 DEF Claimed
<1>5. ASSUME x.st = "busy" => req[q].st = "busy" \/ (q \in RWs /\ OnFiles)
      PROVE  Alive
  BY <1>2, <1>4, <1>5 DEF Alive
<1> QED  BY <1>2, <1>3, <1>4, <1>5

\* Write w has been executed on mirror m of cell c, if it covers it and met no error.
Executed(w, c, m) == w \in Claimed \/ (req[w].st = "busy" /\ ~Pending(w, c, m))

\* What a step may do to cell c of mirror m: write there a request that was not
\* answered, or cut it off.
DataStep(c, m) ==
    \/ Held(c, m)' = Held(c, m)
    \/ /\ Held(c, m)' = Zero
       /\ \A w \in Writes : Covers(w, c) /\ Executed(w, c, m) => <<w, c, m>> \in cut'
    \/ /\ Held(c, m)' \in Writes /\ Covers(Held(c, m)', c)
       /\ req[Held(c, m)'].st \in {"new", "busy"}

\* Such a step leaves no stale content where there was none.
LEMMA NotStaleKept ==
    ASSUME TypeOK, ReqInv, NEW w \in Writes, ReqStep(w), req[w].st # "new",
           NEW c \in Cells, NEW m \in Mirrors, DataStep(c, m),
           Covers(w, c), Executed(w, c, m), <<w, c, m>> \notin cut',
           ~Stale(Held(c, m), w)
    PROVE  ~Stale(Held(c, m), w)'
<1> DEFINE v == Held(c, m)
           x == Held(c, m)'
<1>1. req'[w].before = req[w].before  BY DEF ReqStep
<1>2. v # Zero /\ (v # w => v \notin req[w].before)  BY DEF Stale
<1>3. \A u \in req[w].before : req[u].st \in {"ok", "lost"}  BY DEF ReqInv, RWs
<1>4. \/ x = v
      \/ x \in Writes /\ req[x].st \in {"new", "busy"}
  BY DEF DataStep
<1>5. Zero \notin Writes  BY ValuesAssumption
<1> HIDE DEF v, x
<1>6. x # Zero /\ (x # w => x \notin req'[w].before)  BY <1>1, <1>2, <1>3, <1>4, <1>5
<1> QED  BY <1>6 DEF Stale, x

\* What is fit for a request stays so.
LEMMA FreshKept ==
    ASSUME ReqInv, kind' = kind, cut \subseteq cut', \A r \in Requests : ReqStep(r),
           NEW q \in Requests, req[q].st # "new", NEW v, NEW c,
           req[q].before \subseteq Writes,
           Fresh(v, c, req[q].before)
    PROVE  Fresh(v, c, req[q].before)'
<1>1. req'[q].before = req[q].before  BY DEF ReqStep
<1>2. Belongs(v, c) /\ \A w \in req[q].before : Covers(w, c) /\ ~CutOff(w, c) => ~Stale(v, w)
  BY DEF Fresh
<1>3. ASSUME NEW w \in req[q].before, ~CutOff(w, c)', Covers(w, c)
      PROVE  ~(v = Zero \/ (v # w /\ v \in req'[w].before))
  <2>0. ~CutOff(w, c)  BY <1>3, SameShape DEF CutOff
  <2>1. ~Stale(v, w)  BY <1>2, <1>3, <2>0
  <2>2. w \in Requests /\ req[w].st # "new"  BY DEF ReqInv, Requests, RWs
  <2>3. req'[w].before = req[w].before  BY <2>2 DEF ReqStep
  <2> QED  BY <2>1, <2>3 DEF Stale
<1> QED  BY <1>1, <1>2, <1>3 DEF Fresh, Stale, Belongs, Covers

LEMMA ReqInvKept ==
    ASSUME TypeOK, ReqInv, kind' = kind, \A q \in Requests : ReqStep(q), Alive
    PROVE  ReqInv'
<1> SUFFICES ASSUME NEW q \in Requests
    PROVE  /\ \A w \in req'[q].before : req'[w].st \in {"ok", "lost"}
           /\ req'[q].st = "busy" => q \in RWs /\ OnFiles' /\ req'[q].before \subseteq Claimed'
           /\ req'[q].st = "new" => req'[q].got = {} /\ req'[q].before = {} /\ ~req'[q].refused
  BY DEF ReqInv, Requests
<1>1. /\ \A w \in req[q].before : req[w].st \in {"ok", "lost"}
      /\ req[q].st = "busy" => q \in RWs /\ OnFiles /\ req[q].before \subseteq Claimed
      /\ req[q].st = "new" => req[q].got = {} /\ req[q].before = {} /\ ~req[q].refused
  BY DEF ReqInv, Requests
<1>2. ReqStep(q) /\ OnFiles' = OnFiles  BY SameShape
<1>3. req[q].before \in SUBSET Writes  BY DEF TypeOK, ReqRecords, Requests
<1>4. \A w \in Claimed : w \in Writes /\ req[w].st = "ok"  BY DEF Claimed
<1>5. \A w \in req'[q].before : w \in Writes /\ req[w].st \in {"ok", "lost"}
  <2>1. CASE req[q].st = "new"  BY <1>2, <1>4, <2>1 DEF ReqStep
  <2>2. CASE req[q].st # "new"  BY <1>1, <1>2, <1>3, <2>2 DEF ReqStep
  <2> QED  BY <2>1, <2>2
<1>6. \A w \in req'[q].before : req'[w].st \in {"ok", "lost"}
  <2> SUFFICES ASSUME NEW w \in req'[q].before PROVE req'[w].st \in {"ok", "lost"}
    OBVIOUS
  <2>1. w \in Requests /\ req[w].st \in {"ok", "lost"}  BY <1>5 DEF Requests, RWs
  <2>2. ReqStep(w)  BY <2>1
  <2> QED  BY <2>1, <2>2 DEF ReqStep
<1>7. ASSUME req'[q].st = "busy"
      PROVE  q \in RWs /\ OnFiles' /\ req'[q].before \subseteq Claimed'
  <2>1. q \in RWs /\ OnFiles'  BY <1>1, <1>2, <1>7 DEF Alive
  <2>2. req'[q].before \subseteq Claimed
    <3>1. CASE req[q].st = "new"  BY <1>2, <3>1 DEF ReqStep
    <3>2. CASE req[q].st = "busy"  BY <1>1, <1>2, <3>2 DEF ReqStep
    <3>3. req[q].st \in {"new", "busy"}
      <4>1. req[q].st \in {"new", "busy", "ok", "err", "lost"}
        BY DEF TypeOK, ReqRecords, Requests
      <4> QED  BY <1>2, <1>7, <4>1 DEF ReqStep
    <3> QED  BY <3>1, <3>2, <3>3
  <2> QED  BY <2>1, <2>2 DEF Alive
<1>8. ASSUME req'[q].st = "new"
      PROVE  req'[q].got = {} /\ req'[q].before = {} /\ ~req'[q].refused
  <2>1. req'[q] = req[q]  BY <1>2, <1>8 DEF ReqStep
  <2> QED  BY <1>1, <1>8, <2>1
<1> QED  BY <1>6, <1>7, <1>8

LEMMA DataInvKept ==
    ASSUME TypeOK, DataInv, kind' = kind, stable' = stable,
           \A c \in Cells, m \in Mirrors : DataStep(c, m)
    PROVE  DataInv'
<1> SUFFICES ASSUME NEW c \in Cells, NEW m \in Mirrors
    PROVE  Belongs(Held(c, m), c)' /\ Belongs(HeldStable(c, m), c)'
  BY SameShape DEF DataInv
<1>1. Belongs(Held(c, m), c) /\ Belongs(HeldStable(c, m), c)  BY DEF DataInv
<1>2. HeldStable(c, m)' = HeldStable(c, m)  BY SameShape DEF HeldStable
<1>3. DataStep(c, m)  OBVIOUS
<1>4. Belongs(Held(c, m), c)'
  BY <1>1, <1>3 DEF DataStep, Belongs, Covers
<1> QED  BY <1>1, <1>2, <1>4 DEF Belongs, Covers

\* Mirrors hold what they held, if they do what is claimed anew.
LEMMA HoldInvKept ==
    ASSUME TypeOK, ReqInv, HoldInv, kind' = kind, cut \subseteq cut', stable' = stable,
           safe' = safe, Claimed \subseteq Claimed',
           \A q \in Requests : ReqStep(q),
           \A c \in Cells, m \in Mirrors : DataStep(c, m),
           \A w \in Claimed' \ Claimed : \A c \in Cells, m \in Mirrors :
              Covers(w, c) /\ <<w, c, m>> \notin cut' => ~Stale(Held(c, m), w)'
    PROVE  HoldInv'
<1>1. MirrorsHold /\ FlushedStable /\ safe \subseteq Claimed  BY DEF HoldInv
<1>2. \A w \in Claimed : w \in Writes /\ w \in Requests /\ req[w].st # "new"
  BY DEF Claimed, Requests, RWs
<1>3. MirrorsHold'
  <2> SUFFICES ASSUME NEW w \in Claimed', NEW c \in Cells, NEW m \in Mirrors,
                      Covers(w, c), <<w, c, m>> \notin cut'
               PROVE  ~Stale(Held(c, m), w)'
    BY SameShape DEF MirrorsHold, Covers
  <2>1. CASE w \in Claimed
    <3>1. ~Stale(Held(c, m), w)  BY <1>1, <2>1 DEF MirrorsHold
    <3>2. DataStep(c, m) /\ ReqStep(w) /\ Executed(w, c, m)  BY <1>2, <2>1 DEF Executed
    <3> QED  BY <1>2, <2>1, <3>1, <3>2, NotStaleKept
  <2>2. CASE w \notin Claimed  BY <2>2
  <2> QED  BY <2>1, <2>2
<1>4. FlushedStable'
  <2> SUFFICES ASSUME NEW w \in safe, NEW c \in Cells, NEW m \in Mirrors,
                      Covers(w, c), <<w, c, m>> \notin cut'
               PROVE  ~Stale(HeldStable(c, m), w)'
    BY SameShape DEF FlushedStable, Covers
  <2>1. ~Stale(HeldStable(c, m), w)  BY <1>1 DEF FlushedStable
  <2>2. HeldStable(c, m)' = HeldStable(c, m)  BY SameShape DEF HeldStable
  <2>3. w \in Requests /\ req[w].st # "new"  BY <1>1, <1>2
  <2>4. req'[w].before = req[w].before  BY <2>3 DEF ReqStep
  <2> QED  BY <2>1, <2>2, <2>4 DEF Stale
<1>5. safe' \subseteq Claimed'  BY <1>1
<1> QED  BY <1>3, <1>4, <1>5 DEF HoldInv

\* What an operation has stays fit while its request is at work.
LEMMA OpFitKept ==
    ASSUME TypeOK, ReqInv, OpInv, kind' = kind, cut \subseteq cut',
           \A q \in Requests : ReqStep(q),
           NEW o \in ops, req'[o.q].st = "busy"
    PROVE  OpFit(o)' /\ ShortFit(o)'
<1>1. OpFit(o) /\ ShortFit(o)  BY DEF OpInv
<1>2. /\ OnFiles /\ req[o.q].st = "busy" /\ Located(o)
      /\ (o.ph = "sent" \/ o.q \in Writes => o.res = <<>>)
      /\ Len(o.res) <= o.len
      /\ \A i \in 1..Len(o.res) : Fresh(o.res[i], o.c + i - 1, req[o.q].before)
  BY <1>1 DEF OpFit
<1>3. o.q \in Requests /\ req[o.q].before \subseteq Writes  BY OpType DEF ReqRecords
<1>4. \A i \in 1..Len(o.res) : Fresh(o.res[i], o.c + i - 1, req[o.q].before)'
  <2> SUFFICES ASSUME NEW i \in 1..Len(o.res)
               PROVE  Fresh(o.res[i], o.c + i - 1, req[o.q].before)'
    OBVIOUS
  <2> QED  BY <1>2, <1>3, FreshKept
<1>5. OnFiles' /\ Located(o)'  BY <1>2, SameShape, SameLocated
<1>6. ShortFit(o)'
  <2>1. req'[o.q].before = req[o.q].before  BY <1>2, <1>3 DEF ReqStep
  <2> QED  BY <1>1, <2>1, SameShape DEF ShortFit, Covers
<1> QED  BY <1>2, <1>4, <1>5, <1>6 DEF OpFit

\* An operation that was just submitted has nothing yet.
LEMMA OpFitNew ==
    ASSUME kind' = kind, OnFiles, NEW o \in OpRecords, Located(o), o.res = <<>>,
           o.ph = "sent" \/ o.q \notin Reads, req'[o.q].st = "busy"
    PROVE  OpFit(o)' /\ ShortFit(o)'
<1>1. OnFiles' /\ Located(o)'  BY SameShape, SameLocated
<1>2. Len(o.res) = 0 /\ 0 <= o.len  BY DEF OpRecords
<1>3. \A i \in 1..Len(o.res) : Fresh(o.res[i], o.c + i - 1, req[o.q].before)'  BY <1>2
<1>4. ShortFit(o)'  BY DEF ShortFit
<1> QED  BY <1>1, <1>2, <1>3, <1>4 DEF OpFit

\* Errors stay.
LEMMA ErrKept ==
    ASSUME kind' = kind, bad \subseteq bad', NEW q, Err(q, bad)
    PROVE  Err(q, bad)'
BY SameShape DEF Err

\* What a write has reached stays reached, if an operation of it that is no longer
\* pending was executed or met an error, and a write that is new covers its cells.
LEMMA WriteInvKept ==
    ASSUME TypeOK, ReqInv, WriteInv, kind' = kind, cut \subseteq cut', bad \subseteq bad',
           \A q \in Requests : ReqStep(q),
           \A c \in Cells, m \in Mirrors : DataStep(c, m),
           \A w \in Writes : req'[w].st = "busy" /\ ~req'[w].refused =>
              \/ req[w].st = "busy"
              \/ \A c \in Cells, m \in Mirrors : Covers(w, c) => Pending(w, c, m)',
           \A o \in ops : o.q \in Writes /\ o.ph = "sent" =>
              \/ o \in ops' \/ Err(o.q, bad)'
              \/ \A c \in OpCells(o) : Held(c, o.m)' = o.q
    PROVE  WriteInv'
<1> SUFFICES ASSUME NEW w \in Writes, req'[w].st = "busy", ~req'[w].refused, ~Err(w, bad)',
                    NEW c \in Cells, NEW m \in Mirrors, Covers(w, c), <<w, c, m>> \notin cut'
             PROVE  Pending(w, c, m)' \/ ~Stale(Held(c, m), w)'
  BY SameShape DEF WriteInv, Covers
<1>1. w \in Requests /\ ReqStep(w) /\ DataStep(c, m)  BY DEF Requests, RWs
<1>2. CASE req[w].st # "busy"  BY <1>2
<1>3. CASE req[w].st = "busy"
  <2>1. ~req[w].refused /\ ~Err(w, bad) /\ <<w, c, m>> \notin cut
    <3>1. ~req[w].refused  BY <1>1, <1>3 DEF ReqStep
    <3>2. ~Err(w, bad)  BY ErrKept
    <3> QED  BY <3>1, <3>2
  <2>2. Pending(w, c, m) \/ ~Stale(Held(c, m), w)  BY <1>3, <2>1 DEF WriteInv
  <2>3. CASE ~Pending(w, c, m) /\ ~Stale(Held(c, m), w)
    <3>1. Executed(w, c, m)  BY <1>3, <2>3 DEF Executed
    <3>2. ~Stale(Held(c, m), w)'  BY <1>1, <1>3, <2>3, <3>1, NotStaleKept
    <3> QED  BY <3>2
  <2>4. CASE Pending(w, c, m)
    <3>1. PICK o \in ops : o.q = w /\ o.m = m /\ o.ph = "sent" /\ c \in OpCells(o)
      BY <2>4 DEF Pending
    <3>2. o \in ops' \/ Held(c, m)' = w  BY <3>1
    <3>3. CASE o \in ops'  BY <3>1, <3>3 DEF Pending, OpCells
    <3>4. CASE Held(c, m)' = w
      <4>1. w # Zero  BY ValuesAssumption
      <4>2. ~Stale(Held(c, m), w)'  BY <3>4, <4>1 DEF Stale
      <4> QED  BY <4>2
    <3> QED  BY <3>2, <3>3, <3>4
  <2> QED  BY <2>2, <2>3, <2>4
<1> QED  BY <1>2, <1>3

\* What a read has got stays fit, if what it gets is, and it has or asks for every
\* cell if what is over was got.
LEMMA ReadInvKept ==
    ASSUME TypeOK, ReqInv, ReadInv, kind' = kind, cut \subseteq cut', bad \subseteq bad',
           \A q \in Requests : ReqStep(q),
           \A r \in Reads : req[r].got \subseteq req'[r].got,
           \A r \in Reads : \A t \in req'[r].got \ req[r].got :
              t[1] \in First[r]..Last[r] /\ Fresh(t[2], t[1], req[r].before)',
           \A r \in Reads : req'[r].st \in {"busy", "ok"} /\ ~req'[r].refused =>
              \/ req[r].st \in {"busy", "ok"}
              \/ kind = "null"
              \/ \A c \in First[r]..Last[r] :
                    Got(r, c)' \/ (req'[r].st = "busy" /\ Asked(r, c)'),
           \A r \in Reads : req[r].st = "busy" /\ req'[r].st = "ok" => ~Err(r, bad),
           \A o \in ops : o.q \in Reads => \A c \in OpCells(o) :
              \/ Got(o.q, c)'
              \/ req'[o.q].st # "ok" /\ (Err(o.q, bad)' \/ Asked(o.q, c)')
    PROVE  ReadInv'
<1> SUFFICES ASSUME NEW r \in Reads
    PROVE  /\ \A t \in req'[r].got : /\ t[1] \in First[r]..Last[r]
                                     /\ Fresh(t[2], t[1], req[r].before)'
           /\ ~req'[r].refused /\ kind # "null" /\ req'[r].st \in {"busy", "ok"} =>
                 \A c \in First[r]..Last[r] :
                    Got(r, c)' \/ (req'[r].st = "busy" /\ (Err(r, bad)' \/ Asked(r, c)'))
  BY DEF ReadInv
<1>1. r \in Requests /\ ReqStep(r) /\ req[r] \in ReqRecords
  BY DEF Requests, RWs, TypeOK
<1>2. ASSUME NEW t \in req'[r].got
      PROVE  t[1] \in First[r]..Last[r] /\ Fresh(t[2], t[1], req[r].before)'
  <2>1. CASE t \notin req[r].got  BY <2>1
  <2>2. CASE t \in req[r].got
    <3>1. t[1] \in First[r]..Last[r] /\ Fresh(t[2], t[1], req[r].before)
      BY <2>2 DEF ReadInv
    <3>2. req[r].st # "new"  BY <1>1, <2>2 DEF ReqInv, Requests
    <3>3. req[r].before \subseteq Writes  BY <1>1 DEF ReqRecords
    <3>4. Fresh(t[2], t[1], req[r].before)'  BY <1>1, <3>1, <3>2, <3>3, FreshKept
    <3> QED  BY <3>1, <3>4
  <2> QED  BY <2>1, <2>2
<1>3. ASSUME ~req'[r].refused, kind # "null", req'[r].st \in {"busy", "ok"},
             NEW c \in First[r]..Last[r]
      PROVE  Got(r, c)' \/ (req'[r].st = "busy" /\ (Err(r, bad)' \/ Asked(r, c)'))
  <2>1. CASE req[r].st \notin {"busy", "ok"}  BY <1>3, <2>1
  <2>2. CASE req[r].st \in {"busy", "ok"}
    <3>1. ~req[r].refused  BY <1>1, <1>3, <2>2 DEF ReqStep
    <3>2. Got(r, c) \/ (req[r].st = "busy" /\ (Err(r, bad) \/ Asked(r, c)))
      BY <1>3, <2>2, <3>1 DEF ReadInv
    <3>3. CASE Got(r, c)
      <4>1. Got(r, c)'  BY <3>3 DEF Got
      <4> QED  BY <4>1
    <3>4. CASE req[r].st = "busy" /\ Err(r, bad)
      <4>1. req'[r].st = "busy"  BY <1>3, <3>4
      <4>2. Err(r, bad)'  BY <3>4, ErrKept
      <4> QED  BY <4>1, <4>2
    <3>5. CASE req[r].st = "busy" /\ Asked(r, c)
      <4>1. PICK o \in ops : o.q = r /\ c \in OpCells(o)  BY <3>5 DEF Asked
      <4>2. \/ Got(r, c)'
            \/ req'[r].st # "ok" /\ (Err(r, bad)' \/ Asked(r, c)')
        BY <4>1
      <4> QED  BY <1>3, <4>2
    <3> QED  BY <3>2, <3>3, <3>4, <3>5
  <2> QED  BY <2>1, <2>2
<1> QED  BY <1>2, <1>3

-----------------------------------------------------------------------------
(* Errors *)

\* The error of an operation stays with what is left of its part.
LEMMA FaultInvKept ==
    ASSUME FaultInv, kind' = kind, bad' = bad, failed' = failed, offline' = offline,
           \A o \in ops : \E x \in ops' : x.g = o.g /\ x.q = o.q /\ x.p = o.p
    PROVE  FaultInv'
<1>1. \A b \in bad' : b[2] \in Parts(b[1])' /\ PartGroup(b[1], b[2])' \in failed'
  BY SameShape DEF FaultInv
<1>2. Mirrored => /\ offline' \ {Top} \subseteq failed'
                  /\ \A g \in failed' : \/ g \in offline'
                                        \/ \E o \in ops' : o.g = g /\ <<o.q, o.p>> \in bad'
  <2> SUFFICES ASSUME Mirrored, NEW g \in failed, g \notin offline
               PROVE  \E x \in ops' : x.g = g /\ <<x.q, x.p>> \in bad
    BY DEF FaultInv
  <2>1. PICK o \in ops : o.g = g /\ <<o.q, o.p>> \in bad  BY DEF FaultInv
  <2>2. PICK x \in ops' : x.g = o.g /\ x.q = o.q /\ x.p = o.p  OBVIOUS
  <2> QED  BY <2>1, <2>2
<1>3. Striped => /\ Top \in offline' => failed' # {}
                 /\ failed' # {} => Top \in offline' \/ \E o \in ops' : Err(o.q, bad)'
  <2>1. \A q : Err(q, bad) => Err(q, bad)'  BY SameShape DEF Err
  <2> QED  BY <2>1 DEF FaultInv
<1> QED  BY <1>1, <1>2, <1>3, SameShape DEF FaultInv

\* An operation is over: an error of its part, and of its request, reaches the nodes
\* or stays with what is left of them.
LEMMA FaultInvCompleted ==
    ASSUME TypeOK, FaultInv, OpInv, kind' = kind, NEW o \in ops, NEW b, NEW got,
           Completed(o, b, got),
           \/ b = bad /\ failed' = failed
           \/ b = bad \cup {<<o.q, o.p>>} /\ failed' = failed \cup {o.g}
    PROVE  FaultInv'
<1> DEFINE rest == ops \ {o}
           part == \A x \in rest : ~(x.q = o.q /\ x.p = o.p)
           all  == \A x \in rest : x.q # o.q
<1>1. /\ ops' = rest /\ bad' = b /\ bad \subseteq b /\ failed \subseteq failed'
      /\ offline' = offline \cup FailedNodes(o, rest, b)
  BY DEF Completed
<1>2. \A x \in ops : x.p \in Parts(x.q) /\ x.g = PartGroup(x.q, x.p)
  BY DEF OpInv, OpFit, Located
<1>3. \A e \in b : e[2] \in Parts(e[1]) /\ PartGroup(e[1], e[2]) \in failed'
  <2>1. \A e \in bad : e[2] \in Parts(e[1]) /\ PartGroup(e[1], e[2]) \in failed'
    BY <1>1 DEF FaultInv
  <2>2. ASSUME failed' = failed \cup {o.g}
        PROVE  o.p \in Parts(o.q) /\ PartGroup(o.q, o.p) \in failed'
    BY <1>2, <2>2
  <2> QED  BY <2>1, <2>2
<1>4. \A g \in failed' : g \in failed \/ (g = o.g /\ <<o.q, o.p>> \in b)
  OBVIOUS
<1>5. FailedNodes(o, rest, b) =
         (IF Mirrored /\ part /\ <<o.q, o.p>> \in b THEN {o.g} ELSE {}) \cup
         (IF Striped /\ all /\ Err(o.q, b) THEN {Top} ELSE {})
  BY DEF FailedNodes
<1> HIDE DEF rest
<1>6. ASSUME Mirrored
      PROVE  /\ offline' \ {Top} \subseteq failed'
             /\ \A g \in failed' : \/ g \in offline'
                                   \/ \E x \in rest : x.g = g /\ <<x.q, x.p>> \in b
  <2>1. offline \ {Top} \subseteq failed  BY <1>6 DEF FaultInv
  <2>2. <<o.q, o.p>> \in b => o.g \in failed'
    <3> DEFINE e == <<o.q, o.p>>
    <3>1. e[1] = o.q /\ e[2] = o.p  OBVIOUS
    <3> HIDE DEF e
    <3>2. e \in b => PartGroup(o.q, o.p) \in failed'  BY <1>3, <3>1
    <3> QED  BY <1>2, <3>2 DEF e
  <2>3. offline' \ {Top} \subseteq failed'  BY <1>1, <1>5, <2>1, <2>2
  <2>4. ASSUME <<o.q, o.p>> \in b
        PROVE  \/ o.g \in offline'
               \/ \E x \in rest : x.g = o.g /\ <<x.q, x.p>> \in b
    <3>1. CASE part  BY <1>1, <1>5, <1>6, <2>4, <3>1
    <3>2. CASE ~part
      <4>1. PICK x \in rest : x.q = o.q /\ x.p = o.p  BY <3>2
      <4>2. x.g = o.g  BY <1>2, <4>1 DEF rest
      <4> QED  BY <2>4, <4>1, <4>2
    <3> QED  BY <3>1, <3>2
  <2>5. ASSUME NEW g \in failed
        PROVE  g \in offline' \/ \E x \in rest : x.g = g /\ <<x.q, x.p>> \in b
    <3>1. g \in offline \/ \E x \in ops : x.g = g /\ <<x.q, x.p>> \in bad
      BY <1>6, <2>5 DEF FaultInv
    <3>2. CASE g \in offline  BY <1>1, <3>2
    <3>3. CASE \E x \in ops : x.g = g /\ <<x.q, x.p>> \in bad
      <4>1. PICK x \in ops : x.g = g /\ <<x.q, x.p>> \in bad  BY <3>3
      <4>2. CASE x = o  BY <1>1, <2>4, <4>1, <4>2
      <4>3. CASE x # o  BY <1>1, <4>1, <4>3 DEF rest
      <4> QED  BY <4>2, <4>3
    <3> QED  BY <3>1, <3>2, <3>3
  <2> QED  BY <1>4, <2>3, <2>4, <2>5
<1>7. ASSUME Striped
      PROVE  /\ Top \in offline' => failed' # {}
             /\ failed' # {} => Top \in offline' \/ \E x \in rest : Err(x.q, b)
  <2>1. Err(o.q, b) => failed' # {}  BY <1>3 DEF Err
  <2>2. Top \in offline => failed' # {}  BY <1>1, <1>7 DEF FaultInv
  <2>3. o.g # Top  BY OpType, ShapeIs, ValuesAssumption
  <2>4. Top \in offline' => failed' # {}  BY <1>1, <1>5, <2>1, <2>2, <2>3
  <2>5. ASSUME Err(o.q, b)
        PROVE  Top \in offline' \/ \E x \in rest : Err(x.q, b)
    <3>1. CASE all  BY <1>1, <1>5, <1>7, <2>5, <3>1
    <3>2. CASE ~all
      <4>1. PICK x \in rest : x.q = o.q  BY <3>2
      <4> QED  BY <2>5, <4>1
    <3> QED  BY <3>1, <3>2
  <2>6. ASSUME failed # {}
        PROVE  Top \in offline' \/ \E x \in rest : Err(x.q, b)
    <3>1. Top \in offline \/ \E x \in ops : Err(x.q, bad)  BY <1>7, <2>6 DEF FaultInv
    <3>2. CASE Top \in offline  BY <1>1, <3>2
    <3>3. CASE \E x \in ops : Err(x.q, bad)
      <4>1. PICK x \in ops : Err(x.q, bad)  BY <3>3
      <4>2. Err(x.q, b)  BY <1>1, <4>1 DEF Err
      <4>3. CASE x = o  BY <2>5, <4>2, <4>3
      <4>4. CASE x # o  BY <4>2, <4>4 DEF rest
      <4> QED  BY <4>3, <4>4
    <3> QED  BY <3>1, <3>2, <3>3
  <2>7. <<o.q, o.p>> \in b => Err(o.q, b)  BY <1>2 DEF Err
  <2> QED  BY <1>4, <2>4, <2>5, <2>6, <2>7
<1>8. \A x \in rest : Err(x.q, b) => Err(x.q, bad)'  BY <1>1, SameShape DEF Err
<1> HIDE DEF part, all
<1> QED  BY <1>1, <1>3, <1>6, <1>7, <1>8, SameShape DEF FaultInv

\* A request that is refused finds its node offline, or one below the RAID0.
LEMMA OfflineAfterIs ==
    ASSUME TypeOK, FaultInv, NEW q \in RWs
    PROVE  /\ OfflineAfter(q) \subseteq Nodes /\ offline \subseteq OfflineAfter(q)
           /\ OfflineAfter(q) \ {Top} = offline \ {Top}
           /\ Striped /\ Top \in OfflineAfter(q) => failed # {}
<1>1. Entry \subseteq Nodes  BY ShapeIs DEF Entry, Nodes
<1>2. offline \subseteq Nodes  BY DEF TypeOK
<1>3. OfflineAfter(q) = offline \cup Entry \/ OfflineAfter(q) = offline
  BY DEF OfflineAfter
<1>4. CASE Striped
  <2>1. Entry = {Top}  BY <1>4 DEF Entry
  <2>2. ASSUME Refused(q) PROVE failed # {}
    <3>1. CASE Top \in offline  BY <1>4, <3>1 DEF FaultInv
    <3>2. CASE Top \notin offline
      <4>1. PICK d \in Parts(q) : PartGroup(q, d) \in offline
        BY <2>1, <2>2, <3>2 DEF Refused, Taken
      <4>2. PartGroup(q, d) \in Groups /\ PartGroup(q, d) # Top
        BY PartRun, ShapeIs, ValuesAssumption
      <4>3. Mirrored  BY <1>2, <4>1, <4>2 DEF Nodes
      <4> QED  BY <4>1, <4>2, <4>3 DEF FaultInv
    <3> QED  BY <3>1, <3>2
  <2>3. CASE Refused(q)
    <3>1. OfflineAfter(q) = offline \cup {Top}  BY <2>1, <2>3 DEF OfflineAfter
    <3> QED  BY <1>1, <1>2, <2>1, <2>2, <2>3, <3>1
  <2>4. CASE ~Refused(q)
    <3>1. OfflineAfter(q) = offline  BY <2>4 DEF OfflineAfter
    <3> QED  BY <1>2, <1>4, <3>1 DEF FaultInv
  <2> QED  BY <2>3, <2>4
<1>5. CASE ~Striped /\ Mirrored
  <2>1. Entry = {0} /\ Groups = {0}  BY <1>5, ShapeIs DEF Entry, NrGroups
  <2>2. Refused(q) => 0 \in offline
    <3>1. ASSUME Refused(q), 0 \notin offline PROVE FALSE
      <4>1. PICK d \in Parts(q) : PartGroup(q, d) \in offline
        BY <2>1, <3>1 DEF Refused, Taken
      <4>2. PartGroup(q, d) \in Groups  BY PartRun
      <4> QED  BY <2>1, <3>1, <4>1, <4>2
    <3> QED  BY <3>1
  <2>3. OfflineAfter(q) = offline  BY <2>1, <2>2 DEF OfflineAfter
  <2> QED  BY <1>2, <1>5, <2>3
<1>6. CASE ~Striped /\ ~Mirrored
  <2>1. OfflineAfter(q) = offline  BY <1>6 DEF Entry, OfflineAfter
  <2> QED  BY <1>2, <1>6, <2>1
<1> QED  BY <1>4, <1>5, <1>6

LEMMA FaultInvSubmit ==
    ASSUME TypeOK, FaultInv, kind' = kind, NEW q \in RWs, bad' = bad, failed' = failed,
           ops \subseteq ops', offline' = OfflineAfter(q)
    PROVE  FaultInv'
<1>1. /\ offline \subseteq offline' /\ offline' \ {Top} = offline \ {Top}
      /\ Striped /\ Top \in offline' => failed # {}
  BY OfflineAfterIs
<1>2. \A b \in bad' : b[2] \in Parts(b[1])' /\ PartGroup(b[1], b[2])' \in failed'
  BY SameShape DEF FaultInv
<1>3. Mirrored => /\ offline' \ {Top} \subseteq failed'
                  /\ \A g \in failed' : \/ g \in offline'
                                        \/ \E o \in ops' : o.g = g /\ <<o.q, o.p>> \in bad'
  BY <1>1 DEF FaultInv
<1>4. Striped => /\ Top \in offline' => failed' # {}
                 /\ failed' # {} => Top \in offline' \/ \E o \in ops' : Err(o.q, bad)'
  <2>1. \A x : Err(x, bad) => Err(x, bad)'  BY SameShape DEF Err
  <2> QED  BY <1>1, <2>1 DEF FaultInv
<1> QED  BY <1>2, <1>3, <1>4, SameShape DEF FaultInv

-----------------------------------------------------------------------------
(* Submitting keeps the invariant *)

\* A step that touches no file
LEMMA DataSame ==
    ASSUME kind' = kind, file' = file
    PROVE  \A c, m : DataStep(c, m)
BY SameShape DEF DataStep, Held

LEMMA TypeOKSubmit ==
    ASSUME IInv, NEW q \in RWs, req[q].st = "new", kind' = kind, offline' = OfflineAfter(q),
           req' = [req EXCEPT ![q] = Submitted(q)], ops' \subseteq OpRecords,
           next_hid' \in [Groups -> Mirrors],
           UNCHANGED <<file, stable, bad, safe, failed, cut, errors, restarts>>
    PROVE  TypeOK'
<1>1. TypeOK /\ FaultInv  BY DEF IInv
<1>2. kind' \in Kinds /\ offline' \subseteq Nodes'
  BY <1>1, SameShape, OfflineAfterIs DEF TypeOK
<1>3. req' \in [Requests -> ReqRecords]
  <2>1. req \in [Requests -> ReqRecords]  BY <1>1 DEF TypeOK, Requests
  <2>2. Submitted(q) \in ReqRecords  BY <1>1, SubmittedIs
  <2> QED  BY <2>1, <2>2
<1>4. ops' \subseteq OpRecords' /\ bad' \subseteq RWs \X Nat  BY <1>1, SameShape DEF TypeOK
<1>5. /\ next_hid' \in [Groups' -> Mirrors']
      /\ file' \in [Groups' -> [Mirrors' -> Seq(Values)]]
      /\ stable' \in [Groups' -> [Mirrors' -> Seq(Values)]]
      /\ failed' \subseteq Groups'
  BY <1>1, SameShape DEF TypeOK
<1>6. safe' \subseteq Writes /\ cut' \subseteq Writes \X Cells \X Mirrors'
      /\ errors' \in 0..MaxErrors /\ restarts' \in 0..MaxRestarts
  BY <1>1, SameShape DEF TypeOK
<1> QED  BY <1>2, <1>3, <1>4, <1>5, <1>6 DEF TypeOK, Requests, ReqRecords

\* A request puts operations to work for its cells, and for all of them unless it is
\* refused.
LEMMA SubmitKeeps ==
    ASSUME IInv, NEW q \in RWs, OnFiles, req[q].st = "new", NEW N,
           \A o \in N : /\ o \in OpRecords /\ Located(o)
                        /\ o.q = q /\ o.ph = "sent" /\ o.res = <<>>,
           Taken(q) = {} => N = {},
           ~Refused(q) /\ q \in Writes => \A c \in First[q]..Last[q], m \in Mirrors :
              \E o \in N : o.m = m /\ c \in OpCells(o),
           ~Refused(q) /\ q \in Reads => \A c \in First[q]..Last[q] :
              \E o \in N : c \in OpCells(o),
           ops' = ops \cup N, next_hid' \in [Groups -> Mirrors],
           req' = [req EXCEPT ![q] = Submitted(q)], offline' = OfflineAfter(q),
           UNCHANGED <<kind, file, stable, bad, safe, failed, cut, errors, restarts>>
    PROVE  IInv'
<1> DEFINE x == Submitted(q)
<1>1. TypeOK /\ OpInv /\ ReqInv /\ DataInv /\ WriteInv /\ ReadInv /\ HoldInv /\ FaultInv
  BY DEF IInv
<1>2. /\ kind' = kind /\ file' = file /\ stable' = stable /\ bad' = bad /\ safe' = safe
      /\ failed' = failed /\ cut' = cut /\ ops \subseteq ops'
  OBVIOUS
<1>3. /\ x.st = (IF Taken(q) = {} THEN "ok" ELSE "busy")
      /\ x.refused = Refused(q) /\ x.before = Claimed /\ x.got = req[q].got
  BY <1>1, SubmittedIs
<1>4. q \in Requests /\ (Taken(q) = {} => Refused(q))  BY TakenIs DEF Requests
<1> HIDE DEF x
<1>5. /\ \A r \in Requests : ReqStep(r)
      /\ \A r \in Requests : r # q => req'[r] = req[r]
      /\ req'[q] = x /\ Claimed \subseteq Claimed' /\ Alive
  <2>1. req' = [req EXCEPT ![q] = x]  BY DEF x
  <2>2. x.st # "new" /\ x.before \subseteq Claimed  BY <1>3
  <2> QED  BY <1>1, <1>2, <1>4, <2>1, <2>2, OneRequest
<1>6. \A c \in Cells, m \in Mirrors : DataStep(c, m)  BY <1>2, DataSame
<1>7. \A o \in ops : o.q \in Requests /\ o.q # q /\ req[o.q].st = "busy"
                     /\ req'[o.q].st = "busy"
  <2> SUFFICES ASSUME NEW o \in ops
               PROVE  o.q \in Requests /\ o.q # q /\ req[o.q].st = "busy"
                      /\ req'[o.q].st = "busy"
    OBVIOUS
  <2>1. req[o.q].st = "busy"  BY <1>1 DEF OpInv, OpFit
  <2>2. o.q \in Requests /\ o.q # q  BY <1>1, <2>1, OpType
  <2> QED  BY <1>5, <2>1, <2>2
<1>8. TypeOK'
  <2>1. ops' \subseteq OpRecords  BY <1>1 DEF TypeOK
  <2> QED  BY <2>1, TypeOKSubmit
<1>9. OpInv'
  <2> SUFFICES ASSUME NEW o \in ops' PROVE OpFit(o)' /\ ShortFit(o)'
    BY DEF OpInv
  <2>1. CASE o \in ops
    <3>1. req'[o.q].st = "busy"  BY <1>7, <2>1
    <3> QED  BY <1>1, <1>2, <1>5, <2>1, <3>1, OpFitKept
  <2>2. CASE o \in N
    <3>1. req'[o.q].st = "busy"  BY <1>3, <1>5, <2>2
    <3>2. o \in OpRecords /\ Located(o) /\ o.res = <<>> /\ o.ph = "sent"  BY <2>2
    <3> QED  BY <1>2, <3>1, <3>2, OpFitNew
  <2> QED  BY <2>1, <2>2
<1>10. ReqInv'  BY <1>1, <1>2, <1>5, ReqInvKept
<1>11. DataInv'  BY <1>1, <1>2, <1>6, DataInvKept
<1>12. WriteInv'
  <2>1. ASSUME NEW w \in Writes, req'[w].st = "busy", ~req'[w].refused
        PROVE  \/ req[w].st = "busy"
               \/ \A c \in Cells, m \in Mirrors : Covers(w, c) => Pending(w, c, m)'
    <3>1. CASE w # q
      <4>1. req'[w] = req[w]  BY <1>5, <3>1 DEF Requests, RWs
      <4> QED  BY <2>1, <4>1
    <3>2. CASE w = q
      <4>1. ~Refused(q)  BY <1>3, <1>5, <2>1, <3>2
      <4>2. ASSUME NEW c \in Cells, NEW m \in Mirrors, Covers(w, c)
            PROVE  Pending(w, c, m)'
        <5>1. c \in First[q]..Last[q]
          BY <3>2, <4>2, SpanIs, ShapeIs DEF Covers
        <5>2. PICK o \in N : o.m = m /\ c \in OpCells(o)  BY <3>2, <4>1, <5>1
        <5>3. o \in ops' /\ o.q = w /\ o.ph = "sent"  BY <3>2, <5>2
        <5> QED  BY <5>2, <5>3 DEF Pending, OpCells
      <4> QED  BY <4>2
    <3> QED  BY <3>1, <3>2
  <2>2. \A o \in ops : o \in ops'  BY <1>2
  <2> QED  BY <1>1, <1>2, <1>5, <1>6, <2>1, <2>2, WriteInvKept
<1>13. ReadInv'
  <2>1. \A r \in Reads : req'[r].got = req[r].got  BY <1>3, <1>5 DEF Requests, RWs
  <2>2. ASSUME NEW r \in Reads, req'[r].st \in {"busy", "ok"}, ~req'[r].refused
        PROVE  \/ req[r].st \in {"busy", "ok"}
               \/ \A c \in First[r]..Last[r] :
                     Got(r, c)' \/ (req'[r].st = "busy" /\ Asked(r, c)')
    <3>1. CASE r # q
      <4>1. req'[r] = req[r]  BY <1>5, <3>1 DEF Requests, RWs
      <4> QED  BY <2>2, <4>1
    <3>2. CASE r = q
      <4>1. ~Refused(q) /\ req'[r].st = "busy"  BY <1>3, <1>4, <1>5, <2>2, <3>2
      <4>2. ASSUME NEW c \in First[r]..Last[r] PROVE Asked(r, c)'
        <5>1. PICK o \in N : c \in OpCells(o)  BY <3>2, <4>1
        <5>2. o \in ops' /\ o.q = r  BY <3>2, <5>1
        <5> QED  BY <5>1, <5>2 DEF Asked, OpCells
      <4> QED  BY <4>1, <4>2
    <3> QED  BY <3>1, <3>2
  <2>3. \A r \in Reads : req[r].st = "busy" /\ req'[r].st = "ok" => ~Err(r, bad)
    <3> SUFFICES ASSUME NEW r \in Reads, req[r].st = "busy" PROVE req'[r].st = "busy"
      OBVIOUS
    <3>1. r \in Requests /\ r # q  BY DEF Requests, RWs
    <3> QED  BY <1>5, <3>1
  <2>4. \A o \in ops : \A c \in OpCells(o) : req'[o.q].st # "ok" /\ Asked(o.q, c)'
    BY <1>2, <1>7 DEF Asked, OpCells
  <2>5. /\ \A r \in Reads : req[r].got \subseteq req'[r].got
        /\ \A r \in Reads : \A t \in req'[r].got \ req[r].got :
              t[1] \in First[r]..Last[r] /\ Fresh(t[2], t[1], req[r].before)'
    BY <2>1
  <2> QED  BY <1>1, <1>2, <1>5, <2>2, <2>3, <2>4, <2>5, ReadInvKept
<1>14. HoldInv'
  <2>1. Claimed' \subseteq Claimed
    <3> SUFFICES ASSUME NEW w \in Claimed' PROVE w \in Claimed
      OBVIOUS
    <3>1. w \in Writes /\ kind # "null" /\ req'[w].st = "ok" /\ ~req'[w].refused
      BY <1>2 DEF Claimed
    <3>2. w # q  BY <1>3, <1>4, <1>5, <3>1
    <3>3. req'[w] = req[w]  BY <1>5, <3>1, <3>2 DEF Requests, RWs
    <3> QED  BY <3>1, <3>3 DEF Claimed
  <2>2. Claimed' \ Claimed = {}  BY <2>1
  <2> HIDE DEF Claimed
  <2> QED  BY <1>1, <1>2, <1>5, <1>6, <2>2, HoldInvKept
<1>15. FaultInv'  BY <1>1, <1>2, FaultInvSubmit
<1> QED  BY <1>8, <1>9, <1>10, <1>11, <1>12, <1>13, <1>14, <1>15 DEF IInv

LEMMA SubmitWriteKeeps ==
    ASSUME IInv, NEW w \in Writes, SubmitWrite(w)
    PROVE  IInv'
<1> DEFINE N == WriteOps(w)
<1>1. w \in RWs /\ w \notin Reads  BY ValuesAssumption DEF RWs
<1>2. /\ \A o \in N : /\ o \in OpRecords /\ Located(o)
                      /\ o.q = w /\ o.ph = "sent" /\ o.res = <<>>
      /\ Taken(w) = {} => N = {}
      /\ ~Refused(w) => \A c \in First[w]..Last[w], m \in Mirrors :
            \E o \in N : o.m = m /\ c \in OpCells(o)
  BY WriteOpsAre
<1>3. next_hid \in [Groups -> Mirrors]  BY DEF IInv, TypeOK
<1>4. /\ OnFiles /\ req[w].st = "new" /\ ops' = ops \cup N /\ offline' = OfflineAfter(w)
      /\ req' = [req EXCEPT ![w] = Submitted(w)] /\ next_hid' = next_hid
      /\ UNCHANGED <<kind, file, stable, bad, safe, failed, cut, errors, restarts>>
  BY DEF SubmitWrite
<1> HIDE DEF N
<1> QED  BY <1>1, <1>2, <1>3, <1>4, SubmitKeeps

LEMMA SubmitReadKeeps ==
    ASSUME IInv, NEW r \in Reads, SubmitRead(r)
    PROVE  IInv'
<1> DEFINE N == ReadOps(r)
<1>1. r \in RWs /\ r \notin Writes  BY ValuesAssumption DEF RWs
<1>2. next_hid \in [Groups -> Mirrors]  BY DEF IInv, TypeOK
<1>3. /\ \A o \in N : /\ o \in OpRecords /\ Located(o)
                      /\ o.q = r /\ o.ph = "sent" /\ o.res = <<>>
      /\ Taken(r) = {} => N = {}
      /\ ~Refused(r) => \A c \in First[r]..Last[r] : \E o \in N : c \in OpCells(o)
      /\ IsFiniteSet(N)
  BY <1>2, ReadOpsAre
<1>4. /\ OnFiles /\ req[r].st = "new" /\ ops' = ops \cup N /\ offline' = OfflineAfter(r)
      /\ req' = [req EXCEPT ![r] = Submitted(r)] /\ next_hid' = NextHid(r)
      /\ UNCHANGED <<kind, file, stable, bad, safe, failed, cut, errors, restarts>>
  BY DEF SubmitRead
<1>5. next_hid' \in [Groups -> Mirrors]
  <2> DEFINE C(g) == Cardinality({o \in N : o.g = g})
  <2>1. NextHid(r) = [g \in Groups |-> (next_hid[g] + C(g)) % NrMirrors]
    BY <1>2 DEF NextHid, NrMirrors
  <2>2. ASSUME NEW g \in Groups
        PROVE  (next_hid[g] + C(g)) % NrMirrors \in Mirrors
    <3>1. IsFiniteSet({o \in N : o.g = g})
      <4>1. {o \in N : o.g = g} \in SUBSET N  OBVIOUS
      <4> QED  BY <1>3, <4>1, FS_Subset
    <3>2. C(g) \in Nat  BY <3>1, FS_CardinalityType
    <3> HIDE DEF C
    <3>3. next_hid[g] \in Nat  BY <1>2, ShapeIs
    <3>4. next_hid[g] + C(g) \in Nat  BY <3>2, <3>3
    <3> QED  BY <3>4, ShapeIs, DivMod
  <2> HIDE DEF C
  <2> QED  BY <1>4, <2>1, <2>2
<1> HIDE DEF N
<1> QED  BY <1>1, <1>3, <1>4, <1>5, SubmitKeeps

-----------------------------------------------------------------------------
(* Answers at once keep the invariant *)

\* Who is claimed anew when one request changes
LEMMA ClaimedAnew ==
    ASSUME kind' = kind, NEW q, \A r \in Requests : r # q => req'[r] = req[r]
    PROVE  \A w \in Claimed' \ Claimed :
              w = q /\ w \in Writes /\ kind # "null" /\ ~req'[q].refused
<1> SUFFICES ASSUME NEW w \in Claimed', w \notin Claimed
             PROVE  w = q /\ w \in Writes /\ kind # "null" /\ ~req'[q].refused
  OBVIOUS
<1>1. w \in Writes /\ kind # "null" /\ req'[w].st = "ok" /\ ~req'[w].refused
  BY DEF Claimed
<1>2. w = q
  <2> SUFFICES ASSUME w # q PROVE FALSE
    OBVIOUS
  <2>1. req'[w] = req[w]  BY <1>1 DEF Requests, RWs
  <2> QED  BY <1>1, <2>1 DEF Claimed
<1> QED  BY <1>1, <1>2

LEMMA AnswerKeeps ==
    ASSUME IInv, NEW q \in Requests, req[q].st = "new",
           NEW x \in ReqRecords, x.st = "ok", x.before \subseteq Claimed,
           req' = [req EXCEPT ![q] = x],
           UNCHANGED <<kind, offline, next_hid, ops, bad, failed, cut, restarts>>,
           file' \in [Groups -> [Mirrors -> Seq(Values)]],
           stable' \in [Groups -> [Mirrors -> Seq(Values)]],
           safe' \subseteq Writes, errors' \in 0..MaxErrors,
           \A c \in Cells, m \in Mirrors : DataStep(c, m),
           DataInv', HoldInv',
           q \in Reads => \A t \in x.got :
              t[1] \in First[q]..Last[q] /\ Fresh(t[2], t[1], req[q].before)',
           q \in Reads /\ kind # "null" /\ ~x.refused =>
              \A c \in First[q]..Last[q] : \E t \in x.got : t[1] = c
    PROVE  IInv'
<1>1. TypeOK /\ OpInv /\ ReqInv /\ WriteInv /\ ReadInv /\ FaultInv
  BY DEF IInv
<1>2. /\ kind' = kind /\ offline' = offline /\ bad' = bad /\ failed' = failed /\ cut' = cut
      /\ ops' = ops
  OBVIOUS
<1>3. /\ \A r \in Requests : ReqStep(r)
      /\ \A r \in Requests : r # q => req'[r] = req[r]
      /\ req'[q] = x /\ Alive
  BY <1>1, OneRequest
<1>4. \A o \in ops : o.q \in Requests /\ o.q # q /\ req'[o.q].st = "busy"
  <2> SUFFICES ASSUME NEW o \in ops
               PROVE  o.q \in Requests /\ o.q # q /\ req'[o.q].st = "busy"
    OBVIOUS
  <2>1. req[o.q].st = "busy"  BY <1>1 DEF OpInv, OpFit
  <2>2. o.q \in Requests /\ o.q # q  BY <1>1, <2>1, OpType
  <2> QED  BY <1>3, <2>1, <2>2
<1>5. \A r \in Requests : req'[r].st = "busy" => req[r].st = "busy"  BY <1>3
<1>6. TypeOK'
  <2>1. /\ kind' \in Kinds /\ offline' \subseteq Nodes' /\ next_hid' \in [Groups' -> Mirrors']
        /\ ops' \subseteq OpRecords' /\ bad' \subseteq RWs \X Nat /\ failed' \subseteq Groups'
        /\ cut' \subseteq Writes \X Cells \X Mirrors' /\ restarts' \in 0..MaxRestarts
    BY <1>1, SameShape DEF TypeOK
  <2>2. req' \in [Requests -> ReqRecords]
    <3>1. req \in [Requests -> ReqRecords]  BY <1>1 DEF TypeOK, Requests
    <3> QED  BY <3>1
  <2>3. /\ file' \in [Groups' -> [Mirrors' -> Seq(Values)]]
        /\ stable' \in [Groups' -> [Mirrors' -> Seq(Values)]]
    BY SameShape
  <2> QED  BY <2>1, <2>2, <2>3 DEF TypeOK, Requests, ReqRecords
<1>7. OpInv'
  <2> SUFFICES ASSUME NEW o \in ops PROVE OpFit(o)' /\ ShortFit(o)'
    BY <1>2 DEF OpInv
  <2> QED  BY <1>1, <1>2, <1>3, <1>4, OpFitKept
<1>8. ReqInv'  BY <1>1, <1>2, <1>3, ReqInvKept
<1>9. WriteInv'
  <2>1. \A w \in Writes : req'[w].st = "busy" => req[w].st = "busy"
    BY <1>5 DEF Requests, RWs
  <2> QED  BY <1>1, <1>2, <1>3, <2>1, WriteInvKept
<1>10. ReadInv'
  <2>1. \A r \in Reads : r # q => req'[r] = req[r]  BY <1>3 DEF Requests, RWs
  <2>2. q \in Reads => req[q].got = {}  BY <1>1 DEF ReqInv, Requests
  <2>3. \A r \in Reads : req[r].got \subseteq req'[r].got  BY <2>1, <2>2
  <2>4. \A r \in Reads : \A t \in req'[r].got \ req[r].got :
           t[1] \in First[r]..Last[r] /\ Fresh(t[2], t[1], req[r].before)'
    BY <1>3, <2>1
  <2>5. ASSUME NEW r \in Reads, req'[r].st \in {"busy", "ok"}, ~req'[r].refused,
               req[r].st \notin {"busy", "ok"}, kind # "null", NEW c \in First[r]..Last[r]
        PROVE  Got(r, c)'
    <3>1. r = q  BY <2>1, <2>5
    <3>2. ~x.refused  BY <1>3, <2>5, <3>1
    <3>3. \E t \in x.got : t[1] = c  BY <2>5, <3>1, <3>2
    <3> QED  BY <1>3, <3>1, <3>3 DEF Got
  <2>6. \A r \in Reads : req[r].st = "busy" /\ req'[r].st = "ok" => ~Err(r, bad)
    BY <2>1
  <2>7. \A o \in ops : \A c \in OpCells(o) : req'[o.q].st # "ok" /\ Asked(o.q, c)'
    BY <1>2, <1>4 DEF Asked, OpCells
  <2> QED  BY <1>1, <1>2, <1>3, <2>3, <2>4, <2>5, <2>6, <2>7, ReadInvKept
<1>11. FaultInv'  BY <1>1, <1>2, FaultInvKept
<1> QED  BY <1>6, <1>7, <1>8, <1>9, <1>10, <1>11 DEF IInv

\* Memory is one file, where a cell is at its own offset.
LEMMA MemIs ==
    ASSUME kind = "inmem"
    PROVE  /\ Groups = {0} /\ Mirrors = {0} /\ ~OnFiles
           /\ \A c : Place(c) = [g |-> 0, off |-> c]
           /\ \A c : Held(c, 0) = At(file[0][0], c)
<1>1. ~Striped /\ ~Mirrored /\ ~OnFiles  BY DEF Striped, Mirrored, OnFiles
<1>2. Groups = {0} /\ Mirrors = {0}  BY <1>1, ShapeIs DEF NrGroups, NrMirrors
<1>3. \A c : Place(c) = [g |-> 0, off |-> c]  BY <1>1 DEF Place
<1>4. \A c : Held(c, 0) = At(file[0][0], c)  BY <1>3 DEF Held
<1> QED  BY <1>1, <1>2, <1>3, <1>4

LEMMA MemWriteKeeps ==
    ASSUME IInv, NEW w \in Writes, MemWrite(w)
    PROVE  IInv'
<1> DEFINE f == file[0][0]
           h == Written(f, First[w], Last[w] + 1 - First[w], w)
           x == [st |-> "ok", refused |-> ~Fits(w), before |-> Claimed, got |-> {}]
<1>1. TypeOK /\ ReqInv /\ DataInv /\ HoldInv  BY DEF IInv
<1>2. /\ kind = "inmem" /\ kind' = kind /\ req[w].st = "new"
      /\ req' = [req EXCEPT ![w] = x]
      /\ file' = IF Fits(w) THEN [file EXCEPT ![0][0] = h] ELSE file
      /\ UNCHANGED <<kind, offline, next_hid, stable, ops, bad, safe, failed, cut, errors,
                     restarts>>
  BY DEF MemWrite, Answer
<1>3. Groups = {0} /\ Mirrors = {0} /\ \A c : Held(c, 0) = At(file[0][0], c)
  BY <1>2, MemIs
<1>4. \A c : Held(c, 0)' = At(file'[0][0], c)
  <2>1. \A c : Place(c)' = [g |-> 0, off |-> c]  BY <1>2, MemIs, SameShape
  <2> QED  BY <2>1 DEF Held
<1>5. w \in RWs /\ w \in Requests /\ w \notin Reads /\ w # Zero /\ w \in Values
  BY ValuesAssumption DEF RWs, Requests, Values
<1>6. f \in Seq(Values) /\ file \in [{0} -> [{0} -> Seq(Values)]]
  BY <1>1, <1>3 DEF TypeOK
<1>7. First[w] \in Nat /\ Last[w] + 1 - First[w] \in Nat \ {0} /\ Last[w] \in Nat
  BY <1>5, SpanIs
<1>8. /\ h \in Seq(Values)
      /\ \A y \in Nat : At(h, y) = IF First[w] <= y /\ y < First[w] + (Last[w] + 1 - First[w])
                                  THEN w ELSE At(f, y)
  <2> DEFINE off == First[w]
             len == Last[w] + 1 - First[w]
  <2>1. f \in Seq(Values) /\ off \in Nat /\ len \in Nat \ {0} /\ w \in Values
    BY <1>5, <1>6, <1>7
  <2> HIDE DEF off, len, f
  <2>2. /\ Written(f, off, len, w) \in Seq(Values)
        /\ \A y \in Nat : At(Written(f, off, len, w), y) =
              IF off <= y /\ y < off + len THEN w ELSE At(f, y)
    BY <2>1, WrittenIs
  <2> QED  BY <2>2 DEF off, len, f
<1> HIDE DEF h
<1>9. \A c \in Cells : At(h, c) = IF Covers(w, c) THEN w ELSE At(f, c)
  <2> SUFFICES ASSUME NEW c \in Cells
               PROVE  At(h, c) = IF Covers(w, c) THEN w ELSE At(f, c)
    OBVIOUS
  <2>1. c \in Nat  BY ShapeIs
  <2> QED  BY <1>7, <1>8, <2>1 DEF Covers
<1>10. file' \in [{0} -> [{0} -> Seq(Values)]] /\ (Fits(w) => file'[0][0] = h)
       /\ (~Fits(w) => file' = file)
  BY <1>2, <1>6, <1>8
<1>11. x \in ReqRecords /\ x.st = "ok" /\ x.before \subseteq Claimed
  <2>1. Claimed \in SUBSET Writes /\ (~Fits(w)) \in BOOLEAN  BY DEF Claimed, Fits
  <2> QED  BY <2>1 DEF ReqRecords
<1>12. x.refused = ~Fits(w)  OBVIOUS
<1> HIDE DEF x
<1>13. \A c \in Cells, m \in Mirrors : DataStep(c, m)
  <2> SUFFICES ASSUME NEW c \in Cells PROVE DataStep(c, 0)
    BY <1>3
  <2>1. CASE ~Fits(w)
    <3>1. Held(c, 0)' = Held(c, 0)  BY <1>3, <1>4, <1>10, <2>1
    <3> QED  BY <3>1 DEF DataStep
  <2>2. CASE Fits(w)
    <3>1. Held(c, 0)' = IF Covers(w, c) THEN w ELSE Held(c, 0)
      BY <1>3, <1>4, <1>9, <1>10, <2>2
    <3> QED  BY <1>2, <3>1 DEF DataStep
  <2> QED  BY <2>1, <2>2
<1>14. /\ \A r \in Requests : ReqStep(r)
       /\ \A r \in Requests : r # w => req'[r] = req[r]
       /\ req'[w] = x /\ Claimed \subseteq Claimed'
  BY <1>1, <1>2, <1>5, <1>11, OneRequest
<1>15. HoldInv'
  <2>1. ASSUME NEW u \in Claimed' \ Claimed, NEW c \in Cells, Covers(u, c), NEW m \in Mirrors
        PROVE  ~Stale(Held(c, m), u)'
    <3>1. u = w /\ Fits(w)  BY <1>2, <1>12, <1>14, <2>1, ClaimedAnew
    <3>2. Held(c, m)' = w  BY <1>3, <1>4, <1>9, <1>10, <2>1, <3>1
    <3> QED  BY <1>5, <3>1, <3>2 DEF Stale
  <2>2. cut' = cut /\ stable' = stable /\ safe' = safe  BY <1>2
  <2> HIDE DEF Claimed
  <2> QED  BY <1>1, <1>2, <1>13, <1>14, <2>1, <2>2, HoldInvKept
<1>16. DataInv'  BY <1>1, <1>2, <1>13, DataInvKept
<1>17. /\ file' \in [Groups -> [Mirrors -> Seq(Values)]]
       /\ stable' \in [Groups -> [Mirrors -> Seq(Values)]]
       /\ safe' \subseteq Writes /\ errors' \in 0..MaxErrors
  BY <1>1, <1>2, <1>3, <1>10 DEF TypeOK
<1> QED  BY <1>2, <1>5, <1>11, <1>13, <1>15, <1>16, <1>17, AnswerKeeps

LEMMA MemReadKeeps ==
    ASSUME IInv, NEW r \in Reads, MemRead(r)
    PROVE  IInv'
<1> DEFINE G == IF Fits(r) THEN {<<c, At(file[0][0], c)>> : c \in First[r]..Last[r]} ELSE {}
           x == [st |-> "ok", refused |-> ~Fits(r), before |-> Claimed, got |-> G]
<1>1. TypeOK /\ ReqInv /\ DataInv /\ HoldInv /\ MirrorsHold  BY DEF IInv, HoldInv
<1>2. /\ kind = "inmem" /\ kind' = kind /\ req[r].st = "new" /\ req' = [req EXCEPT ![r] = x]
      /\ UNCHANGED <<kind, offline, next_hid, file, stable, ops, bad, safe, failed, cut,
                     errors, restarts>>
  BY DEF MemRead, Answer
<1>3. Groups = {0} /\ Mirrors = {0} /\ \A c : Held(c, 0) = At(file[0][0], c)
  BY <1>2, MemIs
<1>4. r \in RWs /\ r \in Requests /\ r \notin Writes
  BY ValuesAssumption DEF RWs, Requests
<1>5. First[r]..Last[r] \subseteq Cells /\ Cells \subseteq Nat  BY <1>4, SpanIs, ShapeIs
<1>6. file[0][0] \in Seq(Values)  BY <1>1, <1>3, FileType
<1>7. G \subseteq Cells \X Values
  <2>1. \A c \in First[r]..Last[r] : At(file[0][0], c) \in Values  BY <1>5, <1>6, AtIs
  <2> QED  BY <1>5, <2>1
<1>8. \A t \in G : t[1] \in First[r]..Last[r] /\ t[2] = Held(t[1], 0)  BY <1>3
<1>9. ASSUME Fits(r), NEW c \in First[r]..Last[r]
      PROVE  \E t \in G : t[1] = c
  <2>1. <<c, At(file[0][0], c)>> \in G  BY <1>9
  <2> QED  BY <2>1
<1> HIDE DEF G
<1>10. x \in ReqRecords /\ x.st = "ok" /\ x.before = Claimed /\ x.got = G
       /\ x.refused = ~Fits(r)
  <2>1. Claimed \in SUBSET Writes /\ (~Fits(r)) \in BOOLEAN  BY DEF Claimed, Fits
  <2> QED  BY <1>7, <2>1 DEF ReqRecords
<1> HIDE DEF x
<1>11. /\ \A q \in Requests : ReqStep(q)
       /\ \A q \in Requests : q # r => req'[q] = req[q]
       /\ req'[r] = x /\ Claimed \subseteq Claimed'
  BY <1>1, <1>2, <1>4, <1>10, OneRequest
<1>12. \A c \in Cells, m \in Mirrors : DataStep(c, m)  BY <1>2, DataSame
<1>13. DataInv'  BY <1>1, <1>2, <1>12, DataInvKept
<1>14. HoldInv'
  <2>1. Claimed' \ Claimed = {}  BY <1>2, <1>4, <1>11, ClaimedAnew
  <2>2. cut' = cut /\ stable' = stable /\ safe' = safe  BY <1>2
  <2> HIDE DEF Claimed
  <2> QED  BY <1>1, <1>2, <1>11, <1>12, <2>1, <2>2, HoldInvKept
<1>15. ASSUME NEW t \in G
       PROVE  t[1] \in First[r]..Last[r] /\ Fresh(t[2], t[1], req[r].before)'
  <2>1. t[1] \in First[r]..Last[r] /\ t[1] \in Cells /\ t[2] = Held(t[1], 0)
    BY <1>5, <1>8
  <2>2. Belongs(t[2], t[1])  BY <1>1, <1>3, <2>1 DEF DataInv
  <2>3. ASSUME NEW w \in Claimed, Covers(w, t[1]), ~CutOff(w, t[1])
        PROVE  ~(t[2] = Zero \/ (t[2] # w /\ t[2] \in req'[w].before))
    <3>1. ~Stale(t[2], w)  BY <1>1, <1>3, <2>1, <2>3 DEF MirrorsHold, CutOff
    <3>2. w \in Requests /\ w # r  BY <1>4 DEF Claimed, Requests, RWs
    <3>3. req'[w] = req[w]  BY <1>11, <3>2
    <3> QED  BY <3>1, <3>3 DEF Stale
  <2>4. req'[r].before = Claimed  BY <1>2, <1>10, <1>11
  <2>5. \A w : CutOff(w, t[1])' = CutOff(w, t[1])  BY <1>2, SameShape DEF CutOff
  <2> QED  BY <2>1, <2>2, <2>3, <2>4, <2>5 DEF Fresh, Stale, Belongs, Covers
<1>16. /\ file' \in [Groups -> [Mirrors -> Seq(Values)]]
       /\ stable' \in [Groups -> [Mirrors -> Seq(Values)]]
       /\ safe' \subseteq Writes /\ errors' \in 0..MaxErrors
  BY <1>1, <1>2 DEF TypeOK
<1>17. /\ \A t \in x.got : t[1] \in First[r]..Last[r] /\ Fresh(t[2], t[1], req[r].before)'
       /\ ~x.refused => \A c \in First[r]..Last[r] : \E t \in x.got : t[1] = c
  BY <1>9, <1>10, <1>15
<1> QED  BY <1>2, <1>4, <1>10, <1>12, <1>13, <1>14, <1>16, <1>17, AnswerKeeps

\* An answer with nothing done
LEMMA NullKeeps ==
    ASSUME IInv, NEW q \in Requests, req[q].st = "new", kind = "null" \/ q \in Flushes,
           Answer(q, FALSE, {}),
           UNCHANGED <<kind, offline, next_hid, file, stable, ops, bad, safe, failed, cut,
                       errors, restarts>>
    PROVE  IInv'
<1> DEFINE x == [st |-> "ok", refused |-> FALSE, before |-> Claimed, got |-> {}]
<1>1. TypeOK /\ ReqInv /\ DataInv /\ HoldInv  BY DEF IInv
<1>2. kind' = kind /\ req' = [req EXCEPT ![q] = x]  BY DEF Answer
<1>3. x \in ReqRecords /\ x.st = "ok" /\ x.before = Claimed /\ x.got = {}
  <2>1. Claimed \in SUBSET Writes  BY DEF Claimed
  <2> QED  BY <2>1 DEF ReqRecords
<1> HIDE DEF x
<1>4. /\ \A r \in Requests : ReqStep(r)
      /\ \A r \in Requests : r # q => req'[r] = req[r]
      /\ Claimed \subseteq Claimed'
  BY <1>1, <1>2, <1>3, OneRequest
<1>5. \A c \in Cells, m \in Mirrors : DataStep(c, m)  BY DataSame
<1>6. DataInv'  BY <1>1, <1>5, DataInvKept
<1>7. q \in Flushes => q \notin Writes /\ q \notin Reads  BY ValuesAssumption DEF RWs
<1>8. HoldInv'
  <2>1. Claimed' \ Claimed = {}  BY <1>2, <1>4, <1>7, ClaimedAnew
  <2>2. cut' = cut /\ stable' = stable /\ safe' = safe  OBVIOUS
  <2> HIDE DEF Claimed
  <2> QED  BY <1>1, <1>2, <1>4, <1>5, <2>1, <2>2, HoldInvKept
<1>9. /\ file' \in [Groups -> [Mirrors -> Seq(Values)]]
      /\ stable' \in [Groups -> [Mirrors -> Seq(Values)]]
      /\ safe' \subseteq Writes /\ errors' \in 0..MaxErrors
  BY <1>1 DEF TypeOK
<1> QED  BY <1>2, <1>3, <1>5, <1>6, <1>7, <1>8, <1>9, AnswerKeeps

LEMMA NullRWKeeps ==
    ASSUME IInv, NEW q \in RWs, NullRW(q)
    PROVE  IInv'
<1>1. q \in Requests  BY DEF Requests
<1> QED  BY <1>1, NullKeeps DEF NullRW

LEMMA NullFlushKeeps ==
    ASSUME IInv, NEW f \in Flushes, NullFlush(f)
    PROVE  IInv'
<1>1. f \in Requests  BY DEF Requests
<1> QED  BY <1>1, NullKeeps DEF NullFlush

\* What is stable after a flush is what was there or what was stable before.
LEMMA FlushKeeps ==
    ASSUME IInv, NEW f \in Flushes, Flush(f)
    PROVE  IInv'
<1> DEFINE x == [req[f] EXCEPT !.st = "ok"]
<1>1. TypeOK /\ ReqInv /\ DataInv /\ HoldInv /\ MirrorsHold /\ FlushedStable
      /\ safe \subseteq Claimed
  BY DEF IInv, HoldInv
<1>2. /\ OnFiles /\ kind' = kind /\ req[f].st = "new" /\ req' = [req EXCEPT ![f] = x]
      /\ UNCHANGED <<kind, offline, next_hid, file, ops, bad, failed, cut, restarts>>
  BY DEF Flush
<1>3. PICK F \in SUBSET (Groups \X Mirrors) :
         /\ errors + Cardinality(F) <= MaxErrors /\ errors' = errors + Cardinality(F)
         /\ stable' = Synced(F) /\ safe' = IF F = {} THEN Claimed ELSE safe
  BY DEF Flush
<1>4. f \in Requests /\ f \notin Reads /\ f \notin Writes
  BY ValuesAssumption DEF RWs, Requests
<1>5. req[f] \in ReqRecords  BY <1>1, <1>4 DEF TypeOK, Requests
<1>6. req[f].before = {}  BY <1>1, <1>2, <1>4 DEF ReqInv, Requests
<1>7. x \in ReqRecords /\ x.st = "ok" /\ x.before = {}  BY <1>5, <1>6 DEF ReqRecords
<1> HIDE DEF x
<1>8. x.before \subseteq Claimed  BY <1>7
<1>9. /\ \A r \in Requests : ReqStep(r)
      /\ \A r \in Requests : r # f => req'[r] = req[r]
      /\ Claimed \subseteq Claimed'
  BY <1>1, <1>2, <1>4, <1>7, <1>8, OneRequest
<1>10. \A w \in Claimed : w \in Writes /\ req'[w] = req[w]
  BY <1>4, <1>9 DEF Claimed, Requests, RWs
<1>11. Claimed' = Claimed
  <2>1. Claimed' \ Claimed = {}  BY <1>2, <1>4, <1>9, ClaimedAnew
  <2> HIDE DEF Claimed
  <2> QED  BY <1>9, <2>1
<1>12. \A c \in Cells, m \in Mirrors : DataStep(c, m)  BY <1>2, DataSame
<1>13. \A c, m : Held(c, m)' = Held(c, m)  BY <1>2, SameShape DEF Held
<1>14. \A c \in Cells, m \in Mirrors :
          HeldStable(c, m)' = IF <<Place(c).g, m>> \in F THEN HeldStable(c, m) ELSE Held(c, m)
  <2> SUFFICES ASSUME NEW c \in Cells, NEW m \in Mirrors
      PROVE HeldStable(c, m)' = IF <<Place(c).g, m>> \in F THEN HeldStable(c, m) ELSE Held(c, m)
    OBVIOUS
  <2> DEFINE g == Place(c).g
  <2>1. g \in Groups  BY PlaceIs, ShapeIs
  <2>2. stable'[g][m] = IF <<g, m>> \in F THEN stable[g][m] ELSE file[g][m]
    BY <1>3, <2>1 DEF Synced
  <2>3. HeldStable(c, m)' = At(stable'[g][m], Place(c).off)
    BY <1>2, SameShape DEF HeldStable
  <2> HIDE DEF g
  <2> QED  BY <2>2, <2>3 DEF HeldStable, Held, g
<1>15. DataInv'
  <2> SUFFICES ASSUME NEW c \in Cells, NEW m \in Mirrors
      PROVE  Belongs(Held(c, m), c)' /\ Belongs(HeldStable(c, m), c)'
    BY <1>2, SameShape DEF DataInv
  <2>1. Belongs(Held(c, m), c) /\ Belongs(HeldStable(c, m), c)  BY <1>1 DEF DataInv
  <2> QED  BY <1>13, <1>14, <2>1 DEF Belongs, Covers
<1>16. MirrorsHold'
  <2> SUFFICES ASSUME NEW w \in Claimed, NEW c \in Cells, NEW m \in Mirrors, Covers(w, c),
                      <<w, c, m>> \notin cut
               PROVE  ~Stale(Held(c, m), w)'
    BY <1>2, <1>11, SameShape DEF MirrorsHold, Covers
  <2>1. ~Stale(Held(c, m), w)  BY <1>1 DEF MirrorsHold
  <2> QED  BY <1>10, <1>13, <2>1 DEF Stale
<1>17. FlushedStable'
  <2> SUFFICES ASSUME NEW w \in safe', NEW c \in Cells, NEW m \in Mirrors, Covers(w, c),
                      <<w, c, m>> \notin cut
               PROVE  ~Stale(HeldStable(c, m), w)'
    BY <1>2, SameShape DEF FlushedStable, Covers
  <2>1. w \in Claimed  BY <1>1, <1>3
  <2>2. ~Stale(Held(c, m), w)  BY <1>1, <2>1 DEF MirrorsHold
  <2>3. <<Place(c).g, m>> \in F => ~Stale(HeldStable(c, m), w)
    BY <1>1, <1>3 DEF FlushedStable
  <2> QED  BY <1>10, <1>14, <2>1, <2>2, <2>3 DEF Stale
<1>18. HoldInv'
  <2>1. safe' \subseteq Claimed'  BY <1>1, <1>3, <1>11
  <2> QED  BY <1>16, <1>17, <2>1 DEF HoldInv
<1>19. errors' \in 0..MaxErrors
  <2>1. IsFiniteSet(F)
    <3>1. IsFiniteSet(Groups) /\ IsFiniteSet(Mirrors)  BY ShapeIs, FS_Interval
    <3>2. IsFiniteSet(Groups \X Mirrors)  BY <3>1, FS_Product
    <3> QED  BY <3>2, FS_Subset
  <2>2. Cardinality(F) \in Nat  BY <2>1, FS_CardinalityType
  <2>3. errors \in Nat  BY <1>1, BoundsAssumption DEF TypeOK
  <2> QED  BY <1>3, <2>2, <2>3, BoundsAssumption
<1>20. /\ file' \in [Groups -> [Mirrors -> Seq(Values)]]
       /\ stable' \in [Groups -> [Mirrors -> Seq(Values)]]
       /\ safe' \subseteq Writes
  <2>1. Synced(F) \in [Groups -> [Mirrors -> Seq(Values)]]  BY <1>1, FileType DEF Synced
  <2>2. safe' \subseteq Claimed  BY <1>1, <1>3
  <2> QED  BY <1>1, <1>2, <1>3, <1>10, <2>1, <2>2 DEF TypeOK
<1> QED  BY <1>2, <1>4, <1>7, <1>8, <1>12, <1>15, <1>18, <1>19, <1>20, AnswerKeeps

-----------------------------------------------------------------------------
(* The files at work keep the invariant *)

\* A step that touches no request
LEMMA ReqSame ==
    ASSUME TypeOK, ReqInv, kind' = kind, req' = req
    PROVE  (\A q \in Requests : ReqStep(q)) /\ Alive /\ Claimed' = Claimed
<1>1. \A q \in Requests : req[q].st = "new" => req[q].before = {}  BY DEF ReqInv, Requests
<1>2. \A q \in Requests : ReqStep(q)  BY <1>1 DEF ReqStep
<1>3. Claimed' = Claimed  BY DEF Claimed
<1>4. Alive  BY <1>3 DEF Alive
<1> QED  BY <1>2, <1>3, <1>4

\* Where the cells of an operation are in its file
LEMMA OpPlace ==
    ASSUME TypeOK, OpInv, NEW o \in ops, NEW c \in OpCells(o)
    PROVE  /\ c \in Cells /\ c \in Nat /\ c \in First[o.q]..Last[o.q] /\ Covers(o.q, c)
           /\ o.c <= c /\ c < o.c + o.len
           /\ Place(c).g = o.g /\ Place(c).off = o.off + (c - o.c)
<1>1. /\ o.q \in RWs /\ o.c \in Nat /\ o.off \in Nat /\ o.len \in Nat \ {0}
  BY OpType
<1>2. Located(o)  BY DEF OpInv, OpFit
<1>3. c \in PartCells(o.q, o.p) /\ o.p \in Parts(o.q)  BY <1>2 DEF Located
<1>4. c \in Cells /\ c \in First[o.q]..Last[o.q]  BY <1>1, <1>3, PartRun
<1>5. c \in Nat /\ o.c <= c /\ c < o.c + o.len  BY <1>1, <1>4, ShapeIs DEF OpCells
<1>6. Covers(o.q, c)  BY <1>1, <1>4, SpanIs DEF Covers
<1>7. Place(c) = [g |-> o.g, off |-> o.off + (c - o.c)]  BY <1>2 DEF Located
<1> QED  BY <1>4, <1>5, <1>6, <1>7

\* No other cell is there.
LEMMA OpReach ==
    ASSUME TypeOK, OpInv, NEW o \in ops, NEW c \in Cells, Place(c).g = o.g,
           o.off <= Place(c).off, Place(c).off < o.off + o.len
    PROVE  c \in OpCells(o)
<1> DEFINE d == o.c + (Place(c).off - o.off)
<1>1. o.c \in Nat /\ o.off \in Nat /\ o.len \in Nat \ {0}  BY OpType
<1>2. c \in Nat /\ Place(c) = [g |-> Place(c).g, off |-> Place(c).off]
      /\ Place(c).off \in Nat
  BY ShapeIs, PlaceIs
<1>3. d \in OpCells(o) /\ d \in Nat /\ o.off + (d - o.c) = Place(c).off
  BY <1>1, <1>2 DEF OpCells
<1> HIDE DEF d
<1>4. Located(o)  BY DEF OpInv, OpFit
<1>5. Place(d) = [g |-> o.g, off |-> o.off + (d - o.c)]  BY <1>3, <1>4 DEF Located
<1>6. Place(d) = Place(c)  BY <1>2, <1>3, <1>5
<1>7. d = c  BY <1>2, <1>3, <1>6, PlaceInjective
<1> QED  BY <1>3, <1>7

\* An operation goes on as another one of the same part.
LEMMA OpsType ==
    ASSUME TypeOK, kind' = kind, NEW o, NEW x \in OpRecords, ops' = (ops \ {o}) \cup {x},
           req' \in [Requests -> ReqRecords], cut' \subseteq Writes \X Cells \X Mirrors,
           file' \in [Groups -> [Mirrors -> Seq(Values)]],
           UNCHANGED <<offline, next_hid, stable, bad, safe, failed, errors, restarts>>
    PROVE  TypeOK'
<1>1. ops' \subseteq OpRecords'  BY SameShape DEF TypeOK
<1>2. /\ kind' \in Kinds /\ offline' \subseteq Nodes' /\ next_hid' \in [Groups' -> Mirrors']
      /\ stable' \in [Groups' -> [Mirrors' -> Seq(Values)]]
      /\ bad' \subseteq RWs \X Nat /\ failed' \subseteq Groups' /\ safe' \subseteq Writes
      /\ errors' \in 0..MaxErrors /\ restarts' \in 0..MaxRestarts
  BY SameShape DEF TypeOK
<1>3. /\ file' \in [Groups' -> [Mirrors' -> Seq(Values)]]
      /\ cut' \subseteq Writes \X Cells \X Mirrors'
  BY SameShape
<1> QED  BY <1>1, <1>2, <1>3 DEF TypeOK, Requests, ReqRecords

\* An operation was executed.
LEMMA RanKeeps ==
    ASSUME IInv, NEW o \in ops, o.ph = "sent", NEW res \in Seq(Values), ops' = Ran(o, res),
           NEW x, x = [o EXCEPT !.ph = "run", !.res = res],
           OpFit(x)', ShortFit(x)', file' \in [Groups -> [Mirrors -> Seq(Values)]],
           \A c \in Cells, m \in Mirrors : DataStep(c, m),
           o.q \in Writes => \A c \in OpCells(o) : Held(c, o.m)' = o.q,
           UNCHANGED <<kind, offline, next_hid, stable, bad, req, safe, failed, cut,
                       errors, restarts>>
    PROVE  IInv'
<1>1. TypeOK /\ OpInv /\ ReqInv /\ DataInv /\ WriteInv /\ ReadInv /\ HoldInv /\ FaultInv
  BY DEF IInv
<1>2. /\ kind' = kind /\ req' = req /\ bad' = bad /\ cut' = cut /\ stable' = stable
      /\ failed' = failed /\ offline' = offline /\ safe' = safe
      /\ ops' = (ops \ {o}) \cup {x}
  BY DEF Ran
<1>3. o \in OpRecords  BY <1>1, OpType
<1>4. /\ x \in OpRecords /\ x.q = o.q /\ x.p = o.p /\ x.g = o.g /\ x.c = o.c /\ x.len = o.len
  BY <1>3 DEF OpRecords
<1>5. OpCells(x) = OpCells(o)  BY <1>4 DEF OpCells
<1>6. /\ \A q \in Requests : ReqStep(q)
      /\ Alive /\ Claimed' = Claimed
  BY <1>1, <1>2, ReqSame
<1>7. \A y \in ops : req[y.q].st = "busy"  BY <1>1 DEF OpInv, OpFit
<1>8. TypeOK'
  <2>1. req' \in [Requests -> ReqRecords] /\ cut' \subseteq Writes \X Cells \X Mirrors
    BY <1>1, <1>2 DEF TypeOK, Requests
  <2> QED  BY <1>1, <1>2, <1>4, <2>1, OpsType
<1>9. OpInv'
  <2> SUFFICES ASSUME NEW y \in ops' PROVE OpFit(y)' /\ ShortFit(y)'
    BY DEF OpInv
  <2>1. CASE y \in ops  BY <1>1, <1>2, <1>6, <1>7, <2>1, OpFitKept
  <2>2. CASE y = x  BY <2>2
  <2> QED  BY <1>2, <2>1, <2>2
<1>10. ReqInv'  BY <1>1, <1>2, <1>6, ReqInvKept
<1>11. DataInv'  BY <1>1, <1>2, DataInvKept
<1>12. WriteInv'
  <2>1. \A y \in ops : y.q \in Writes => y \in ops' \/ \A c \in OpCells(y) : Held(c, y.m)' = y.q
    BY <1>2
  <2> QED  BY <1>1, <1>2, <1>6, <2>1, WriteInvKept
<1>13. ReadInv'
  <2>1. ASSUME NEW y \in ops, NEW c \in OpCells(y)
        PROVE  req'[y.q].st # "ok" /\ Asked(y.q, c)'
    <3>1. req'[y.q].st # "ok"  BY <1>2, <1>7
    <3>2. CASE y # o
      <4>1. y \in ops'  BY <1>2, <3>2
      <4> QED  BY <3>1, <4>1 DEF Asked, OpCells
    <3>3. CASE y = o
      <4>1. x \in ops' /\ x.q = y.q /\ c \in OpCells(x)  BY <1>2, <1>4, <1>5, <3>3
      <4> QED  BY <3>1, <4>1 DEF Asked, OpCells
    <3> QED  BY <3>2, <3>3
  <2>2. /\ \A r \in Reads : req[r].got \subseteq req'[r].got
        /\ \A r \in Reads : \A t \in req'[r].got \ req[r].got :
              t[1] \in First[r]..Last[r] /\ Fresh(t[2], t[1], req[r].before)'
        /\ \A r \in Reads : req'[r].st \in {"busy", "ok"} => req[r].st \in {"busy", "ok"}
        /\ \A r \in Reads : req[r].st = "busy" /\ req'[r].st = "ok" => ~Err(r, bad)
    BY <1>2
  <2> QED  BY <1>1, <1>2, <1>6, <2>1, <2>2, ReadInvKept
<1>14. HoldInv'
  <2> HIDE DEF Claimed
  <2> QED  BY <1>1, <1>2, <1>6, HoldInvKept
<1>15. FaultInv'
  <2>1. \A y \in ops : \E z \in ops' : z.g = y.g /\ z.q = y.q /\ z.p = y.p
    BY <1>2, <1>4
  <2> QED  BY <1>1, <1>2, <2>1, FaultInvKept
<1> QED  BY <1>8, <1>9, <1>10, <1>11, <1>12, <1>13, <1>14, <1>15 DEF IInv

LEMMA WriteExecKeeps ==
    ASSUME IInv, NEW o \in ops, WriteExec(o)
    PROVE  IInv'
<1> DEFINE f == file[o.g][o.m]
           h == Written(f, o.off, o.len, o.q)
           x == [o EXCEPT !.ph = "run", !.res = <<>>]
<1>1. TypeOK /\ OpInv /\ ReqInv  BY DEF IInv
<1>2. /\ o.ph = "sent" /\ o.q \in Writes /\ ops' = Ran(o, <<>>) /\ kind' = kind /\ req' = req
      /\ file' = [file EXCEPT ![o.g][o.m] = h] /\ cut' = cut
      /\ UNCHANGED <<kind, offline, next_hid, stable, bad, req, safe, failed, cut,
                     errors, restarts>>
  BY DEF WriteExec
<1>3. /\ o \in OpRecords /\ o.g \in Groups /\ o.m \in Mirrors /\ o.off \in Nat
      /\ o.len \in Nat \ {0} /\ o.c \in Nat
  BY <1>1, OpType
<1>4. f \in Seq(Values) /\ o.q \in Values  BY <1>1, <1>2, <1>3, FileType DEF Values
<1>5. /\ h \in Seq(Values)
      /\ \A y \in Nat : At(h, y) = IF o.off <= y /\ y < o.off + o.len THEN o.q ELSE At(f, y)
  <2> DEFINE off == o.off
             len == o.len
             v   == o.q
  <2>1. f \in Seq(Values) /\ off \in Nat /\ len \in Nat \ {0} /\ v \in Values
    BY <1>3, <1>4
  <2> HIDE DEF off, len, v, f
  <2>2. /\ Written(f, off, len, v) \in Seq(Values)
        /\ \A y \in Nat : At(Written(f, off, len, v), y) =
              IF off <= y /\ y < off + len THEN v ELSE At(f, y)
    BY <2>1, WrittenIs
  <2> QED  BY <2>2 DEF off, len, v, f
<1> HIDE DEF h
<1>6. file' \in [Groups -> [Mirrors -> Seq(Values)]]
  <2>1. file \in [Groups -> [Mirrors -> Seq(Values)]]  BY <1>1 DEF TypeOK
  <2> QED  BY <1>2, <1>3, <1>5, <2>1
<1>7. \A g \in Groups, m \in Mirrors :
         file'[g][m] = IF g = o.g /\ m = o.m THEN h ELSE file[g][m]
  <2>1. file \in [Groups -> [Mirrors -> Seq(Values)]]  BY <1>1 DEF TypeOK
  <2> QED  BY <1>2, <1>3, <2>1
<1>8. ASSUME NEW c \in Cells, NEW m \in Mirrors
      PROVE  Held(c, m)' = IF c \in OpCells(o) /\ m = o.m THEN o.q ELSE Held(c, m)
  <2> DEFINE g   == Place(c).g
             off == Place(c).off
  <2>1. g \in Groups /\ off \in Nat  BY PlaceIs, ShapeIs
  <2>2. Held(c, m)' = At(file'[g][m], off)  BY <1>2, SameShape DEF Held
  <2>3. Held(c, m) = At(file[g][m], off)  BY DEF Held
  <2>4. CASE c \in OpCells(o) /\ m = o.m
    <3>1. g = o.g /\ off = o.off + (c - o.c) /\ c \in Nat /\ o.c <= c /\ c < o.c + o.len
      BY <1>1, <2>4, OpPlace
    <3> HIDE DEF g, off
    <3>2. o.off <= off /\ off < o.off + o.len  BY <1>3, <3>1
    <3>3. file'[g][m] = h  BY <1>3, <1>7, <2>4, <3>1
    <3> QED  BY <1>5, <2>1, <2>2, <2>4, <3>2, <3>3
  <2>5. CASE ~(c \in OpCells(o) /\ m = o.m)
    <3>1. CASE g = o.g /\ m = o.m
      <4>1. ~(o.off <= off /\ off < o.off + o.len)  BY <1>1, <2>5, <3>1, OpReach
      <4>2. file'[g][m] = h  BY <1>3, <1>7, <3>1
      <4> HIDE DEF g, off
      <4>3. At(h, off) = At(f, off)  BY <1>5, <2>1, <4>1
      <4> QED  BY <2>2, <2>3, <2>5, <3>1, <4>2, <4>3
    <3>2. CASE ~(g = o.g /\ m = o.m)
      <4> HIDE DEF g, off
      <4>1. file'[g][m] = file[g][m]  BY <1>7, <2>1, <3>2
      <4> QED  BY <2>2, <2>3, <2>5, <4>1
    <3> QED  BY <3>1, <3>2
  <2> QED  BY <2>4, <2>5
<1>9. \A c \in Cells, m \in Mirrors : DataStep(c, m)
  <2> SUFFICES ASSUME NEW c \in Cells, NEW m \in Mirrors PROVE DataStep(c, m)
    OBVIOUS
  <2>1. CASE c \in OpCells(o) /\ m = o.m
    <3>1. Held(c, m)' = o.q  BY <1>8, <2>1
    <3>2. Covers(o.q, c)  BY <1>1, <2>1, OpPlace
    <3>3. req[o.q].st = "busy"  BY <1>1 DEF OpInv, OpFit
    <3> QED  BY <1>2, <3>1, <3>2, <3>3 DEF DataStep
  <2>2. CASE ~(c \in OpCells(o) /\ m = o.m)  BY <1>8, <2>2 DEF DataStep
  <2> QED  BY <2>1, <2>2
<1>10. \A c \in OpCells(o) : Held(c, o.m)' = o.q  BY <1>1, <1>3, <1>8, OpPlace
<1>11. /\ x \in OpRecords /\ x.q = o.q /\ x.p = o.p /\ x.g = o.g /\ x.c = o.c /\ x.off = o.off
       /\ x.len = o.len /\ x.res = <<>>
  <2>1. <<>> \in Seq(Values)  OBVIOUS
  <2> QED  BY <1>3, <2>1 DEF OpRecords
<1>12. OpFit(o)  BY <1>1 DEF OpInv
<1> HIDE DEF x
<1>13. Located(x)  BY <1>11, <1>12 DEF OpFit, Located, OpCells
<1>14. OpFit(x)' /\ ShortFit(x)'
  <2>1. x.q \notin Reads  BY <1>2, <1>11, ValuesAssumption
  <2> QED  BY <1>2, <1>11, <1>12, <1>13, <2>1, OpFitNew DEF OpFit
<1>15. <<>> \in Seq(Values) /\ x = [o EXCEPT !.ph = "run", !.res = <<>>]  BY DEF x
<1> QED  BY <1>2, <1>6, <1>9, <1>10, <1>14, <1>15, RanKeeps

LEMMA ReadExecKeeps ==
    ASSUME IInv, NEW o \in ops, ReadExec(o)
    PROVE  IInv'
<1> DEFINE f == file[o.g][o.m]
<1>0. PICK res : res = ReadAt(f, o.off, o.len)  OBVIOUS
<1>1. TypeOK /\ OpInv /\ ReqInv /\ DataInv /\ MirrorsHold  BY DEF IInv, HoldInv
<1>2. /\ o.ph = "sent" /\ o.q \in Reads /\ ops' = Ran(o, res) /\ kind' = kind /\ req' = req
      /\ file' = file /\ cut' = cut
      /\ UNCHANGED <<kind, offline, next_hid, stable, bad, req, safe, failed, cut,
                     errors, restarts>>
  BY <1>0 DEF ReadExec
<1>3. /\ o \in OpRecords /\ o.g \in Groups /\ o.m \in Mirrors /\ o.off \in Nat
      /\ o.len \in Nat \ {0} /\ o.c \in Nat /\ o.q \in Requests /\ req[o.q] \in ReqRecords
  BY <1>1, OpType
<1>4. f \in Seq(Values)  BY <1>1, <1>3, FileType
<1>5. /\ res \in Seq(Values) /\ Len(res) <= o.len
      /\ \A i \in 1..Len(res) : res[i] = At(f, o.off + i - 1)
      /\ Short(res, o.len) => Len(f) < o.off + o.len
  <2> DEFINE off == o.off
             len == o.len
  <2>1. f \in Seq(Values) /\ off \in Nat /\ len \in Nat \ {0}  BY <1>3, <1>4
  <2> HIDE DEF off, len, f
  <2>2. /\ ReadAt(f, off, len) \in Seq(Values) /\ Len(ReadAt(f, off, len)) <= len
        /\ \A i \in 1..Len(ReadAt(f, off, len)) : ReadAt(f, off, len)[i] = At(f, off + i - 1)
        /\ Short(ReadAt(f, off, len), len) => Len(f) < off + len
    BY <2>1, ReadAtIs
  <2>3. res = ReadAt(f, off, len)  BY <1>0 DEF off, len, f
  <2> QED  BY <2>2, <2>3 DEF off, len, f
<1>6. OpFit(o)  BY <1>1 DEF OpInv
<1>7. PICK x :
      /\ x \in OpRecords /\ x.q = o.q /\ x.p = o.p /\ x.g = o.g /\ x.c = o.c /\ x.off = o.off
      /\ x.m = o.m /\ x.len = o.len /\ x.res = res /\ x.ph = "run"
      /\ x = [o EXCEPT !.ph = "run", !.res = res]
  <2>1. PICK y : y = [o EXCEPT !.ph = "run", !.res = res]  OBVIOUS
  <2> QED  BY <1>3, <1>5, <2>1 DEF OpRecords
<1>8. /\ \A q \in Requests : ReqStep(q)
      /\ Alive /\ Claimed' = Claimed
  BY <1>1, <1>2, ReqSame
<1>9. Located(x)' /\ OnFiles'
  <2>1. Located(x)  BY <1>6, <1>7 DEF OpFit, Located, OpCells
  <2> QED  BY <1>2, <1>6, <2>1, SameLocated, SameShape DEF OpFit
<1>10. ASSUME NEW i \in 1..Len(res)
       PROVE  Fresh(res[i], o.c + i - 1, req[o.q].before)'
  <2> DEFINE c == o.c + i - 1
  <2>0. PICK v : v = res[i]  OBVIOUS
  <2>1. Len(res) \in Nat /\ i \in Nat /\ 1 <= i /\ i <= o.len  BY <1>3, <1>5
  <2>2. c \in OpCells(o) /\ c - o.c = i - 1  BY <1>3, <2>1 DEF OpCells
  <2>3. c \in Cells /\ Place(c).g = o.g /\ Place(c).off = o.off + (c - o.c)
    BY <1>1, <2>2, OpPlace
  <2>4. Place(c).off = o.off + i - 1  BY <1>3, <2>1, <2>2, <2>3
  <2> HIDE DEF c
  <2>5. v = Held(c, o.m)  BY <1>5, <2>0, <2>3, <2>4 DEF Held
  <2>6. Belongs(v, c)  BY <1>1, <1>3, <2>3, <2>5 DEF DataInv
  <2>7. req[o.q].before \subseteq Claimed  BY <1>1, <1>3, <1>6 DEF ReqInv, OpFit, Requests
  <2>8. \A w \in req[o.q].before : Covers(w, c) /\ ~CutOff(w, c) => ~Stale(v, w)
    BY <1>1, <1>3, <2>3, <2>5, <2>7 DEF MirrorsHold, CutOff
  <2>9. Fresh(v, c, req[o.q].before)  BY <2>6, <2>8 DEF Fresh
  <2>10. req[o.q].st # "new" /\ req[o.q].before \subseteq Writes
    BY <1>3, <1>6 DEF OpFit, ReqRecords
  <2>11. Fresh(v, c, req[o.q].before)'  BY <1>1, <1>2, <1>3, <1>8, <2>9, <2>10, FreshKept
  <2> QED  BY <2>0, <2>11 DEF c
<1>11. OpFit(x)'
  <2>1. o.q \notin Writes  BY <1>2, ValuesAssumption
  <2>2. req'[o.q].st = "busy"  BY <1>2, <1>6 DEF OpFit
  <2>3. \A i \in 1..Len(x.res) : Fresh(x.res[i], x.c + i - 1, req[x.q].before)'
    BY <1>7, <1>10
  <2> QED  BY <1>5, <1>7, <1>9, <2>1, <2>2, <2>3 DEF OpFit
<1>12. \A c \in Cells, m \in Mirrors : DataStep(c, m)  BY <1>2, DataSame
<1>13. file' \in [Groups -> [Mirrors -> Seq(Values)]]  BY <1>1, <1>2 DEF TypeOK
<1>14. o.q \notin Writes  BY <1>2, ValuesAssumption
<1>15. ShortFit(x)
  <2> SUFFICES ASSUME Short(res, o.len), NEW w \in req[o.q].before, NEW c \in Cells,
                      Covers(w, c), Place(c).g = o.g,
                      Place(c).off >= SizeFor(o.off, o.len)
               PROVE  <<w, c, o.m>> \in cut
    BY <1>7 DEF ShortFit
  <2>1. Place(c).off \in Nat  BY PlaceIs, ShapeIs
  <2>2. Len(f) \in Nat /\ Len(f) < o.off + o.len  BY <1>4, <1>5
  <2>3. ~(Place(c).off < Len(f))  BY <1>3, <2>1, <2>2 DEF SizeFor
  <2>4. Held(c, o.m) = Zero  BY <2>3 DEF Held, At
  <2>5. Stale(Held(c, o.m), w)  BY <2>4 DEF Stale
  <2>6. w \in Claimed  BY <1>1, <1>3, <1>6 DEF ReqInv, OpFit, Requests
  <2> QED  BY <1>1, <1>3, <2>5, <2>6 DEF MirrorsHold
<1>16. ShortFit(x)'  BY <1>2, <1>15, SameShape DEF ShortFit, Covers
<1> QED  BY <1>2, <1>5, <1>7, <1>11, <1>12, <1>13, <1>14, <1>16, RanKeeps

\* What becomes of the request of an operation that is over
LEMMA CompletedIs ==
    ASSUME TypeOK, NEW o \in ops, NEW b, NEW got \in SUBSET (Cells \X Values),
           Completed(o, b, got)
    PROVE  /\ req'[o.q] \in ReqRecords /\ req' = [req EXCEPT ![o.q] = req'[o.q]]
           /\ req'[o.q].got = req[o.q].got \cup got
           /\ req'[o.q].before = req[o.q].before /\ req'[o.q].refused = req[o.q].refused
           /\ req'[o.q].st = (IF \E y \in ops' : y.q = o.q THEN req[o.q].st
                              ELSE IF Err(o.q, b) THEN "err" ELSE "ok")
           /\ ops' = ops \ {o} /\ bad' = b
           /\ offline' = offline \cup FailedNodes(o, ops', b)
<1> DEFINE q   == o.q
           all == \A y \in ops' : y.q # q
           r   == req[q]
           s   == [r EXCEPT !.got = @ \cup got]
           x   == [s EXCEPT !.st = IF ~all THEN @ ELSE IF Err(q, b) THEN "err" ELSE "ok"]
<1>1. q \in Requests /\ r \in ReqRecords /\ req \in [Requests -> ReqRecords]
  BY OpType DEF TypeOK, Requests
<1>2. /\ ops' = ops \ {o} /\ bad' = b /\ offline' = offline \cup FailedNodes(o, ops', b)
      /\ req' = [req EXCEPT ![q].got = @ \cup got,
                            ![q].st = IF ~all THEN @ ELSE IF Err(q, b) THEN "err" ELSE "ok"]
  BY DEF Completed
<1>3. s \in ReqRecords /\ s.got = r.got \cup got /\ s.st = r.st /\ s.before = r.before
      /\ s.refused = r.refused
  BY <1>1 DEF ReqRecords
<1>4. req' = [req EXCEPT ![q] = x]  BY <1>1, <1>2
<1> HIDE DEF s, r, all
<1>5. /\ x \in ReqRecords /\ x.got = s.got /\ x.before = s.before /\ x.refused = s.refused
      /\ x.st = IF ~all THEN s.st ELSE IF Err(q, b) THEN "err" ELSE "ok"
  BY <1>3 DEF ReqRecords
<1> HIDE DEF x, q
<1>6. req'[q] = x  BY <1>1, <1>4
<1>7. ~all <=> \E y \in ops' : y.q = q  BY DEF all
<1>8. /\ req'[q] \in ReqRecords /\ req' = [req EXCEPT ![q] = req'[q]]
      /\ req'[q].got = r.got \cup got
      /\ req'[q].before = r.before /\ req'[q].refused = r.refused
      /\ req'[q].st = (IF \E y \in ops' : y.q = q THEN r.st
                       ELSE IF Err(q, b) THEN "err" ELSE "ok")
  BY <1>3, <1>4, <1>5, <1>6, <1>7
<1> QED  BY <1>2, <1>8 DEF r, q

\* An operation is over: it has got its cells, or met an error.
LEMMA CompletedKeeps ==
    ASSUME IInv, NEW o \in ops, NEW b, NEW got \in SUBSET (Cells \X Values),
           Completed(o, b, got),
           \/ /\ b = bad /\ failed' = failed /\ o.ph = "run"
              /\ o.q \in Reads => \A c \in OpCells(o) : \E t \in got : t[1] = c
           \/ b = bad \cup {<<o.q, o.p>>} /\ failed' = failed \cup {o.g},
           \A t \in got : t[1] \in First[o.q]..Last[o.q]
                          /\ Fresh(t[2], t[1], req[o.q].before),
           errors' \in 0..MaxErrors,
           UNCHANGED <<kind, next_hid, file, stable, safe, cut, restarts>>
    PROVE  IInv'
<1> DEFINE q == o.q
<1>1. TypeOK /\ OpInv /\ ReqInv /\ DataInv /\ WriteInv /\ ReadInv /\ HoldInv /\ FaultInv
  BY DEF IInv
<1>2. /\ kind' = kind /\ file' = file /\ stable' = stable /\ safe' = safe /\ cut' = cut
  OBVIOUS
<1>3. /\ req'[q] \in ReqRecords /\ req' = [req EXCEPT ![q] = req'[q]]
      /\ req'[q].got = req[q].got \cup got
      /\ req'[q].before = req[q].before /\ req'[q].refused = req[q].refused
      /\ req'[q].st = (IF \E y \in ops' : y.q = q THEN req[q].st
                       ELSE IF Err(q, b) THEN "err" ELSE "ok")
      /\ ops' = ops \ {o} /\ bad' = b
      /\ offline' = offline \cup FailedNodes(o, ops', b)
  BY <1>1, CompletedIs
<1>4. /\ q \in RWs /\ q \in Requests /\ o.p \in Nat /\ o.g \in Groups /\ req[q] \in ReqRecords
  BY <1>1, OpType
<1>5. req[q].st = "busy" /\ Located(o) /\ OnFiles  BY <1>1 DEF OpInv, OpFit
<1>6. bad \subseteq b  OBVIOUS
<1> HIDE DEF q
<1>7. /\ \A r \in Requests : ReqStep(r)
      /\ \A r \in Requests : r # q => req'[r] = req[r]
      /\ Claimed \subseteq Claimed' /\ Alive
  <2> DEFINE x == req'[q]
  <2>1. x.st # "new" /\ x.before = req[q].before /\ x.refused = req[q].refused
    BY <1>3, <1>5
  <2>2. req' = [req EXCEPT ![q] = x]  BY <1>3
  <2> HIDE DEF x
  <2> QED  BY <1>1, <1>2, <1>4, <1>5, <2>1, <2>2, OneRequest
<1>8. ASSUME NEW y \in ops'
      PROVE  y \in ops /\ req[y.q].st = "busy" /\ req'[y.q].st = "busy"
  <2>1. y \in ops  BY <1>3
  <2>2. req[y.q].st = "busy"  BY <1>1, <2>1 DEF OpInv, OpFit
  <2>3. CASE y.q = q  BY <1>3, <1>5, <2>1, <2>2, <2>3
  <2>4. CASE y.q # q
    <3>1. y.q \in Requests  BY <1>1, <2>1, OpType
    <3> QED  BY <1>7, <2>1, <2>2, <2>4, <3>1
  <2> QED  BY <2>3, <2>4
<1>9. \A c \in Cells, m \in Mirrors : DataStep(c, m)  BY <1>2, DataSame
<1>10. \/ /\ b = bad /\ o.ph = "run"
          /\ q \in Reads => \A c \in OpCells(o) : \E t \in got : t[1] = c
       \/ Err(q, b)
  <2>1. o.p \in Parts(q)  BY <1>5 DEF Located, q
  <2>2. <<q, o.p>> \in b => Err(q, b)  BY <2>1 DEF Err
  <2>3. CASE b = bad \cup {<<o.q, o.p>>}  BY <2>2, <2>3 DEF q
  <2>4. CASE b # bad \cup {<<o.q, o.p>>}  BY <2>4 DEF q
  <2> QED  BY <2>3, <2>4
<1>11. \A r : Err(r, bad)' = Err(r, b)
  <2>1. \A r : Parts(r)' = Parts(r)  BY <1>2, SameShape
  <2>2. bad' = b  BY <1>3
  <2> QED  BY <2>1, <2>2 DEF Err
<1>12. TypeOK'
  <2>1. req' \in [Requests -> ReqRecords]
    <3>1. req \in [Requests -> ReqRecords]  BY <1>1 DEF TypeOK, Requests
    <3> QED  BY <1>3, <1>4, <3>1
  <2>2. bad' \subseteq RWs \X Nat
    <3>1. bad \subseteq RWs \X Nat  BY <1>1 DEF TypeOK
    <3> QED  BY <1>3, <1>4, <3>1 DEF q
  <2>3. offline' \subseteq Nodes'
    <3>1. FailedNodes(o, ops', b) \subseteq Nodes  BY <1>4 DEF FailedNodes, Nodes
    <3>2. offline \subseteq Nodes /\ Nodes' = Nodes  BY <1>1, SameShape DEF TypeOK
    <3> QED  BY <1>3, <3>1, <3>2
  <2>4. ops' \subseteq OpRecords' /\ failed' \subseteq Groups'
    <3>1. ops \subseteq OpRecords /\ failed \subseteq Groups  BY <1>1 DEF TypeOK
    <3> QED  BY <1>3, <1>4, <3>1, SameShape
  <2>5. /\ kind' \in Kinds /\ next_hid' \in [Groups' -> Mirrors']
        /\ file' \in [Groups' -> [Mirrors' -> Seq(Values)]]
        /\ stable' \in [Groups' -> [Mirrors' -> Seq(Values)]]
        /\ safe' \subseteq Writes /\ cut' \subseteq Writes \X Cells \X Mirrors'
        /\ errors' \in 0..MaxErrors /\ restarts' \in 0..MaxRestarts
    BY <1>1, SameShape DEF TypeOK
  <2> QED  BY <2>1, <2>2, <2>3, <2>4, <2>5 DEF TypeOK, Requests, ReqRecords
<1>13. OpInv'
  <2> SUFFICES ASSUME NEW y \in ops' PROVE OpFit(y)' /\ ShortFit(y)'
    BY DEF OpInv
  <2> QED  BY <1>1, <1>2, <1>7, <1>8, OpFitKept
<1>14. ReqInv'  BY <1>1, <1>2, <1>7, ReqInvKept
<1>15. DataInv'  BY <1>1, <1>2, <1>9, DataInvKept
<1>16. WriteInv'
  <2>1. \A w \in Writes : req'[w].st = "busy" => req[w].st = "busy"
    BY <1>5, <1>7 DEF Requests, RWs
  <2>2. \A y \in ops : y.ph = "sent" => y \in ops' \/ Err(y.q, bad)'
    BY <1>3, <1>10, <1>11 DEF q
  <2> QED  BY <1>1, <1>2, <1>3, <1>6, <1>7, <1>9, <2>1, <2>2, WriteInvKept
<1>17. ReadInv'
  <2>1. \A r \in Reads : r # q => req'[r] = req[r]  BY <1>7 DEF Requests, RWs
  <2>2. \A r \in Reads : req[r].got \subseteq req'[r].got  BY <1>3, <2>1
  <2>3. ASSUME NEW r \in Reads, NEW t \in req'[r].got \ req[r].got
        PROVE  t[1] \in First[r]..Last[r] /\ Fresh(t[2], t[1], req[r].before)'
    <3>1. r = q /\ t \in got  BY <1>3, <2>1, <2>3
    <3>2. t[1] \in First[q]..Last[q] /\ Fresh(t[2], t[1], req[q].before)
      BY <3>1 DEF q
    <3>3. req[q].st # "new" /\ req[q].before \subseteq Writes  BY <1>4, <1>5 DEF ReqRecords
    <3>4. Fresh(t[2], t[1], req[q].before)'
      <4>1. PICK v, c : v = t[2] /\ c = t[1]  OBVIOUS
      <4>2. Fresh(v, c, req[q].before)'
        BY <1>1, <1>2, <1>4, <1>7, <3>2, <3>3, <4>1, FreshKept DEF q
      <4> QED  BY <4>1, <4>2
    <3> QED  BY <3>1, <3>2, <3>4
  <2>4. \A r \in Reads : req'[r].st \in {"busy", "ok"} => req[r].st \in {"busy", "ok"}
    BY <1>5, <2>1
  <2>5. ASSUME NEW r \in Reads, req[r].st = "busy", req'[r].st = "ok"
        PROVE  ~Err(r, bad)
    <3>1. r = q /\ ~Err(q, b)  BY <1>3, <2>1, <2>5
    <3> QED  BY <1>6, <3>1 DEF Err
  <2>6. ASSUME NEW y \in ops, y.q \in Reads, NEW c \in OpCells(y)
        PROVE  \/ Got(y.q, c)'
               \/ req'[y.q].st # "ok" /\ (Err(y.q, bad)' \/ Asked(y.q, c)')
    <3>1. CASE y # o
      <4>1. y \in ops'  BY <1>3, <3>1
      <4> QED  BY <1>8, <4>1 DEF Asked, OpCells
    <3>2. CASE y = o /\ Err(q, b)
      <4>1. req'[q].st # "ok"  BY <1>3, <1>5, <3>2
      <4> QED  BY <1>11, <3>2, <4>1 DEF q
    <3>3. CASE y = o /\ ~Err(q, b)
      <4>1. PICK t \in got : t[1] = c  BY <1>10, <2>6, <3>3 DEF q
      <4>2. t \in req'[q].got  BY <1>3
      <4> QED  BY <3>3, <4>1, <4>2 DEF Got, q
    <3> QED  BY <3>1, <3>2, <3>3
  <2> QED  BY <1>1, <1>2, <1>3, <1>6, <1>7, <2>2, <2>3, <2>4, <2>5, <2>6, ReadInvKept
<1>18. HoldInv'
  <2>1. ASSUME NEW w \in Claimed' \ Claimed, NEW c \in Cells, NEW m \in Mirrors,
               Covers(w, c), <<w, c, m>> \notin cut'
        PROVE  ~Stale(Held(c, m), w)'
    <3>1. w = q /\ w \in Writes /\ ~req'[q].refused  BY <1>2, <1>7, <2>1, ClaimedAnew
    <3>2. req'[q].st = "ok"  BY <2>1, <3>1 DEF Claimed
    <3>3. ~Err(q, b) /\ \A y \in ops' : y.q # q  BY <1>3, <1>5, <3>2
    <3>4. ~Err(q, bad) /\ o.ph = "run"  BY <1>6, <1>10, <3>3 DEF Err
    <3>5. Pending(w, c, m) \/ ~Stale(Held(c, m), w)
      BY <1>1, <1>2, <1>3, <1>5, <2>1, <3>1, <3>4 DEF WriteInv
    <3>6. ~Pending(w, c, m)
      <4>1. \A y \in ops : y.q = q => y = o  BY <1>3, <3>3
      <4> QED  BY <3>1, <3>4, <4>1 DEF Pending
    <3>7. ReqStep(w) /\ req[w].st # "new" /\ DataStep(c, m) /\ Executed(w, c, m)
      BY <1>4, <1>5, <1>7, <1>9, <3>1, <3>6 DEF Executed
    <3> QED  BY <1>1, <1>2, <2>1, <3>1, <3>5, <3>6, <3>7, NotStaleKept
  <2> HIDE DEF Claimed
  <2> QED  BY <1>1, <1>2, <1>7, <1>9, <2>1, HoldInvKept
<1>19. FaultInv'  BY <1>1, <1>2, FaultInvCompleted
<1> QED  BY <1>12, <1>13, <1>14, <1>15, <1>16, <1>17, <1>18, <1>19 DEF IInv

\* What an operation has got is fit for the cells it is for.
LEMMA GotIs ==
    ASSUME TypeOK, OpInv, NEW o \in ops, NEW i \in 1..Len(o.res)
    PROVE  /\ o.c + i - 1 \in OpCells(o) /\ o.c + i - 1 \in Cells
           /\ o.c + i - 1 \in First[o.q]..Last[o.q] /\ o.res[i] \in Values
           /\ Fresh(o.res[i], o.c + i - 1, req[o.q].before)
<1>1. o.c \in Nat /\ o.len \in Nat \ {0} /\ o.res \in Seq(Values)  BY OpType
<1>2. OpFit(o)  BY DEF OpInv
<1>3. Len(o.res) \in Nat /\ Len(o.res) <= o.len
      /\ Fresh(o.res[i], o.c + i - 1, req[o.q].before)
  BY <1>1, <1>2 DEF OpFit
<1>4. o.c + i - 1 \in OpCells(o)  BY <1>1, <1>3 DEF OpCells
<1>5. o.res[i] \in Values  BY <1>1
<1>6. o.c + i - 1 \in Cells /\ o.c + i - 1 \in First[o.q]..Last[o.q]  BY <1>4, OpPlace
<1> QED  BY <1>3, <1>4, <1>5, <1>6

LEMMA WriteDoneKeeps ==
    ASSUME IInv, NEW o \in ops, WriteDone(o)
    PROVE  IInv'
<1>1. TypeOK  BY DEF IInv
<1>2. /\ o.q \in Writes /\ o.ph = "run" /\ Completed(o, bad, {})
      /\ UNCHANGED <<kind, next_hid, file, stable, safe, failed, cut, errors, restarts>>
  BY DEF WriteDone
<1>3. o.q \notin Reads  BY <1>2, ValuesAssumption
<1>4. failed' = failed /\ errors' \in 0..MaxErrors  BY <1>1, <1>2 DEF TypeOK
<1>5. {} \in SUBSET (Cells \X Values)  OBVIOUS
<1> QED  BY <1>2, <1>3, <1>4, <1>5, CompletedKeeps

LEMMA ReadDoneKeeps ==
    ASSUME IInv, NEW o \in ops, ReadDone(o)
    PROVE  IInv'
<1> DEFINE got == {<<o.c + i - 1, o.res[i]>> : i \in DOMAIN o.res}
<1>1. TypeOK /\ OpInv  BY DEF IInv
<1>2. /\ o.ph = "run" /\ ~Short(o.res, o.len) /\ Completed(o, bad, got)
      /\ UNCHANGED <<kind, next_hid, file, stable, safe, failed, cut, errors, restarts>>
  BY DEF ReadDone
<1>3. o.c \in Nat /\ o.len \in Nat \ {0} /\ o.res \in Seq(Values)  BY <1>1, OpType
<1>4. DOMAIN o.res = 1..Len(o.res) /\ Len(o.res) \in Nat  BY <1>3
<1>5. got \in SUBSET (Cells \X Values)  BY <1>1, <1>4, GotIs
<1>6. \A t \in got : t[1] \in First[o.q]..Last[o.q] /\ Fresh(t[2], t[1], req[o.q].before)
  <2> SUFFICES ASSUME NEW i \in 1..Len(o.res), NEW t, t = <<o.c + i - 1, o.res[i]>>
               PROVE  t[1] \in First[o.q]..Last[o.q] /\ Fresh(t[2], t[1], req[o.q].before)
    BY <1>4
  <2>1. t[1] = o.c + i - 1 /\ t[2] = o.res[i]  OBVIOUS
  <2> QED  BY <1>1, <2>1, GotIs
<1>7. ASSUME o.q \in Reads, NEW c \in OpCells(o)
      PROVE  \E t \in got : t[1] = c
  <2>1. Len(o.res) = o.len
    <3>1. Len(o.res) <= o.len  BY <1>1 DEF OpInv, OpFit
    <3> QED  BY <1>2, <1>3, <1>4, <1>7, <3>1 DEF Short
  <2> DEFINE i == c - o.c + 1
             t == <<o.c + i - 1, o.res[i]>>
  <2>2. c \in Nat /\ o.c <= c /\ c < o.c + o.len  BY <1>1, OpPlace
  <2>3. i \in 1..Len(o.res) /\ o.c + i - 1 = c  BY <1>3, <2>1, <2>2
  <2> HIDE DEF i
  <2>4. t \in got  BY <1>4, <2>3
  <2> QED  BY <2>3, <2>4
<1>8. failed' = failed /\ errors' \in 0..MaxErrors  BY <1>1, <1>2 DEF TypeOK
<1> HIDE DEF got
<1> QED  BY <1>2, <1>5, <1>6, <1>7, <1>8, CompletedKeeps

LEMMA FailKeeps ==
    ASSUME IInv, NEW o \in ops, Fail(o)
    PROVE  IInv'
<1> DEFINE b == bad \cup {<<o.q, o.p>>}
<1>1. TypeOK  BY DEF IInv
<1>2. /\ errors < MaxErrors /\ errors' = errors + 1 /\ failed' = failed \cup {o.g}
      /\ Completed(o, b, {})
      /\ UNCHANGED <<kind, next_hid, file, stable, safe, cut, restarts>>
  BY DEF Fail
<1>3. errors' \in 0..MaxErrors  BY <1>1, <1>2, BoundsAssumption DEF TypeOK
<1>4. {} \in SUBSET (Cells \X Values)  OBVIOUS
<1>5. b = bad \cup {<<o.q, o.p>>}  OBVIOUS
<1> HIDE DEF b
<1> QED  BY <1>2, <1>3, <1>4, <1>5, CompletedKeeps

\* A write that has been executed is not new, and no operation of it is pending.
LEMMA ExecutedIs ==
    ASSUME OpInv, NEW w, NEW c, NEW m, Executed(w, c, m)
    PROVE  req[w].st # "new" /\ ~Pending(w, c, m)
<1>1. CASE w \in Claimed
  <2>1. req[w].st = "ok"  BY <1>1 DEF Claimed
  <2>2. \A y \in ops : req[y.q].st = "busy"  BY DEF OpInv, OpFit
  <2> QED  BY <2>1, <2>2 DEF Pending
<1>2. CASE req[w].st = "busy" /\ ~Pending(w, c, m)  BY <1>2
<1> QED  BY <1>1, <1>2 DEF Executed

\* What the handler of a short read cuts off
LEMMA CutByIs ==
    ASSUME NEW o, o.m \in Mirrors
    PROVE  CutBy(o) \subseteq Writes \X Cells \X Mirrors
<1> SUFFICES ASSUME NEW t \in (Writes \ req[o.q].before) \X Dropped(o, SizeFor(o.off, o.len))
                              \X {o.m}
             PROVE  t \in Writes \X Cells \X Mirrors
  BY DEF CutBy
<1>1. Dropped(o, SizeFor(o.off, o.len)) \subseteq Cells  BY DEF Dropped
<1> QED  BY <1>1

LEMMA CutByHas ==
    ASSUME NEW o, NEW w \in Writes \ req[o.q].before,
           NEW c \in Dropped(o, SizeFor(o.off, o.len)),
           Covers(w, c), req[w].st # "new", ~Pending(w, c, o.m)
    PROVE  <<w, c, o.m>> \in CutBy(o)
<1>1. PICK t \in (Writes \ req[o.q].before) \X Dropped(o, SizeFor(o.off, o.len)) \X {o.m} :
         t = <<w, c, o.m>>
  OBVIOUS
<1>2. t[1] = w /\ t[2] = c /\ t[3] = o.m  BY <1>1
<1>3. t \in CutBy(o)  BY <1>2 DEF CutBy
<1> QED  BY <1>1, <1>3

\* A short read goes on with the cells it did not get, and cuts the file or fills it up.
LEMMA ReadShortKeeps ==
    ASSUME IInv, NEW o \in ops, ReadShort(o)
    PROVE  IInv'
<1> DEFINE size == SizeFor(o.off, o.len)
           n    == Len(o.res)
           f    == file[o.g][o.m]
           h    == Resized(f, size)
           G    == {<<o.c + i - 1, o.res[i]>> : i \in 1..n}
           x    == [o EXCEPT !.c = @ + n, !.off = @ + n, !.len = @ - n,
                             !.ph = "sent", !.res = <<>>]
           z    == [req[o.q] EXCEPT !.got = @ \cup G]
           q    == o.q
<1>1. TypeOK /\ OpInv /\ ReqInv /\ DataInv /\ WriteInv /\ ReadInv /\ HoldInv /\ FaultInv
  BY DEF IInv
<1>2. /\ o.q \in Reads /\ o.ph = "run" /\ Short(o.res, o.len)
      /\ file' = [file EXCEPT ![o.g][o.m] = h]
      /\ cut' = cut \cup CutBy(o)
      /\ ops' = (ops \ {o}) \cup {x}
      /\ req' = [req EXCEPT ![q] = z]
      /\ UNCHANGED <<kind, offline, next_hid, stable, bad, safe, failed, errors, restarts>>
  BY DEF ReadShort
<1>3. /\ kind' = kind /\ stable' = stable /\ safe' = safe /\ bad' = bad /\ failed' = failed
      /\ offline' = offline /\ cut \subseteq cut'
  BY <1>2
<1>4. /\ o \in OpRecords /\ o.q \in RWs /\ o.q \in Requests /\ o.p \in Nat /\ o.g \in Groups
      /\ o.m \in Mirrors /\ o.c \in Nat /\ o.off \in Nat /\ o.len \in Nat \ {0}
      /\ o.res \in Seq(Values) /\ req[o.q] \in ReqRecords
  BY <1>1, OpType
<1>5. n \in Nat /\ n < o.len  BY <1>2, <1>4 DEF Short
<1>6. size \in Nat  BY <1>4 DEF SizeFor
<1>7. f \in Seq(Values)  BY <1>1, <1>4, FileType
<1>8. /\ h \in Seq(Values)
      /\ \A y \in Nat : At(h, y) = IF y < size THEN At(f, y) ELSE Zero
  BY <1>6, <1>7, ResizedIs
<1>9. OpFit(o) /\ Located(o) /\ req[q].st = "busy" /\ OnFiles
  BY <1>1 DEF OpInv, OpFit
<1>10. G \subseteq Cells \X Values  BY <1>1, GotIs
<1>11. \A t \in G : t[1] \in First[q]..Last[q] /\ Fresh(t[2], t[1], req[q].before)
  <2> SUFFICES ASSUME NEW i \in 1..n, NEW t, t = <<o.c + i - 1, o.res[i]>>
               PROVE  t[1] \in First[q]..Last[q] /\ Fresh(t[2], t[1], req[q].before)
    OBVIOUS
  <2>1. t[1] = o.c + i - 1 /\ t[2] = o.res[i]  OBVIOUS
  <2> QED  BY <1>1, <2>1, GotIs
<1>12. \A c \in OpCells(o) : c < o.c + n => \E t \in G : t[1] = c
  <2> SUFFICES ASSUME NEW c \in OpCells(o), c < o.c + n
               PROVE  \E t \in G : t[1] = c
    OBVIOUS
  <2> DEFINE i == c - o.c + 1
             t == <<o.c + i - 1, o.res[i]>>
  <2>1. c \in Nat /\ o.c <= c  BY <1>1, OpPlace
  <2> DEFINE k == o.c
  <2>2. i = c - k + 1 /\ k \in Nat /\ k <= c /\ c < k + n  BY <1>4, <2>1
  <2> HIDE DEF n, i, k
  <2>3. i \in 1..n /\ k + i - 1 = c  BY <1>5, <2>1, <2>2
  <2>4. t \in G  BY <2>3 DEF n
  <2> QED  BY <2>3, <2>4 DEF k
<1> HIDE DEF size, h, G, n
<1>13. /\ x.q = o.q /\ x.p = o.p /\ x.g = o.g /\ x.m = o.m /\ x.c = o.c + n
       /\ x.off = o.off + n /\ x.len = o.len - n /\ x.ph = "sent" /\ x.res = <<>>
  BY <1>4 DEF OpRecords
<1>14. OpCells(x) = {c \in OpCells(o) : ~(c < o.c + n)}
  <2>1. OpCells(o) = o.c..(o.c + o.len - 1)  BY DEF OpCells
  <2>2. OpCells(x) = (o.c + n)..(o.c + n + (o.len - n) - 1)  BY <1>13 DEF OpCells
  <2> HIDE DEF x
  <2> QED  BY <1>4, <1>5, <2>1, <2>2
<1>15. x \in OpRecords
  <2>1. o.c + n \in OpCells(o)  BY <1>4, <1>5 DEF OpCells
  <2>2. o.c + n \in Cells  BY <1>1, <2>1, OpPlace
  <2>3. o.off + n \in Nat /\ o.len - n \in Nat \ {0} /\ <<>> \in Seq(Values)  BY <1>4, <1>5
  <2> QED  BY <1>4, <2>2, <2>3 DEF OpRecords
<1> HIDE DEF x
<1>16. Located(x)
  <2>1. OpCells(x) \subseteq OpCells(o)  BY <1>14
  <2>2. ASSUME NEW c \in OpCells(x)
        PROVE  Place(c) = [g |-> x.g, off |-> x.off + (c - x.c)]
    <3>1. c \in OpCells(o)  BY <2>1
    <3>2. Place(c) = [g |-> o.g, off |-> o.off + (c - o.c)]  BY <1>9, <3>1 DEF Located
    <3>3. c \in Nat  BY <1>1, <3>1, OpPlace
    <3>4. x.off + (c - x.c) = o.off + (c - o.c)  BY <1>4, <1>5, <1>13, <3>3
    <3> QED  BY <1>13, <3>2, <3>4
  <2> QED  BY <1>9, <1>13, <2>1, <2>2 DEF Located
<1>17. z \in ReqRecords /\ z.st = "busy" /\ z.before = req[q].before
       /\ z.refused = req[q].refused /\ z.got = req[q].got \cup G
  BY <1>4, <1>9, <1>10 DEF ReqRecords
<1> HIDE DEF z
<1>18. /\ \A r \in Requests : ReqStep(r)
       /\ \A r \in Requests : r # q => req'[r] = req[r]
       /\ req'[q] = z /\ Claimed \subseteq Claimed' /\ Alive
  BY <1>1, <1>2, <1>3, <1>4, <1>9, <1>17, OneRequest
<1>19. \A g \in Groups, m \in Mirrors :
          file'[g][m] = IF g = o.g /\ m = o.m THEN h ELSE file[g][m]
  <2>1. file \in [Groups -> [Mirrors -> Seq(Values)]]  BY <1>1 DEF TypeOK
  <2> QED  BY <1>2, <1>4, <2>1
<1>20. \A c \in Cells, m \in Mirrors : DataStep(c, m)
  <2> SUFFICES ASSUME NEW c \in Cells, NEW m \in Mirrors PROVE DataStep(c, m)
    OBVIOUS
  <2> DEFINE g   == Place(c).g
             off == Place(c).off
  <2>1. g \in Groups /\ off \in Nat  BY PlaceIs, ShapeIs
  <2>2. Held(c, m)' = At(file'[g][m], off)  BY <1>3, SameShape DEF Held
  <2>3. Held(c, m) = At(file[g][m], off)  BY DEF Held
  <2>4. CASE g = o.g /\ m = o.m
    <3>1. Held(c, m)' = IF off < size THEN At(f, off) ELSE Zero
      BY <1>8, <1>19, <2>1, <2>2, <2>4
    <3>2. Held(c, m) = At(f, off)  BY <2>3, <2>4
    <3>3. CASE off < size  BY <3>1, <3>2, <3>3 DEF DataStep
    <3>4. CASE ~(off < size) /\ off < Len(f)
      <4>1. off >= size  BY <1>6, <2>1, <3>4
      <4>2. c \in Dropped(o, SizeFor(o.off, o.len))
        BY <2>4, <3>4, <4>1 DEF Dropped, size
      <4>3. ASSUME NEW w \in Writes, Covers(w, c), Executed(w, c, m)
            PROVE  <<w, c, m>> \in cut'
        <5>1. CASE w \in req[q].before
          BY <1>1, <1>2, <2>4, <4>1, <4>3, <5>1 DEF OpInv, ShortFit, size
        <5>2. CASE w \notin req[q].before
          <6>1. req[w].st # "new" /\ ~Pending(w, c, m)  BY <1>1, <4>3, ExecutedIs
          <6> QED  BY <1>2, <2>4, <4>2, <4>3, <5>2, <6>1, CutByHas
        <5> QED  BY <5>1, <5>2
      <4> QED  BY <3>1, <3>4, <4>3 DEF DataStep
    <3>5. CASE ~(off < size) /\ ~(off < Len(f))
      <4>1. At(f, off) = Zero  BY <3>5 DEF At
      <4> QED  BY <3>1, <3>2, <3>5, <4>1 DEF DataStep
    <3> QED  BY <3>3, <3>4, <3>5
  <2>5. CASE ~(g = o.g /\ m = o.m)
    <3>1. file'[g][m] = file[g][m]  BY <1>19, <2>1, <2>5
    <3> QED  BY <2>2, <2>3, <3>1 DEF DataStep
  <2> QED  BY <2>4, <2>5
<1>21. TypeOK'
  <2>1. req' \in [Requests -> ReqRecords]
    <3>1. req \in [Requests -> ReqRecords]  BY <1>1 DEF TypeOK, Requests
    <3> QED  BY <1>2, <1>4, <1>17, <3>1
  <2>2. file' \in [Groups -> [Mirrors -> Seq(Values)]]
    <3>1. file \in [Groups -> [Mirrors -> Seq(Values)]]  BY <1>1 DEF TypeOK
    <3> QED  BY <1>2, <1>4, <1>8, <3>1
  <2>3. cut' \subseteq Writes \X Cells \X Mirrors  BY <1>1, <1>2, <1>4, CutByIs DEF TypeOK
  <2> QED  BY <1>1, <1>2, <1>15, <2>1, <2>2, <2>3, OpsType
<1>22. \A y \in ops : req[y.q].st = "busy" /\ req'[y.q].st = "busy"
  <2> SUFFICES ASSUME NEW y \in ops PROVE req[y.q].st = "busy" /\ req'[y.q].st = "busy"
    OBVIOUS
  <2>1. req[y.q].st = "busy"  BY <1>1 DEF OpInv, OpFit
  <2>2. y.q \in Requests  BY <1>1, OpType
  <2> QED  BY <1>17, <1>18, <2>1, <2>2
<1>23. OpInv'
  <2> SUFFICES ASSUME NEW y \in ops' PROVE OpFit(y)' /\ ShortFit(y)'
    BY DEF OpInv
  <2>1. CASE y \in ops  BY <1>1, <1>3, <1>18, <1>22, <2>1, OpFitKept
  <2>2. CASE y = x
    <3>1. y \in OpRecords /\ Located(y) /\ y.res = <<>> /\ y.ph = "sent"
      BY <1>13, <1>15, <1>16, <2>2
    <3>2. req'[y.q].st = "busy"  BY <1>13, <1>22, <2>2
    <3> QED  BY <1>3, <1>9, <3>1, <3>2, OpFitNew
  <2> QED  BY <1>2, <2>1, <2>2
<1>24. ReqInv'  BY <1>1, <1>3, <1>18, ReqInvKept
<1>25. DataInv'  BY <1>1, <1>3, <1>20, DataInvKept
<1> HIDE DEF q
<1>26. q \in Requests /\ q \notin Writes /\ q = o.q
  BY <1>2, <1>4, ValuesAssumption DEF q
<1>27. WriteInv'
  <2>1. \A w \in Writes : req'[w].st = "busy" => req[w].st = "busy"
    BY <1>18, <1>26 DEF Requests, RWs
  <2>2. \A y \in ops : y.q \in Writes => y \in ops'  BY <1>2, <1>26
  <2> QED  BY <1>1, <1>3, <1>18, <1>20, <2>1, <2>2, WriteInvKept
<1>28. ReadInv'
  <2>1. \A r \in Reads : r # q => req'[r] = req[r]  BY <1>18 DEF Requests, RWs
  <2>2. \A r \in Reads : req[r].got \subseteq req'[r].got  BY <1>17, <1>18, <2>1
  <2>3. ASSUME NEW r \in Reads, NEW t \in req'[r].got \ req[r].got
        PROVE  t[1] \in First[r]..Last[r] /\ Fresh(t[2], t[1], req[r].before)'
    <3>1. r = q /\ t \in G  BY <1>17, <1>18, <2>1, <2>3
    <3>2. t[1] \in First[q]..Last[q] /\ Fresh(t[2], t[1], req[q].before)
      BY <1>11, <3>1
    <3>3. req[q].st # "new" /\ req[q].before \subseteq Writes
      BY <1>4, <1>9, <1>26 DEF ReqRecords
    <3>4. Fresh(t[2], t[1], req[q].before)'
      <4>1. PICK v, c : v = t[2] /\ c = t[1]  OBVIOUS
      <4>2. Fresh(v, c, req[q].before)'
        BY <1>1, <1>3, <1>18, <1>26, <3>2, <3>3, <4>1, FreshKept DEF q
      <4> QED  BY <4>1, <4>2
    <3> QED  BY <3>1, <3>2, <3>4
  <2>4. /\ \A r \in Reads : req'[r].st \in {"busy", "ok"} => req[r].st \in {"busy", "ok"}
        /\ \A r \in Reads : req[r].st = "busy" /\ req'[r].st = "ok" => ~Err(r, bad)
    BY <1>9, <1>17, <1>18, <2>1
  <2>5. ASSUME NEW y \in ops, NEW c \in OpCells(y)
        PROVE  Got(y.q, c)' \/ (req'[y.q].st # "ok" /\ Asked(y.q, c)')
    <3>1. req'[y.q].st # "ok"  BY <1>22
    <3>2. CASE y # o
      <4>1. y \in ops'  BY <1>2, <3>2
      <4> QED  BY <3>1, <4>1 DEF Asked, OpCells
    <3>3. CASE y = o /\ c < o.c + n
      <4>1. PICK t \in G : t[1] = c  BY <1>12, <3>3
      <4>2. t \in req'[q].got  BY <1>17, <1>18
      <4> QED  BY <1>26, <3>3, <4>1, <4>2 DEF Got
    <3>4. CASE y = o /\ ~(c < o.c + n)
      <4>1. c \in OpCells(x)  BY <1>14, <3>4
      <4>2. \E u \in ops' : u.q = o.q /\ c \in u.c..(u.c + u.len - 1)
        BY <1>2, <1>13, <4>1 DEF OpCells
      <4> QED  BY <3>1, <3>4, <4>2 DEF Asked, OpCells
    <3> QED  BY <3>2, <3>3, <3>4
  <2> QED  BY <1>1, <1>3, <1>18, <2>2, <2>3, <2>4, <2>5, ReadInvKept
<1>29. HoldInv'
  <2>1. Claimed' \ Claimed = {}  BY <1>3, <1>18, <1>26, ClaimedAnew
  <2> HIDE DEF Claimed
  <2> QED  BY <1>1, <1>3, <1>18, <1>20, <2>1, HoldInvKept
<1>30. FaultInv'
  <2>1. \A y \in ops : \E u \in ops' : u.g = y.g /\ u.q = y.q /\ u.p = y.p
    BY <1>2, <1>13
  <2> QED  BY <1>1, <1>3, <2>1, FaultInvKept
<1> QED  BY <1>21, <1>23, <1>24, <1>25, <1>27, <1>28, <1>29, <1>30 DEF IInv

-----------------------------------------------------------------------------
(* A death keeps the invariant *)

LEMMA RestartKeeps ==
    ASSUME IInv, Restart
    PROVE  IInv'
<1>1. TypeOK /\ OpInv /\ ReqInv /\ DataInv /\ WriteInv /\ ReadInv /\ HoldInv /\ FaultInv
      /\ MirrorsHold /\ FlushedStable /\ safe \subseteq Claimed
  BY DEF IInv, HoldInv
<1>2. /\ restarts < MaxRestarts /\ restarts' = restarts + 1 /\ stable' = file'
      /\ offline' = {} /\ next_hid' = [g \in DOMAIN next_hid |-> 0]
      /\ ops' = {} /\ bad' = {} /\ failed' = {}
      /\ kind' = kind /\ safe' = safe /\ cut' = cut /\ errors' = errors
  BY DEF Restart
<1>3. PICK F \in SUBSET (Groups \X Mirrors) :
         /\ file' = [g \in Groups |-> [m \in Mirrors |->
                       IF <<g, m>> \in F THEN stable[g][m] ELSE file[g][m]]]
         /\ req' = [q \in DOMAIN req |->
                      IF req[q].st = "busy" \/ (F # {} /\ q \in Claimed \ safe)
                      THEN [req[q] EXCEPT !.st = "lost"] ELSE req[q]]
  BY DEF Restart
<1>4. req \in [Requests -> ReqRecords]  BY <1>1 DEF TypeOK, Requests
<1>5. ASSUME NEW q \in Requests
      PROVE  /\ req'[q] \in ReqRecords /\ req'[q].before = req[q].before
             /\ req'[q].got = req[q].got /\ req'[q].refused = req[q].refused
             /\ req'[q].st # "busy"
             /\ \/ req'[q] = req[q] /\ ~(F # {} /\ q \in Claimed \ safe)
                \/ req'[q].st = "lost" /\ req[q].st \in {"busy", "ok"}
  <2>1. req[q] \in ReqRecords  BY <1>4
  <2>2. CASE req[q].st = "busy" \/ (F # {} /\ q \in Claimed \ safe)
    <3>1. req'[q] = [req[q] EXCEPT !.st = "lost"]  BY <1>3, <1>4, <2>2
    <3>2. req[q].st \in {"busy", "ok"}  BY <2>2 DEF Claimed
    <3> QED  BY <2>1, <3>1, <3>2 DEF ReqRecords
  <2>3. CASE ~(req[q].st = "busy" \/ (F # {} /\ q \in Claimed \ safe))
    <3>1. req'[q] = req[q]  BY <1>3, <1>4, <2>3
    <3> QED  BY <2>1, <2>3, <3>1
  <2> QED  BY <2>2, <2>3
<1>6. \A q \in Requests : ReqStep(q)
  <2> SUFFICES ASSUME NEW q \in Requests PROVE ReqStep(q)
    OBVIOUS
  <2>1. req[q].st = "new" => req[q].before = {}  BY <1>1 DEF ReqInv, Requests
  <2>2. CASE req'[q] = req[q]  BY <2>1, <2>2 DEF ReqStep
  <2>3. CASE req'[q].st = "lost" /\ req[q].st \in {"busy", "ok"}
    BY <1>5, <2>3 DEF ReqStep
  <2> QED  BY <1>5, <2>2, <2>3
<1>7. ASSUME NEW c \in Cells, NEW m \in Mirrors
      PROVE  /\ Held(c, m)' = IF <<Place(c).g, m>> \in F THEN HeldStable(c, m) ELSE Held(c, m)
             /\ HeldStable(c, m)' = Held(c, m)'
  <2> DEFINE g == Place(c).g
  <2>1. g \in Groups  BY PlaceIs, ShapeIs
  <2>2. file'[g][m] = IF <<g, m>> \in F THEN stable[g][m] ELSE file[g][m]  BY <1>3, <2>1
  <2>3. /\ Held(c, m)' = At(file'[g][m], Place(c).off)
        /\ HeldStable(c, m)' = At(file'[g][m], Place(c).off)
    BY <1>2, SameShape DEF Held, HeldStable
  <2> HIDE DEF g
  <2> QED  BY <2>2, <2>3 DEF Held, HeldStable, g
<1>8. TypeOK'
  <2>1. file' \in [Groups -> [Mirrors -> Seq(Values)]]  BY <1>1, <1>3, FileType
  <2>2. req' \in [Requests -> ReqRecords]  BY <1>3, <1>4, <1>5
  <2>3. next_hid' \in [Groups -> Mirrors]  BY <1>1, <1>2, ShapeIs DEF TypeOK
  <2>4. restarts' \in 0..MaxRestarts  BY <1>1, <1>2, BoundsAssumption DEF TypeOK
  <2>5. /\ kind' \in Kinds /\ offline' \subseteq Nodes' /\ ops' \subseteq OpRecords'
        /\ bad' \subseteq RWs \X Nat /\ failed' \subseteq Groups' /\ safe' \subseteq Writes
        /\ cut' \subseteq Writes \X Cells \X Mirrors' /\ errors' \in 0..MaxErrors
    BY <1>1, <1>2, SameShape DEF TypeOK
  <2>6. Groups' = Groups /\ Mirrors' = Mirrors  BY <1>2, SameShape
  <2> QED  BY <1>2, <2>1, <2>2, <2>3, <2>4, <2>5, <2>6 DEF TypeOK, Requests, ReqRecords
<1>9. OpInv'  BY <1>2 DEF OpInv
<1>10. ReqInv'
  <2> SUFFICES ASSUME NEW q \in Requests
      PROVE  /\ \A w \in req'[q].before : req'[w].st \in {"ok", "lost"}
             /\ req'[q].st = "new" => req'[q].got = {} /\ req'[q].before = {}
                                      /\ ~req'[q].refused
    BY <1>5 DEF ReqInv, Requests
  <2>1. /\ \A w \in req[q].before : req[w].st \in {"ok", "lost"}
        /\ req[q].st = "new" => req[q].got = {} /\ req[q].before = {} /\ ~req[q].refused
    BY <1>1 DEF ReqInv, Requests
  <2>2. \A w \in req[q].before : w \in Requests
    BY <1>4 DEF ReqRecords, Requests, RWs
  <2>3. \A w \in req[q].before : req'[w].st \in {"ok", "lost"}
    BY <1>6, <2>1, <2>2 DEF ReqStep
  <2> QED  BY <1>5, <2>1, <2>3
<1>11. DataInv'
  <2> SUFFICES ASSUME NEW c \in Cells, NEW m \in Mirrors
      PROVE  Belongs(Held(c, m), c)' /\ Belongs(HeldStable(c, m), c)'
    BY <1>2, SameShape DEF DataInv
  <2>1. Belongs(Held(c, m), c) /\ Belongs(HeldStable(c, m), c)  BY <1>1 DEF DataInv
  <2> QED  BY <1>7, <2>1 DEF Belongs, Covers
<1>12. WriteInv'
  <2>1. \A w \in Writes : req'[w].st # "busy"  BY <1>5 DEF Requests, RWs
  <2> QED  BY <2>1 DEF WriteInv
<1>13. ReadInv'
  <2> SUFFICES ASSUME NEW r \in Reads
      PROVE  /\ \A t \in req'[r].got : /\ t[1] \in First[r]..Last[r]
                                       /\ Fresh(t[2], t[1], req[r].before)'
             /\ ~req'[r].refused /\ kind # "null" /\ req'[r].st = "ok" =>
                   \A c \in First[r]..Last[r] : Got(r, c)'
    BY <1>2, <1>5 DEF ReadInv, Requests, RWs
  <2>1. r \in Requests  BY DEF Requests, RWs
  <2>2. ASSUME NEW t \in req[r].got
        PROVE  t[1] \in First[r]..Last[r] /\ Fresh(t[2], t[1], req[r].before)'
    <3>1. t[1] \in First[r]..Last[r] /\ Fresh(t[2], t[1], req[r].before)
      BY <1>1 DEF ReadInv
    <3>2. req[r].st # "new"  BY <1>1, <2>1, <2>2 DEF ReqInv, Requests
    <3>3. req[r].before \subseteq Writes  BY <1>4, <2>1 DEF ReqRecords
    <3>4. PICK v, c : v = t[2] /\ c = t[1]  OBVIOUS
    <3>5. cut \subseteq cut'  BY <1>2
    <3>6. Fresh(v, c, req[r].before)'
      BY <1>1, <1>2, <1>6, <2>1, <3>1, <3>2, <3>3, <3>4, <3>5, FreshKept
    <3> QED  BY <3>1, <3>4, <3>6
  <2>3. ASSUME ~req'[r].refused, kind # "null", req'[r].st = "ok", NEW c \in First[r]..Last[r]
        PROVE  Got(r, c)'
    <3>1. req'[r] = req[r]  BY <1>5, <2>1, <2>3
    <3>2. Got(r, c)  BY <1>1, <2>3, <3>1 DEF ReadInv
    <3> QED  BY <3>1, <3>2 DEF Got
  <2> QED  BY <1>5, <2>1, <2>2, <2>3
<1>14. \A w \in Claimed' : /\ w \in Claimed /\ req'[w] = req[w] /\ (w \in safe \/ F = {})
  <2> SUFFICES ASSUME NEW w \in Claimed'
               PROVE  w \in Claimed /\ req'[w] = req[w] /\ (w \in safe \/ F = {})
    OBVIOUS
  <2>1. w \in Writes /\ kind # "null" /\ req'[w].st = "ok" /\ ~req'[w].refused
    BY <1>2 DEF Claimed
  <2>2. w \in Requests  BY <2>1 DEF Requests, RWs
  <2>3. req'[w] = req[w] /\ ~(F # {} /\ w \in Claimed \ safe)  BY <1>5, <2>1, <2>2
  <2>4. w \in Claimed  BY <2>1, <2>3 DEF Claimed
  <2> QED  BY <2>3, <2>4
<1>15. \A w \in safe : w \in Claimed' /\ w \in Claimed /\ req'[w] = req[w]
  <2> SUFFICES ASSUME NEW w \in safe
               PROVE  w \in Claimed' /\ w \in Claimed /\ req'[w] = req[w]
    OBVIOUS
  <2>1. w \in Claimed /\ w \in Writes /\ kind # "null" /\ req[w].st = "ok" /\ ~req[w].refused
    BY <1>1 DEF Claimed
  <2>2. w \in Requests  BY <2>1 DEF Requests, RWs
  <2>3. req'[w] = req[w]
    <3>1. ~(req[w].st = "busy" \/ (F # {} /\ w \in Claimed \ safe))  BY <2>1
    <3> QED  BY <1>3, <1>4, <2>2, <3>1
  <2> QED  BY <1>2, <2>1, <2>3 DEF Claimed
<1>16. ASSUME NEW w \in Claimed', NEW c \in Cells, NEW m \in Mirrors, Covers(w, c),
              <<w, c, m>> \notin cut
       PROVE  ~Stale(Held(c, m), w)'
  <2>1. w \in Claimed /\ req'[w] = req[w] /\ (w \in safe \/ F = {})  BY <1>14
  <2>2. ~Stale(Held(c, m), w)  BY <1>1, <1>16, <2>1 DEF MirrorsHold
  <2>3. w \in safe => ~Stale(HeldStable(c, m), w)  BY <1>1, <1>16 DEF FlushedStable
  <2>4. Held(c, m)' = Held(c, m) \/ (w \in safe /\ Held(c, m)' = HeldStable(c, m))
    BY <1>7, <2>1
  <2> QED  BY <2>1, <2>2, <2>3, <2>4 DEF Stale
<1>17. HoldInv'
  <2>1. MirrorsHold'  BY <1>2, <1>16, SameShape DEF MirrorsHold, Covers
  <2>2. FlushedStable'
    <3> SUFFICES ASSUME NEW w \in safe, NEW c \in Cells, NEW m \in Mirrors, Covers(w, c),
                        <<w, c, m>> \notin cut
                 PROVE  ~Stale(HeldStable(c, m), w)'
      BY <1>2, SameShape DEF FlushedStable, Covers
    <3>1. ~Stale(Held(c, m), w)'  BY <1>15, <1>16
    <3>2. HeldStable(c, m)' = Held(c, m)'  BY <1>7
    <3> QED  BY <3>1, <3>2 DEF Stale
  <2>3. safe' \subseteq Claimed'  BY <1>2, <1>15
  <2> QED  BY <2>1, <2>2, <2>3 DEF HoldInv
<1>18. FaultInv'  BY <1>2 DEF FaultInv
<1> QED  BY <1>8, <1>9, <1>10, <1>11, <1>12, <1>13, <1>17, <1>18 DEF IInv

-----------------------------------------------------------------------------
(* The invariant holds at first, and in a step that does nothing *)

LEMMA InitHolds ==
    ASSUME Init
    PROVE  IInv
<1>1. /\ kind \in Kinds /\ offline = {} /\ next_hid = [g \in Groups |-> 0] /\ stable = file
      /\ ops = {} /\ bad = {} /\ safe = {} /\ failed = {} /\ cut = {} /\ errors = 0
      /\ restarts = 0
      /\ req = [q \in Requests |->
                  [st |-> "new", refused |-> FALSE, before |-> {}, got |-> {}]]
  BY DEF Init, Requests
<1>2. PICK n \in Nat : file = [g \in Groups |-> [m \in Mirrors |-> Resized(<<>>, n)]]
  <2>1. Sizes \subseteq Nat /\ {NCells} \subseteq Nat  BY StackAssumption
  <2> QED  BY <2>1 DEF Init
<1>3. \A q \in Requests : /\ req[q].st = "new" /\ req[q].refused = FALSE
                          /\ req[q].before = {} /\ req[q].got = {}
  BY <1>1
<1>4. <<>> \in Seq(Values) /\ Len(<<>>) = 0  OBVIOUS
<1>5. /\ Resized(<<>>, n) \in Seq(Values)
      /\ \A y \in Nat : At(Resized(<<>>, n), y) = Zero
  <2>1. \A y \in Nat : At(<<>>, y) = Zero  BY <1>4 DEF At
  <2> QED  BY <1>4, <2>1, ResizedIs
<1>6. TypeOK
  <2>1. req \in [Requests -> ReqRecords]  BY <1>1 DEF ReqRecords
  <2>2. file \in [Groups -> [Mirrors -> Seq(Values)]]  BY <1>2, <1>5
  <2>3. next_hid \in [Groups -> Mirrors]  BY <1>1, ShapeIs
  <2>4. errors \in 0..MaxErrors /\ restarts \in 0..MaxRestarts  BY <1>1, BoundsAssumption
  <2> QED  BY <1>1, <2>1, <2>2, <2>3, <2>4 DEF TypeOK, Requests
<1>7. OpInv  BY <1>1 DEF OpInv
<1>8. ReqInv  BY <1>3 DEF ReqInv, Requests
<1>9. \A c \in Cells, m \in Mirrors : Held(c, m) = Zero /\ HeldStable(c, m) = Zero
  <2> SUFFICES ASSUME NEW c \in Cells, NEW m \in Mirrors
               PROVE  Held(c, m) = Zero /\ HeldStable(c, m) = Zero
    OBVIOUS
  <2>1. Place(c).g \in Groups /\ Place(c).off \in Nat  BY PlaceIs, ShapeIs
  <2>2. file[Place(c).g][m] = Resized(<<>>, n)  BY <1>2, <2>1
  <2> QED  BY <1>1, <1>5, <2>1, <2>2 DEF Held, HeldStable
<1>10. DataInv  BY <1>9 DEF DataInv, Belongs
<1>11. WriteInv  BY <1>3 DEF WriteInv, Requests, RWs
<1>12. ReadInv  BY <1>3 DEF ReadInv, Requests, RWs
<1>13. HoldInv
  <2>1. Claimed = {}  BY <1>3 DEF Claimed, Requests, RWs
  <2> QED  BY <1>1, <2>1 DEF HoldInv, MirrorsHold, FlushedStable
<1>14. FaultInv  BY <1>1 DEF FaultInv
<1> QED  BY <1>6, <1>7, <1>8, <1>10, <1>11, <1>12, <1>13, <1>14 DEF IInv

LEMMA StutterKeeps ==
    ASSUME IInv, UNCHANGED vars
    PROVE  IInv'
<1>1. TypeOK /\ OpInv /\ ReqInv /\ DataInv /\ WriteInv /\ ReadInv /\ HoldInv /\ FaultInv
  BY DEF IInv
<1>2. /\ kind' = kind /\ offline' = offline /\ next_hid' = next_hid /\ file' = file
      /\ stable' = stable /\ ops' = ops /\ bad' = bad /\ req' = req /\ safe' = safe
      /\ failed' = failed /\ cut' = cut /\ errors' = errors /\ restarts' = restarts
  BY DEF vars
<1>3. (\A q \in Requests : ReqStep(q)) /\ Alive /\ Claimed' = Claimed
  BY <1>1, <1>2, ReqSame
<1>4. \A c \in Cells, m \in Mirrors : DataStep(c, m)  BY <1>2, DataSame
<1>5. \A o \in ops : req[o.q].st = "busy" /\ req'[o.q].st = "busy"
  BY <1>1, <1>2 DEF OpInv, OpFit
<1>6. TypeOK'
  <2>1. Groups' = Groups /\ Mirrors' = Mirrors /\ Nodes' = Nodes /\ OpRecords' = OpRecords
    BY <1>2, SameShape
  <2> QED  BY <1>1, <1>2, <2>1 DEF TypeOK
<1>7. OpInv'
  <2> SUFFICES ASSUME NEW o \in ops PROVE OpFit(o)' /\ ShortFit(o)'
    BY <1>2 DEF OpInv
  <2> QED  BY <1>1, <1>2, <1>3, <1>5, OpFitKept
<1>8. ReqInv'  BY <1>1, <1>2, <1>3, ReqInvKept
<1>9. DataInv'  BY <1>1, <1>2, <1>4, DataInvKept
<1>10. WriteInv'  BY <1>1, <1>2, <1>3, <1>4, WriteInvKept
<1>11. ReadInv'
  <2>1. \A o \in ops : \A c \in OpCells(o) : req'[o.q].st # "ok" /\ Asked(o.q, c)'
    BY <1>2, <1>5 DEF Asked, OpCells
  <2> QED  BY <1>1, <1>2, <1>3, <2>1, ReadInvKept
<1>12. HoldInv'
  <2> HIDE DEF Claimed
  <2> QED  BY <1>1, <1>2, <1>3, <1>4, HoldInvKept
<1>13. FaultInv'  BY <1>1, <1>2, FaultInvKept
<1> QED  BY <1>6, <1>7, <1>8, <1>9, <1>10, <1>11, <1>12, <1>13 DEF IInv

LEMMA NextKeeps ==
    ASSUME IInv, [Next]_vars
    PROVE  IInv'
<1>1. CASE Submit
  <2>1. ASSUME NEW w \in Writes, SubmitWrite(w) PROVE IInv'  BY <2>1, SubmitWriteKeeps
  <2>2. ASSUME NEW r \in Reads, SubmitRead(r) PROVE IInv'  BY <2>2, SubmitReadKeeps
  <2>3. ASSUME NEW f \in Flushes, Flush(f) PROVE IInv'  BY <2>3, FlushKeeps
  <2>4. ASSUME NEW w \in Writes, MemWrite(w) PROVE IInv'  BY <2>4, MemWriteKeeps
  <2>5. ASSUME NEW r \in Reads, MemRead(r) PROVE IInv'  BY <2>5, MemReadKeeps
  <2>6. ASSUME NEW q \in RWs, NullRW(q) PROVE IInv'  BY <2>6, NullRWKeeps
  <2>7. ASSUME NEW f \in Flushes, NullFlush(f) PROVE IInv'  BY <2>7, NullFlushKeeps
  <2> QED  BY <1>1, <2>1, <2>2, <2>3, <2>4, <2>5, <2>6, <2>7 DEF Submit
<1>2. CASE FilesWork
  <2>1. PICK o \in ops : \/ WriteExec(o) \/ ReadExec(o) \/ WriteDone(o) \/ ReadDone(o)
                         \/ ReadShort(o) \/ Fail(o)
    BY <1>2 DEF FilesWork
  <2>2. CASE WriteExec(o)  BY <2>2, WriteExecKeeps
  <2>3. CASE ReadExec(o)  BY <2>3, ReadExecKeeps
  <2>4. CASE WriteDone(o)  BY <2>4, WriteDoneKeeps
  <2>5. CASE ReadDone(o)  BY <2>5, ReadDoneKeeps
  <2>6. CASE ReadShort(o)  BY <2>6, ReadShortKeeps
  <2>7. CASE Fail(o)  BY <2>7, FailKeeps
  <2> QED  BY <2>1, <2>2, <2>3, <2>4, <2>5, <2>6, <2>7
<1>3. CASE Restart  BY <1>3, RestartKeeps
<1>4. CASE UNCHANGED vars  BY <1>4, StutterKeeps
<1> QED  BY <1>1, <1>2, <1>3, <1>4 DEF Next

-----------------------------------------------------------------------------
(* Files that do not have to grow *)

\* No cell is beyond the end of a file of s.
Long(s) == \A c \in Cells, m \in Mirrors : Place(c).off < Len(s[Place(c).g][m])

\* The files are long, now and after a loss of power, and no read meets an end.
LongInv ==
    /\ Long(file) /\ Long(stable) /\ cut = {}
    /\ \A o \in ops : o.ph = "run" /\ o.q \in Reads => ~Short(o.res, o.len)

\* Files stay long that get the content of long ones, or no shorter.
LEMMA LongKept ==
    ASSUME NEW s, NEW t, NEW u, Long(s), Long(t),
           \A g \in Groups, m \in Mirrors :
              /\ Len(s[g][m]) \in Nat /\ Len(t[g][m]) \in Nat /\ Len(u[g][m]) \in Nat
              /\ Len(s[g][m]) <= Len(u[g][m]) \/ Len(t[g][m]) <= Len(u[g][m])
    PROVE  Long(u)
<1> SUFFICES ASSUME NEW c \in Cells, NEW m \in Mirrors
             PROVE  Place(c).off < Len(u[Place(c).g][m])
  BY DEF Long
<1> DEFINE g == Place(c).g
           off == Place(c).off
<1>1. g \in Groups /\ off \in Nat  BY PlaceIs, ShapeIs
<1>2. off < Len(s[g][m]) /\ off < Len(t[g][m])  BY DEF Long
<1> HIDE DEF g, off
<1>3. off < Len(u[g][m])  BY <1>1, <1>2
<1> QED  BY <1>3 DEF g, off

\* A read of a long file is not short.
LEMMA LongRead ==
    ASSUME TypeOK, OpInv, Long(file), NEW o \in ops
    PROVE  ~Short(ReadAt(file[o.g][o.m], o.off, o.len), o.len)
<1> DEFINE c   == o.c + o.len - 1
           f   == file[o.g][o.m]
           off == o.off
           len == o.len
<1>1. /\ o.c \in Nat /\ off \in Nat /\ len \in Nat \ {0} /\ o.g \in Groups /\ o.m \in Mirrors
  BY OpType
<1>2. c \in OpCells(o) /\ c - o.c = len - 1  BY <1>1 DEF OpCells
<1>3. c \in Cells /\ Place(c).g = o.g /\ Place(c).off = off + (c - o.c)  BY <1>2, OpPlace
<1>4. Place(c).off < Len(f)  BY <1>1, <1>3 DEF Long
<1>5. f \in Seq(Values)  BY <1>1, FileType
<1> HIDE DEF c, f, off, len
<1>6. Len(f) \in Nat /\ ~(Len(f) < off + len)  BY <1>1, <1>2, <1>3, <1>4, <1>5
<1>7. ~Short(ReadAt(f, off, len), len)  BY <1>1, <1>5, <1>6, ReadAtIs
<1> QED  BY <1>7 DEF f, off, len

\* A write leaves a file no shorter.
LEMMA WriteLong ==
    ASSUME IInv, kind' = kind, Long(file), NEW g \in Groups, NEW m \in Mirrors,
           NEW off \in Nat, NEW len \in Nat \ {0}, NEW v \in Writes,
           file' = [file EXCEPT ![g][m] = Written(@, off, len, v)]
    PROVE  Long(file')
<1> DEFINE h == Written(file[g][m], off, len, v)
<1>1. file \in [Groups -> [Mirrors -> Seq(Values)]]  BY DEF IInv, TypeOK
<1>2. h \in Seq(Values) /\ Len(file[g][m]) <= Len(h)  BY <1>1, WrittenIs DEF Values
<1>3. file' = [file EXCEPT ![g][m] = h]  OBVIOUS
<1> HIDE DEF h
<1>4. \A d \in Groups, n \in Mirrors :
         file'[d][n] = IF d = g /\ n = m THEN h ELSE file[d][n]
  BY <1>1, <1>3
<1>5. ASSUME NEW d \in Groups, NEW n \in Mirrors
      PROVE  /\ Len(file[d][n]) \in Nat /\ Len(file'[d][n]) \in Nat
             /\ Len(file[d][n]) <= Len(file'[d][n])
  <2>1. file[d][n] \in Seq(Values)  BY <1>1
  <2> QED  BY <1>2, <1>4, <2>1
<1>6. PICK s, u : s = file /\ u = file'  OBVIOUS
<1>7. Long(s)  BY <1>6
<1>8. Long(u)  BY <1>5, <1>6, <1>7, LongKept DEF Long
<1> QED  BY <1>6, <1>8
 DEF Long
\* Restart and flush give to a file what is in it or what is stable.
LEMMA MixLong ==
    ASSUME TypeOK, Long(file), Long(stable), NEW F, NEW u,
           u = [g \in Groups |-> [m \in Mirrors |->
                   IF <<g, m>> \in F THEN stable[g][m] ELSE file[g][m]]]
    PROVE  Long(u)
<1> SUFFICES ASSUME NEW c \in Cells, NEW m \in Mirrors
             PROVE  Place(c).off < Len(u[Place(c).g][m])
  BY DEF Long
<1>1. Place(c).g \in Groups  BY PlaceIs, ShapeIs
<1>2. u[Place(c).g][m] = IF <<Place(c).g, m>> \in F THEN stable[Place(c).g][m]
                         ELSE file[Place(c).g][m]
  BY <1>1
<1> QED  BY <1>2 DEF Long

\* What an operation that is executed leaves in ops
LEMMA LongRan ==
    ASSUME TypeOK, NEW o \in ops, NEW res, ops' = Ran(o, res),
           \A y \in ops : y.ph = "run" /\ y.q \in Reads => ~Short(y.res, y.len),
           o.q \in Reads => ~Short(res, o.len)
    PROVE  \A y \in ops' : y.ph = "run" /\ y.q \in Reads => ~Short(y.res, y.len)
<1>1. PICK x : x = [o EXCEPT !.ph = "run", !.res = res]  OBVIOUS
<1>2. x.q = o.q /\ x.len = o.len /\ x.res = res  BY <1>1, OpType DEF OpRecords
<1>3. ops' = (ops \ {o}) \cup {x}  BY <1>1 DEF Ran
<1> QED  BY <1>2, <1>3

LEMMA LongStep ==
    ASSUME IInv, LongInv, [Next]_vars
    PROVE  LongInv'
<1>1. /\ TypeOK /\ OpInv /\ Long(file) /\ Long(stable) /\ cut = {}
      /\ \A o \in ops : o.ph = "run" /\ o.q \in Reads => ~Short(o.res, o.len)
  BY DEF IInv, LongInv
<1> DEFINE Whole == \A o \in ops' : o.ph = "run" /\ o.q \in Reads => ~Short(o.res, o.len)
<1>2. ASSUME kind' = kind, Long(file'), Long(stable'), cut' = cut, Whole
      PROVE  LongInv'
  BY <1>1, <1>2, SameShape DEF LongInv, Long
<1>3. ASSUME kind' = kind, file' = file, stable' = stable, cut' = cut, Whole
      PROVE  LongInv'
  BY <1>1, <1>2, <1>3 DEF Long
<1>4. CASE Submit
  <2>1. ASSUME NEW w \in Writes, SubmitWrite(w) PROVE LongInv'
    <3>1. \A o \in WriteOps(w) : o.ph = "sent"  BY WriteOpsAre
    <3> QED  BY <1>1, <1>3, <2>1, <3>1 DEF SubmitWrite
  <2>2. ASSUME NEW r \in Reads, SubmitRead(r) PROVE LongInv'
    <3>1. \A o \in ReadOps(r) : o.ph = "sent"  BY <1>1, ReadOpsAre DEF TypeOK
    <3> QED  BY <1>1, <1>3, <2>2, <3>1 DEF SubmitRead
  <2>3. ASSUME NEW f \in Flushes, Flush(f) PROVE LongInv'
    <3>1. PICK F, u : u = Synced(F) /\ stable' = u  BY <2>3 DEF Flush
    <3>2. u = [g \in Groups |-> [m \in Mirrors |->
                  IF <<g, m>> \in F THEN stable[g][m] ELSE file[g][m]]]
      BY <3>1 DEF Synced
    <3>3. Long(u)  BY <1>1, <3>2, MixLong
    <3>4. Long(stable')  BY <3>1, <3>3 DEF Long
    <3>5. kind' = kind /\ file' = file /\ cut' = cut /\ ops' = ops  BY <2>3 DEF Flush
    <3> QED  BY <1>1, <1>2, <3>4, <3>5 DEF Long
  <2>4. ASSUME NEW w \in Writes, MemWrite(w) PROVE LongInv'
    <3>1. kind = "inmem" /\ UNCHANGED <<kind, stable, cut, ops>>  BY <2>4 DEF MemWrite
    <3>2. CASE Fits(w)
      <4> DEFINE len == Last[w] + 1 - First[w]
      <4>1. file' = [file EXCEPT ![0][0] = Written(@, First[w], len, w)]
        BY <2>4, <3>2 DEF MemWrite
      <4>2. 0 \in Groups /\ 0 \in Mirrors /\ First[w] \in Nat /\ len \in Nat \ {0}
        BY ShapeIs, SpanIs DEF RWs
      <4> HIDE DEF len
      <4>3. Long(file')  BY <1>1, <3>1, <4>1, <4>2, WriteLong
      <4> QED  BY <1>1, <1>2, <3>1, <4>3 DEF Long
    <3>3. CASE ~Fits(w)
      <4>1. file' = file  BY <2>4, <3>3 DEF MemWrite
      <4> QED  BY <1>1, <1>3, <3>1, <4>1
    <3> QED  BY <3>2, <3>3
  <2>5. ASSUME NEW r \in Reads, MemRead(r) PROVE LongInv'
    BY <1>1, <1>3, <2>5 DEF MemRead
  <2>6. ASSUME NEW q \in RWs, NullRW(q) PROVE LongInv'
    BY <1>1, <1>3, <2>6 DEF NullRW
  <2>7. ASSUME NEW f \in Flushes, NullFlush(f) PROVE LongInv'
    BY <1>1, <1>3, <2>7 DEF NullFlush
  <2> QED  BY <1>4, <2>1, <2>2, <2>3, <2>4, <2>5, <2>6, <2>7 DEF Submit
<1>5. ASSUME NEW o \in ops, WriteExec(o) PROVE LongInv'
  <2>1. /\ o.q \in Writes /\ ops' = Ran(o, <<>>)
        /\ file' = [file EXCEPT ![o.g][o.m] = Written(@, o.off, o.len, o.q)]
        /\ UNCHANGED <<kind, stable, cut>>
    BY <1>5 DEF WriteExec
  <2>2. o.g \in Groups /\ o.m \in Mirrors /\ o.off \in Nat /\ o.len \in Nat \ {0}
    BY <1>1, OpType
  <2>3. Long(file')  BY <1>1, <2>1, <2>2, WriteLong
  <2>4. o.q \notin Reads  BY <2>1, ValuesAssumption
  <2>5. Whole  BY <1>1, <2>1, <2>4, LongRan
  <2> QED  BY <1>1, <1>2, <2>1, <2>3, <2>5 DEF Long
<1>6. ASSUME NEW o \in ops, ReadExec(o) PROVE LongInv'
  <2>1. /\ ops' = Ran(o, ReadAt(file[o.g][o.m], o.off, o.len))
        /\ UNCHANGED <<kind, file, stable, cut>>
    BY <1>6 DEF ReadExec
  <2>2. ~Short(ReadAt(file[o.g][o.m], o.off, o.len), o.len)  BY <1>1, LongRead
  <2>3. PICK res : res = ReadAt(file[o.g][o.m], o.off, o.len)  OBVIOUS
  <2>4. Whole  BY <1>1, <2>1, <2>2, <2>3, LongRan
  <2> QED  BY <1>3, <2>1, <2>4
<1>7. ASSUME NEW o \in ops, WriteDone(o) \/ ReadDone(o) \/ Fail(o) PROVE LongInv'
  <2>1. ops' \subseteq ops /\ UNCHANGED <<kind, file, stable, cut>>
    BY <1>7 DEF WriteDone, ReadDone, Fail, Completed
  <2> QED  BY <1>1, <1>3, <2>1
<1>8. ASSUME NEW o \in ops PROVE ~ReadShort(o)
  BY <1>1 DEF ReadShort
<1>9. CASE Restart
  <2>0. PICK F : file' = [g \in Groups |-> [m \in Mirrors |->
                            IF <<g, m>> \in F THEN stable[g][m] ELSE file[g][m]]]
    BY <1>9 DEF Restart
  <2>1. PICK u : u = file'  OBVIOUS
  <2>2. Long(u)  BY <1>1, <2>0, <2>1, MixLong
  <2>3. stable' = u /\ kind' = kind /\ cut' = cut /\ ops' = {}  BY <1>9, <2>1 DEF Restart
  <2>4. Long(file') /\ Long(stable')  BY <2>1, <2>2, <2>3 DEF Long
  <2> QED  BY <1>2, <2>3, <2>4
<1>10. CASE UNCHANGED vars  BY <1>1, <1>3, <1>10 DEF vars
<1> QED  BY <1>4, <1>5, <1>6, <1>7, <1>8, <1>9, <1>10 DEF Next, FilesWork

-----------------------------------------------------------------------------
(* The theorems *)

\* The invariant of the stacks: what is at work is in its part and on its place, what
\* is answered is on the mirrors, and an error is known to its nodes or on its way to
\* them.
THEOREM Invariance == Spec => []IInv
<1>1. Init => IInv  BY InitHolds
<1>2. IInv /\ [Next]_vars => IInv'  BY NextKeeps
<1> QED  BY <1>1, <1>2, PTL DEF Spec

\* Nodes, files, operations and requests are those of the stack: raid1's next_hid_ is
\* a mirror, a chunk is never empty, a state machine goes offline only where there is
\* one.
THEOREM TypeCorrect == Spec => []TypeOK
<1>1. IInv => TypeOK  BY DEF IInv
<1> QED  BY <1>1, Invariance, PTL

\* A write that was carried out and answered with success is on every mirror, or
\* something no older is: for any number of groups and mirrors, any strips, whatever
\* the order of the files, and after errors and restarts.  Excepted is, cell by cell
\* and mirror by mirror, what the ftruncate64 after a short read cut off that the
\* write had executed and that was not answered when that read was sent.
THEOREM MirrorsAreHeld == Spec => []MirrorsHold
<1>1. IInv => MirrorsHold  BY DEF IInv, HoldInv
<1> QED  BY <1>1, Invariance, PTL

\* What was answered before a flush that met no error is stable on every mirror of
\* every group: FLQSubmitterComposite leaves no file out.  What a short read's
\* ftruncate64 cut off, as in MirrorsAreHeld, is excepted.
THEOREM FlushesHold == Spec => []FlushedStable
<1>1. IInv => FlushedStable  BY DEF IInv, HoldInv
<1> QED  BY <1>1, Invariance, PTL

\* A read that was carried out and answered with success has filled its buffer from
\* cells that are its own and no older than what had been answered before: its chunks
\* and parts leave no cell out, whichever mirrors they were read from.  A cell of a
\* write that a short read's ftruncate64 cut off on some mirror, as in MirrorsAreHeld,
\* may be found older.
THEOREM ReadsAreFresh == Spec => []ReadFresh
<1>1. ASSUME IInv PROVE ReadFresh
  <2> SUFFICES ASSUME NEW r \in Reads, kind # "null", req[r].st = "ok", ~req[r].refused
      PROVE  /\ {t[1] : t \in req[r].got} = First[r]..Last[r]
             /\ \A t \in req[r].got : t[2] = Zero \/ Covers(t[2], t[1])
             /\ \A t \in req[r].got, w \in req[r].before :
                   Covers(w, t[1]) /\ ~CutOff(w, t[1]) => ~Stale(t[2], w)
    BY DEF ReadFresh
  <2>1. ReadInv  BY <1>1 DEF IInv
  <2>2. \A t \in req[r].got : /\ t[1] \in First[r]..Last[r]
                              /\ Fresh(t[2], t[1], req[r].before)
    BY <2>1 DEF ReadInv
  <2>3. \A c \in First[r]..Last[r] : \E t \in req[r].got : t[1] = c
    BY <2>1 DEF ReadInv, Got
  <2>4. {t[1] : t \in req[r].got} = First[r]..Last[r]  BY <2>2, <2>3
  <2> QED  BY <2>2, <2>4 DEF Fresh, Belongs
<1>2. IInv => ReadFresh  BY <1>1
<1> QED  BY <1>2, Invariance, PTL

\* On files that are as long as their cells from the start, block devices or files of
\* the full size, def::Target's ftruncate64 is never called, and what is answered stays.
THEOREM LongFilesLoseNothing == Spec /\ Long(file) => []WritesStay
<1>1. Init /\ Long(file) => LongInv
  <2> SUFFICES ASSUME Init, Long(file) PROVE LongInv
    OBVIOUS
  <2>1. stable = file /\ cut = {} /\ ops = {}  BY DEF Init
  <2> QED  BY <2>1 DEF LongInv, Long
<1>2. IInv /\ LongInv /\ [Next]_vars => LongInv'  BY LongStep
<1>3. IInv /\ LongInv => WritesStay
  BY DEF IInv, HoldInv, MirrorsHold, LongInv, WritesStay
<1> QED  BY <1>1, <1>2, <1>3, Invariance, PTL DEF Spec

\* An error takes offline the RAID1 it happened in, no other, and the RAID0, once
\* nothing is at work there any more.
THEOREM FaultsAreContained == Spec => []FaultContained
<1>1. IInv => FaultContained  BY DEF IInv, FaultInv, FaultContained
<1> QED  BY <1>1, Invariance, PTL
=============================================================================
