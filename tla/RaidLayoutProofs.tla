-------------------------- MODULE RaidLayoutProofs --------------------------
(***************************************************************************)
(* Where requests lie, for any number of devices, any size of strips and   *)
(* any request: every unit has one place, which is the one the layout has  *)
(* for its address, and parity covers what a write puts beside it.         *)
(***************************************************************************)
EXTENDS RaidLayout, FiniteSetTheorems, SequenceTheorems, WellFoundedInduction, TLAPS

-----------------------------------------------------------------------------
(* Division *)

\* Division with remainder
LEMMA DivMod ==
    ASSUME NEW a \in Nat, NEW w \in Nat \ {0}
    PROVE  /\ a % w \in 0..(w - 1) /\ (a \div w) \in Nat
           /\ a = (a \div w) * w + (a % w)
OBVIOUS

\* A greater multiple is greater by at least one whole.
LEMMA NextMultiple ==
    ASSUME NEW w \in Nat, NEW p \in Int, NEW q \in Int, p < q
    PROVE  p * w + w <= q * w
<1>1. q - p - 1 \in Nat  OBVIOUS
<1>2. (q - p - 1) * w >= 0  BY <1>1
<1>3. (q - p - 1) * w = q * w - p * w - w  OBVIOUS
<1> QED  BY <1>2, <1>3

\* A multiple and a remainder are unique.
LEMMA DivUnique ==
    ASSUME NEW w \in Nat \ {0}, NEW q \in Int, NEW p \in Int,
           NEW r \in 0..(w - 1), NEW t \in 0..(w - 1), q * w + r = p * w + t
    PROVE  q = p /\ r = t
<1>1. CASE q = p  BY <1>1
<1>2. CASE q < p
  <2>1. q * w + w <= p * w  BY <1>2, NextMultiple
  <2>2. q * w \in Int /\ p * w \in Int  OBVIOUS
  <2> QED  BY <2>1, <2>2
<1>3. CASE p < q
  <2>1. p * w + w <= q * w  BY <1>3, NextMultiple
  <2>2. q * w \in Int /\ p * w \in Int  OBVIOUS
  <2> QED  BY <2>1, <2>2
<1> QED  BY <1>1, <1>2, <1>3

\* A multiple of what is not nothing is no less.
LEMMA Multiple ==
    ASSUME NEW a \in Nat \ {0}, NEW b \in Nat
    PROVE  a * b \in Nat /\ b <= a * b
<1>1. a - 1 \in Nat  OBVIOUS
<1>2. (a - 1) * b >= 0  BY <1>1
<1>3. (a - 1) * b = a * b - b /\ a * b \in Nat  OBVIOUS
<1> QED  BY <1>2, <1>3

\* So what is written as a multiple and a remainder is divided.
LEMMA DivIs ==
    ASSUME NEW w \in Nat \ {0}, NEW a \in Nat, NEW q \in Int,
           NEW r \in 0..(w - 1), a = q * w + r
    PROVE  a \div w = q /\ a % w = r
BY DivMod, DivUnique

\* The number of strips that end units from the beginning on touch
LEMMA RoundUp ==
    ASSUME NEW a \in Nat, NEW w \in Nat \ {0}
    PROVE  /\ DivRoundUp(a, w) \in Nat
           /\ a <= DivRoundUp(a, w) * w
           /\ (DivRoundUp(a, w) - 1) * w < a
<1> DEFINE b == a + w - 1
           q == b \div w
           r == b % w
<1>1. b \in Nat  OBVIOUS
<1>2. r \in 0..(w - 1) /\ q \in Nat /\ b = q * w + r  BY <1>1, DivMod
<1>3. DivRoundUp(a, w) = q  BY DEF DivRoundUp
<1> HIDE DEF q, r
<1>4. (q - 1) * w = q * w - w /\ q * w \in Int  BY <1>2
<1> QED  BY <1>2, <1>3, <1>4

\* It is what lies between two multiples.
LEMMA RoundUpIs ==
    ASSUME NEW a \in Nat, NEW w \in Nat \ {0}, NEW q \in Int,
           a <= q * w, (q - 1) * w < a
    PROVE  DivRoundUp(a, w) = q
<1> DEFINE d == DivRoundUp(a, w)
<1>1. d \in Nat /\ a <= d * w /\ (d - 1) * w < a  BY RoundUp
<1> HIDE DEF d
<1>2. d * w \in Int /\ q * w \in Int /\ (d - 1) * w = d * w - w /\ (q - 1) * w = q * w - w
  BY <1>1
<1>3. CASE d < q  BY <1>1, <1>2, <1>3, NextMultiple
<1>4. CASE q < d  BY <1>1, <1>2, <1>4, NextMultiple
<1> QED  BY <1>1, <1>3, <1>4 DEF d

\* Remainders of what is less, of one whole more, and of a remainder
LEMMA ModPlus ==
    ASSUME NEW w \in Nat \ {0}
    PROVE  /\ \A r \in 0..(w - 1) : r % w = r /\ r \div w = 0
           /\ \A a \in Nat : (a + w) % w = a % w /\ (a + w) \div w = (a \div w) + 1
           /\ \A a, b \in Nat : ((a % w) + b) % w = (a + b) % w
<1>1. ASSUME NEW r \in 0..(w - 1) PROVE r % w = r /\ r \div w = 0
  <2>1. r = 0 * w + r /\ r \in Nat  OBVIOUS
  <2> QED  BY <2>1, DivIs
<1>2. ASSUME NEW a \in Nat PROVE (a + w) % w = a % w /\ (a + w) \div w = (a \div w) + 1
  <2> DEFINE q == a \div w
             r == a % w
  <2>1. r \in 0..(w - 1) /\ q \in Nat /\ a = q * w + r  BY DivMod
  <2> HIDE DEF q, r
  <2>2. a + w = (q + 1) * w + r /\ a + w \in Nat /\ q + 1 \in Int  BY <2>1
  <2>3. (a + w) % w = r /\ (a + w) \div w = q + 1  BY <2>1, <2>2, DivIs
  <2> QED  BY <2>3 DEF q, r
<1>3. ASSUME NEW a \in Nat, NEW b \in Nat PROVE ((a % w) + b) % w = (a + b) % w
  <2> DEFINE q == a \div w
             r == a % w
             p == (r + b) \div w
             t == (r + b) % w
  <2>1. r \in 0..(w - 1) /\ q \in Nat /\ a = q * w + r  BY DivMod
  <2>2. r + b \in Nat  BY <2>1
  <2> HIDE DEF q, r
  <2>3. t \in 0..(w - 1) /\ p \in Nat /\ r + b = p * w + t  BY <2>2, DivMod
  <2> HIDE DEF p, t
  <2>4. (q + p) * w = q * w + p * w /\ q * w \in Int /\ p * w \in Int  BY <2>1, <2>3
  <2>5. a + b = (q + p) * w + t  BY <2>1, <2>3, <2>4
  <2>6. a + b \in Nat /\ q + p \in Int  BY <2>1, <2>3
  <2>7. (a + b) % w = t  BY <2>3, <2>5, <2>6, DivIs
  <2> QED  BY <2>7 DEF t, r
<1> QED  BY <1>1, <1>2, <1>3

-----------------------------------------------------------------------------
(* What parity_to XORs where *)

\* len units of data from b on, one into each unit of parity
Into(plen, b, len) == [j \in 0..(plen - 1) |-> IF j < len THEN {b + j} ELSE {}]

\* The rounds of parity_to as an equation
Round(plen, dlen, g, b) ==
    IF dlen - b < plen THEN Into(plen, b, dlen - b)
    ELSE [j \in 0..(plen - 1) |-> Into(plen, b, plen)[j] \cup g[b + plen][j]]

SolvesRounds(plen, dlen, g) == g = [b \in 0..dlen |-> Round(plen, dlen, g, b)]

\* What the rounds from b on are meant to XOR
Rest(plen, dlen, b) ==
    [j \in 0..(plen - 1) |-> {i \in b..(dlen - 1) : (i - b) % plen = j}]

\* One round and the rest of the rounds are the rest.
LEMMA RestIsRound ==
    ASSUME NEW plen \in Nat \ {0}, NEW dlen \in Nat, NEW b \in 0..dlen,
           NEW g, dlen - b < plen \/ g[b + plen] = Rest(plen, dlen, b + plen)
    PROVE  Rest(plen, dlen, b) = Round(plen, dlen, g, b)
<1> DEFINE R(j) == {i \in b..(dlen - 1) : (i - b) % plen = j}
<1>1. ASSUME NEW i \in b..(dlen - 1), i - b < plen PROVE (i - b) % plen = i - b
  <2>1. i - b \in 0..(plen - 1)  BY <1>1
  <2> QED  BY <2>1, ModPlus
<1>2. CASE dlen - b < plen
  <2>1. ASSUME NEW j \in 0..(plen - 1)
        PROVE  R(j) = IF j < dlen - b THEN {b + j} ELSE {}
    <3>1. \A i \in b..(dlen - 1) : (i - b) % plen = i - b  BY <1>1, <1>2
    <3>2. R(j) = {i \in b..(dlen - 1) : i - b = j}  BY <3>1
    <3>3. b \in Nat  OBVIOUS
    <3> HIDE DEF R
    <3>4. ASSUME j < dlen - b PROVE {i \in b..(dlen - 1) : i - b = j} = {b + j}
      BY <3>3, <3>4
    <3>5. ASSUME ~(j < dlen - b) PROVE {i \in b..(dlen - 1) : i - b = j} = {}
      BY <3>3, <3>5
    <3> QED  BY <3>2, <3>4, <3>5
  <2>2. Rest(plen, dlen, b) = [j \in 0..(plen - 1) |-> R(j)]  BY DEF Rest
  <2>3. Round(plen, dlen, g, b) = Into(plen, b, dlen - b)  BY <1>2 DEF Round
  <2> HIDE DEF R
  <2> QED  BY <2>1, <2>2, <2>3 DEF Into
<1>3. CASE ~(dlen - b < plen)
  <2> DEFINE S(j) == {i \in (b + plen)..(dlen - 1) : (i - (b + plen)) % plen = j}
  <2>1. ASSUME NEW i \in (b + plen)..(dlen - 1)
        PROVE  (i - (b + plen)) % plen = (i - b) % plen
    <3>1. i - (b + plen) \in Nat  OBVIOUS
    <3>2. (i - (b + plen)) + plen = i - b  OBVIOUS
    <3> QED  BY <3>1, <3>2, ModPlus
  <2>2. ASSUME NEW j \in 0..(plen - 1)
        PROVE  R(j) = {b + j} \cup S(j)
    <3>1. ASSUME NEW i \in R(j) PROVE i \in {b + j} \cup S(j)
      <4>1. CASE i - b < plen
        <5>1. i - b = j  BY <1>1, <3>1, <4>1
        <5> QED  BY <3>1, <5>1
      <4>2. CASE ~(i - b < plen)
        <5>1. i \in (b + plen)..(dlen - 1)  BY <3>1, <4>2
        <5> QED  BY <2>1, <3>1, <5>1
      <4> QED  BY <4>1, <4>2
    <3>2. b + j \in R(j)
      <4>1. b + j \in b..(dlen - 1) /\ (b + j) - b < plen /\ (b + j) - b = j  BY <1>3
      <4> QED  BY <1>1, <4>1
    <3>3. ASSUME NEW i \in S(j) PROVE i \in R(j)
      <4>1. i \in b..(dlen - 1)  BY <3>3
      <4> QED  BY <2>1, <3>3, <4>1
    <3> HIDE DEF R, S
    <3> QED  BY <3>1, <3>2, <3>3
  <2>3. Rest(plen, dlen, b) = [j \in 0..(plen - 1) |-> R(j)]  BY DEF Rest
  <2>4. Rest(plen, dlen, b + plen) = [j \in 0..(plen - 1) |-> S(j)]  BY DEF Rest
  <2>5. g[b + plen] = Rest(plen, dlen, b + plen)  BY <1>3
  <2>6. \A j \in 0..(plen - 1) : Into(plen, b, plen)[j] = {b + j}  BY DEF Into
  <2>7. Round(plen, dlen, g, b)
          = [j \in 0..(plen - 1) |-> Into(plen, b, plen)[j] \cup g[b + plen][j]]
    BY <1>3 DEF Round
  <2> HIDE DEF R, S
  <2>8. \A j \in 0..(plen - 1) : g[b + plen][j] = S(j)  BY <2>4, <2>5
  <2> QED  BY <2>2, <2>3, <2>6, <2>7, <2>8
<1> QED  BY <1>2, <1>3

\* A set of natural numbers has a least element.
LEMMA LeastNatural ==
    ASSUME NEW T \in SUBSET Nat, T # {}
    PROVE  \E n \in T : \A m \in T : n <= m
<1> DEFINE R == OpToRel(<, Nat)
<1>1. \A m, n \in Nat : m < n => <<m, n>> \in R  BY DEF OpToRel
<1>2. IsWellFoundedOn(R, Nat)  BY NatLessThanWellFounded
<1> HIDE DEF R
<1>3. PICK n \in T : \A m \in T : <<m, n>> \notin R  BY <1>2, WFMin
<1>4. \A m \in T : ~(m < n)  BY <1>1, <1>3
<1> QED  BY <1>3, <1>4

\* So the rounds XOR what they are meant to: were there one that does not, then
\* the last such would be followed by right ones only.
LEMMA RoundsAre ==
    ASSUME NEW plen \in Nat \ {0}, NEW dlen \in Nat, NEW g, SolvesRounds(plen, dlen, g),
           NEW b \in 0..dlen
    PROVE  g[b] = Rest(plen, dlen, b)
<1> DEFINE T == {n \in 0..dlen : g[dlen - n] # Rest(plen, dlen, dlen - n)}
<1>1. ASSUME T # {} PROVE FALSE
  <2>1. T \in SUBSET Nat  OBVIOUS
  <2>2. PICK m \in T : \A n \in T : m <= n  BY <1>1, <2>1, LeastNatural
  <2> DEFINE c == dlen - m
  <2>3. m \in 0..dlen /\ c \in 0..dlen  BY <2>2
  <2>4. g[c] = Round(plen, dlen, g, c)  BY <2>3 DEF SolvesRounds
  <2>5. dlen - c < plen \/ g[c + plen] = Rest(plen, dlen, c + plen)
    <3> SUFFICES ASSUME ~(dlen - c < plen) PROVE g[c + plen] = Rest(plen, dlen, c + plen)
      OBVIOUS
    <3>1. m - plen \in 0..dlen /\ ~(m <= m - plen)  BY <2>3
    <3>2. m - plen \notin T  BY <2>2, <3>1
    <3>3. dlen - (m - plen) = c + plen  BY <2>3
    <3> QED  BY <3>1, <3>2, <3>3
  <2>6. Rest(plen, dlen, c) = Round(plen, dlen, g, c)  BY <2>3, <2>5, RestIsRound
  <2> QED  BY <2>2, <2>4, <2>6
<1>2. dlen - b \in 0..dlen /\ dlen - (dlen - b) = b  OBVIOUS
<1> QED  BY <1>1, <1>2

\* There is such a recursion, so that parity_to uses one.
LEMMA RoundsExist ==
    ASSUME NEW plen \in Nat \ {0}, NEW dlen \in Nat
    PROVE  \E g : SolvesRounds(plen, dlen, g)
<1> DEFINE g == [b \in 0..dlen |-> Rest(plen, dlen, b)]
<1>1. ASSUME NEW b \in 0..dlen PROVE Rest(plen, dlen, b) = Round(plen, dlen, g, b)
  <2>1. dlen - b < plen \/ b + plen \in 0..dlen  OBVIOUS
  <2>2. dlen - b < plen \/ g[b + plen] = Rest(plen, dlen, b + plen)  BY <2>1
  <2> HIDE DEF g
  <2> QED  BY <2>2, RestIsRound
<1>2. g = [b \in 0..dlen |-> Round(plen, dlen, g, b)]  BY <1>1
<1> HIDE DEF g
<1> QED  BY <1>2 DEF SolvesRounds

\* parity_to XORs unit i of the data into the unit of parity that lies i units
\* after the start, round and round.
LEMMA ParityToIs ==
    ASSUME NEW plen \in Nat \ {0}, NEW start \in Nat, NEW dlen \in Nat,
           NEW j \in 0..(plen - 1)
    PROVE  ParityTo(plen, start, dlen)[j] = {i \in 0..(dlen - 1) : (start + i) % plen = j}
<1> DEFINE first == start % plen
           head  == IF first = 0 THEN 0 ELSE Smaller(dlen, plen - first)
           g     == CHOOSE h : SolvesRounds(plen, dlen, h)
<1>1. ParityTo(plen, start, dlen) =
        [k \in 0..(plen - 1) |->
           (IF k - first \in 0..(head - 1) THEN {k - first} ELSE {}) \cup g[head][k]]
  BY DEF ParityTo, SolvesRounds, Round, Into
<1>2. SolvesRounds(plen, dlen, g)  BY RoundsExist
<1>3. first \in 0..(plen - 1)  BY DivMod
<1>4. \A i \in Nat : (first + i) % plen = (start + i) % plen  BY ModPlus
<1> HIDE DEF g, first
<1>5. head \in 0..dlen /\ (first = 0 => head = 0)
      /\ (first # 0 => head <= plen - first /\ (head = dlen \/ head = plen - first))
  BY <1>3 DEF Smaller
<1> HIDE DEF head
<1>6. g[head][j] = {i \in head..(dlen - 1) : (i - head) % plen = j}
  <2>1. g[head] = Rest(plen, dlen, head)  BY <1>2, <1>5, RoundsAre
  <2> QED  BY <2>1 DEF Rest
<1>7. \A i \in 0..(head - 1) : (first + i) % plen = first + i
  <2>1. \A i \in 0..(head - 1) : first + i \in 0..(plen - 1)  BY <1>3, <1>5
  <2> QED  BY <2>1, ModPlus
<1>8. ASSUME NEW i \in head..(dlen - 1) PROVE (i - head) % plen = (first + i) % plen
  <2>1. i - head \in Nat /\ i \in Nat /\ dlen # head  BY <1>5
  <2>2. CASE first = 0  BY <1>5, <2>1, <2>2
  <2>3. CASE first # 0
    <3>1. head = plen - first  BY <1>5, <2>1, <2>3
    <3>2. first + i = (i - head) + plen  BY <1>3, <2>1, <3>1
    <3> QED  BY <2>1, <3>2, ModPlus
  <2> QED  BY <2>2, <2>3
<1>9. {i \in 0..(dlen - 1) : (first + i) % plen = j} =
        {i \in 0..(head - 1) : (first + i) % plen = j}
          \cup {i \in head..(dlen - 1) : (first + i) % plen = j}
  BY <1>5
<1>10. {i \in head..(dlen - 1) : (first + i) % plen = j} = g[head][j]  BY <1>6, <1>8
<1>11. {i \in 0..(head - 1) : (first + i) % plen = j} =
         IF j - first \in 0..(head - 1) THEN {j - first} ELSE {}
  <2>1. {i \in 0..(head - 1) : (first + i) % plen = j} = {i \in 0..(head - 1) : first + i = j}
    BY <1>7
  <2>2. ASSUME j - first \in 0..(head - 1)
        PROVE  {i \in 0..(head - 1) : first + i = j} = {j - first}
    BY <1>3, <1>5, <2>2
  <2>3. ASSUME j - first \notin 0..(head - 1)
        PROVE  {i \in 0..(head - 1) : first + i = j} = {}
    BY <1>3, <1>5, <2>3
  <2> QED  BY <2>1, <2>2, <2>3
<1>12. {i \in 0..(dlen - 1) : (start + i) % plen = j} =
         {i \in 0..(dlen - 1) : (first + i) % plen = j}
  <2>1. \A i \in 0..(dlen - 1) : (start + i) % plen = (first + i) % plen  BY <1>4
  <2> QED  BY <2>1
<1> QED  BY <1>1, <1>9, <1>10, <1>11, <1>12

-----------------------------------------------------------------------------
(* The layout *)

\* What a request may be
LEMMA RequestTypes ==
    ASSUME req \in Requests
    PROVE  /\ req.n \in Nat /\ req.n >= 3
           /\ req.sz \in Nat \ {0} /\ req.len \in Nat \ {0} /\ req.off \in Nat
           /\ req.level \in Levels /\ req.level \in {"raid0", "raid1", "raid4", "raid5"}
           /\ req.kind \in {"read", "write"}
           /\ req.off <= MaxOffset /\ req.len <= MaxLength
           /\ req.n \in Devices /\ req.sz \in StripSizes
           /\ DataNr \in Nat \ {0} /\ req.n - 1 <= DataNr /\ DataNr <= req.n
           /\ (req.level # "raid0" => DataNr = req.n - 1)
           /\ (req.level = "raid0" => DataNr = req.n)
<1>1. /\ req.level \in Levels /\ req.n \in Devices /\ req.sz \in StripSizes
      /\ req.kind \in {"read", "write"} /\ req.off \in 0..MaxOffset
      /\ req.len \in 1..MaxLength
  BY DEF Requests
<1>2. req.level \in {"raid0", "raid1", "raid4", "raid5"}  BY <1>1, LevelsAssumption
<1>3. req.n \in Nat /\ req.n >= 3
  <2>1. req.n \in Nat \ (0..2)  BY <1>1, DevicesAssumption
  <2> QED  BY <2>1
<1>4. req.sz \in Nat \ {0}  BY <1>1, SizesAssumption
<1>5. /\ req.len \in Nat \ {0} /\ req.off \in Nat
      /\ req.off <= MaxOffset /\ req.len <= MaxLength
  BY <1>1, SizesAssumption
<1>6. /\ DataNr \in Nat \ {0} /\ req.n - 1 <= DataNr /\ DataNr <= req.n
      /\ (req.level # "raid0" => DataNr = req.n - 1)
      /\ (req.level = "raid0" => DataNr = req.n)
  BY <1>3 DEF DataNr
<1> QED  BY <1>1, <1>2, <1>3, <1>4, <1>5, <1>6

\* A stripe without its parity holds at least a strip.
LEMMA StripeHolds ==
    ASSUME req \in Requests
    PROVE  StripeDataSz \in Nat \ {0} /\ StripeDataSz = (req.n - 1) * req.sz
<1>1. req.n - 1 \in Nat \ {0} /\ req.sz \in Nat \ {0}  BY RequestTypes
<1>2. (req.n - 1) * req.sz >= 1
  <2> DEFINE m == req.n - 1
             z == req.sz
  <2>1. m \in Nat \ {0} /\ z \in Nat \ {0}  BY <1>1
  <2> HIDE DEF m, z
  <2>2. m * z \in Nat /\ z <= m * z  BY <2>1, Multiple
  <2>3. m * z >= 1  BY <2>1, <2>2
  <2> QED  BY <2>3 DEF m, z
<1>3. (req.n - 1) * req.sz \in Nat /\ (req.n - 1) * req.sz = req.sz * (req.n - 1)  BY <1>1
<1> QED  BY <1>2, <1>3 DEF StripeDataSz

\* The device with the parity is the one the layout promises: in RAID5 the one
\* that turns with the stripe.
LEMMA ParityIdIs ==
    ASSUME req \in Requests, NEW s \in Nat
    PROVE  /\ req.level \in SP =>
                 ParityId(s) \in 0..(req.n - 1) /\ ParityId(s) = ParityDevice(req.level, req.n, s)
           /\ req.level \notin SP => ParityDevice(req.level, req.n, s) = req.n
<1>1. req.n \in Nat /\ req.n >= 3
      /\ req.level \in {"raid0", "raid1", "raid4", "raid5"}
  BY RequestTypes
<1>2. CASE req.level \notin SP  BY <1>1, <1>2 DEF SP, ParityDevice
<1>3. CASE req.level = "raid4"
  BY <1>1, <1>3 DEF SP, ParityDevice, ParityId, ParityIdRaid4
<1>4. CASE req.level = "raid5"
  <2> DEFINE n == req.n
             q == s \div n
             r == s % n
             e == n - r - 1
             Turns(d) == (s + d + 1) % n = 0
  <2>1. n \in Nat \ {0}  BY <1>1
  <2> HIDE DEF n
  <2>2. r \in 0..(n - 1) /\ q \in Nat /\ s = q * n + r  BY <2>1, DivMod
  <2> HIDE DEF q, r
  <2>3. e \in 0..(n - 1)  BY <2>1, <2>2
  <2>4. Turns(e)
    <3>1. s + e + 1 = q * n + n /\ q * n \in Nat  BY <2>1, <2>2
    <3>2. (q + 1) * n = q * n + n  BY <2>1, <2>2
    <3>3. s + e + 1 = (q + 1) * n + 0 /\ q + 1 \in Int /\ s + e + 1 \in Nat /\ 0 \in 0..(n - 1)
      BY <2>1, <2>2, <3>1, <3>2
    <3> QED  BY <2>1, <3>3, DivIs
  <2>5. ASSUME NEW d \in 0..(n - 1), Turns(d) PROVE d = e
    <3> DEFINE p == (s + d + 1) \div n
    <3>1. p \in Nat /\ s + d + 1 = p * n + 0  BY <2>1, <2>5, DivMod
    <3> HIDE DEF p
    <3>2. p * n \in Nat /\ q * n \in Nat /\ (q + 1) * n = q * n + n  BY <2>1, <2>2, <3>1
    <3>3. p * n + (n - 1 - d) = (q + 1) * n + r  BY <2>1, <2>2, <3>1, <3>2
    <3> DEFINE f == n - 1 - d
               o == q + 1
    <3>4. p \in Int /\ o \in Int /\ f \in 0..(n - 1) /\ f = n - 1 - d
          /\ p * n + f = o * n + r /\ r \in 0..(n - 1)
      BY <2>1, <2>2, <3>1, <3>3
    <3> HIDE DEF f, o
    <3>5. f = r
      <4>1. \A a, b \in Int, x, y \in 0..(n - 1) : a * n + x = b * n + y => x = y
        BY <2>1, DivUnique
      <4> QED  BY <3>4, <4>1
    <3> QED  BY <2>1, <2>2, <3>4, <3>5
  <2> HIDE DEF e
  <2>6. (CHOOSE d \in 0..(n - 1) : Turns(d)) = e  BY <2>3, <2>4, <2>5
  <2>7. ParityDevice("raid5", n, s) = CHOOSE d \in 0..(n - 1) : Turns(d)  BY DEF ParityDevice
  <2>8. ParityId(s) = e  BY <1>4 DEF ParityId, ParityIdRaid5, e, r, n
  <2> QED  BY <1>4, <2>3, <2>6, <2>7, <2>8 DEF n, SP
<1> QED  BY <1>1, <1>2, <1>3, <1>4 DEF SP

\* The device of data strip d where device skip has none
Dev(d, skip) == IF d < skip THEN d ELSE d + 1

\* Unit x of data strip d of stripe s: where it lies, and its address
LEMMA Located ==
    ASSUME req \in Requests, req.level # "raid1",
           NEW s \in Nat, NEW d \in 0..(DataNr - 1), NEW x \in 0..(req.sz - 1)
    PROVE  LET skip == ParityDevice(req.level, req.n, s)
               off  == s * req.sz + x
           IN  /\ off \in Nat /\ off \div req.sz = s /\ off % req.sz = x
               /\ Skipped(off) = skip
               /\ Dev(d, skip) \in 0..(req.n - 1) /\ Dev(d, skip) # skip
               /\ Address(Dev(d, skip), off) = (s * DataNr + d) * req.sz + x
<1> DEFINE skip == ParityDevice(req.level, req.n, s)
           off  == s * req.sz + x
<1>1. /\ req.n \in Nat /\ req.n >= 3 /\ req.sz \in Nat \ {0}
      /\ req.level \in {"raid0", "raid1", "raid4", "raid5"}
      /\ DataNr \in Nat \ {0}
      /\ (req.level # "raid0" => DataNr = req.n - 1)
      /\ (req.level = "raid0" => DataNr = req.n)
  BY RequestTypes
<1>2. s * req.sz \in Nat  BY <1>1
<1>3. off \in Nat /\ s \in Int  BY <1>1, <1>2
<1>4. off \div req.sz = s /\ off % req.sz = x  BY <1>1, <1>3, DivIs
<1>5. Skipped(off) = skip  BY <1>4 DEF Skipped
<1>6. skip \in 0..req.n /\ (req.level = "raid0" => skip = req.n)
      /\ (req.level # "raid0" => skip < req.n)
  BY <1>1, ParityIdIs DEF SP
<1> HIDE DEF skip, off
<1>7. Dev(d, skip) \in 0..(req.n - 1) /\ Dev(d, skip) # skip  BY <1>1, <1>6 DEF Dev
<1>8. (IF Dev(d, skip) < skip THEN Dev(d, skip) ELSE Dev(d, skip) - 1) = d
  BY <1>1, <1>6 DEF Dev
<1>9. Address(Dev(d, skip), off) = (s * DataNr + d) * req.sz + x
  BY <1>4, <1>5, <1>8 DEF Address
<1> QED  BY <1>3, <1>4, <1>5, <1>7, <1>9 DEF skip, off

\* The devices a part lies on
LEMMA DataViewIs ==
    ASSUME NEW n \in Nat, NEW skip \in 0..(n - 1), NEW first \in Nat, NEW nr \in Nat,
           first + nr <= n - 1
    PROVE  /\ DataView(skip, first, nr) \in Seq(0..(n - 1))
           /\ Len(DataView(skip, first, nr)) = nr
           /\ DataView(skip, first, nr) = <<>> <=> nr = 0
<1> DEFINE v == DataView(skip, first, nr)
           e(i) == IF first + i - 1 < skip THEN first + i - 1 ELSE first + i
<1>1. v = [i \in 1..nr |-> e(i)]  BY DEF DataView
<1>2. \A i \in 1..nr : e(i) \in 0..(n - 1)  OBVIOUS
<1> HIDE DEF e
<1>3. v \in Seq(0..(n - 1)) /\ Len(v) = nr  BY <1>1, <1>2
<1>4. v = <<>> <=> nr = 0  BY <1>3
<1> HIDE DEF v
<1> QED  BY <1>3, <1>4 DEF v

\* The first of them, and those that are left
LEMMA DataViewNext ==
    ASSUME NEW n \in Nat, NEW skip \in 0..(n - 1), NEW first \in Nat, NEW nr \in Nat \ {0},
           first + nr <= n - 1
    PROVE  /\ Head(DataView(skip, first, nr)) = Dev(first, skip)
           /\ Tail(DataView(skip, first, nr)) = DataView(skip, first + 1, nr - 1)
<1> DEFINE v == DataView(skip, first, nr)
           f == first + 1
           m == nr - 1
           t == DataView(skip, f, m)
<1>1. /\ v \in Seq(0..(n - 1)) /\ Len(v) = nr /\ v # <<>>
      /\ \A i \in 1..nr : v[i] = Dev(first + i - 1, skip)
  <2>1. nr \in Nat /\ nr # 0  OBVIOUS
  <2>2. v \in Seq(0..(n - 1)) /\ Len(v) = nr  BY <2>1, DataViewIs
  <2>3. v # <<>>  BY <2>1, <2>2
  <2>4. \A i \in 1..nr : v[i] = Dev(first + i - 1, skip)  BY DEF DataView, Dev
  <2> QED  BY <2>1, <2>2, <2>3, <2>4
<1>2. f \in Nat /\ m \in Nat /\ f + m <= n - 1  OBVIOUS
<1>3. /\ t \in Seq(0..(n - 1)) /\ Len(t) = m
      /\ \A i \in 1..m : t[i] = Dev(f + i - 1, skip)
  <2> HIDE DEF f, m
  <2>1. t \in Seq(0..(n - 1)) /\ Len(t) = m  BY <1>2, DataViewIs
  <2>2. \A i \in 1..m : t[i] = Dev(f + i - 1, skip)  BY <1>2 DEF DataView, Dev
  <2> QED  BY <2>1, <2>2
<1> HIDE DEF v, t
<1>4. Head(v) = Dev(first, skip)
  <2>1. Head(v) = v[1] /\ 1 \in 1..nr /\ first + 1 - 1 = first  BY <1>1
  <2> QED  BY <1>1, <2>1
<1>5. Tail(v) = t
  <2>1. /\ Tail(v) \in Seq(0..(n - 1)) /\ Len(Tail(v)) = m
        /\ \A i \in 1..Len(Tail(v)) : Tail(v)[i] = v[i + 1]
    BY <1>1, HeadTailProperties
  <2>2. ASSUME NEW i \in 1..m PROVE Tail(v)[i] = t[i]
    <3>1. i + 1 \in 1..nr /\ first + (i + 1) - 1 = f + i - 1  OBVIOUS
    <3>2. v[i + 1] = Dev(first + (i + 1) - 1, skip)  BY <1>1, <3>1
    <3> QED  BY <1>3, <2>1, <3>1, <3>2
  <2> HIDE DEF m
  <2> QED  BY <1>3, <2>1, <2>2, SeqEqual
<1> QED  BY <1>4, <1>5 DEF v, t

\* The order of multiples is that of what is multiplied.
LEMMA LessMultiple ==
    ASSUME NEW w \in Nat, NEW p \in Int, NEW q \in Int
    PROVE  /\ p * w < q * w => p < q
           /\ p <= q => p * w <= q * w
<1>1. p * w \in Int /\ q * w \in Int  OBVIOUS
<1>2. CASE p < q
  <2>1. p * w + w <= q * w  BY <1>2, NextMultiple
  <2> QED  BY <1>1, <1>2, <2>1
<1>3. CASE q < p
  <2>1. q * w + w <= p * w  BY <1>3, NextMultiple
  <2> QED  BY <1>1, <1>3, <2>1
<1>4. CASE p = q  BY <1>1, <1>4
<1> QED  BY <1>2, <1>3, <1>4

\* A part of a stripe lies on at least one device, and on none beyond the last.
LEMMA StripNrIs ==
    ASSUME req \in Requests, NEW a \in Nat, NEW len \in Nat \ {0}, a + len <= StripeDataSz
    PROVE  /\ StripNr(a, len) \in Nat \ {0}
           /\ (a \div req.sz) + StripNr(a, len) = DivRoundUp(a + len, req.sz)
           /\ (a \div req.sz) + StripNr(a, len) <= req.n - 1
<1> DEFINE z == req.sz
           f == a \div z
           r == a % z
           e == a + len
           d == DivRoundUp(e, z)
           m == req.n - 1
<1>1. z \in Nat \ {0} /\ m \in Nat /\ e \in Nat  BY RequestTypes
<1>2. e <= m * z  BY StripeHolds
<1>3. StripNr(a, len) = d - f  BY DEF StripNr
<1> HIDE DEF z, m
<1>4. r \in 0..(z - 1) /\ f \in Nat /\ a = f * z + r  BY <1>1, DivMod
<1>5. d \in Nat /\ e <= d * z /\ (d - 1) * z < e  BY <1>1, RoundUp
<1>6. e > a  OBVIOUS
<1> HIDE DEF f, r, e, d
<1>7. f < d
  <2>1. f * z \in Int /\ d * z \in Int  BY <1>1, <1>4, <1>5
  <2>2. f * z < d * z  BY <1>1, <1>4, <1>5, <1>6, <2>1
  <2> QED  BY <1>1, <1>4, <1>5, <2>2, LessMultiple
<1>8. d - 1 < m
  <2> DEFINE c == d - 1
  <2>1. c \in Int /\ c * z \in Int /\ m * z \in Int  BY <1>1, <1>5
  <2>2. c * z < m * z  BY <1>1, <1>2, <1>5, <2>1
  <2> HIDE DEF c
  <2>3. c < m  BY <1>1, <2>1, <2>2, LessMultiple
  <2> QED  BY <2>3 DEF c
<1>9. d - f \in Nat \ {0} /\ f + (d - f) = d /\ d <= m  BY <1>1, <1>4, <1>5, <1>7, <1>8
<1> QED  BY <1>3, <1>9 DEF f, d, e, z, m

\* The next piece is not empty and no longer than either bound.
LEMMA SmallerIs ==
    ASSUME NEW a \in Nat \ {0}, NEW b \in Nat \ {0}
    PROVE  /\ Smaller(a, b) \in Nat \ {0} /\ Smaller(a, b) <= a /\ Smaller(a, b) <= b
           /\ Smaller(a, b) = a \/ Smaller(a, b) = b
BY DEF Smaller

\* What is left of an interval
LEMMA Left ==
    ASSUME NEW n \in Nat, NEW i \in 0..n, i < n
    PROVE  n - i \in Nat \ {0} /\ i \in Nat
OBVIOUS

-----------------------------------------------------------------------------
(* Steps *)

\* Nothing of the layout changes while a request is cut.
LEMMA SameRequest ==
    ASSUME req' = req
    PROVE  /\ StripeDataSz' = StripeDataSz
           /\ \A s : ParityId(s)' = ParityId(s)
           /\ \A o : InPlace(o)' <=> InPlace(o)
           /\ \A p : InStripe(p)' <=> InStripe(p)
<1>1. StripeDataSz' = StripeDataSz  BY DEF StripeDataSz
<1>2. \A s : ParityId(s)' = ParityId(s)  BY DEF ParityId, ParityIdRaid4, ParityIdRaid5
<1>3. \A o : InPlace(o)' <=> InPlace(o)  BY DEF InPlace, Address, Skipped, DataNr
<1>4. \A p : InStripe(p)' <=> InStripe(p)  BY <1>1, <1>2 DEF InStripe
<1> QED  BY <1>1, <1>2, <1>3, <1>4

\* A subquery that goes on where the last one ended
LEMMA Submit ==
    ASSUME IInv, req' = req, ~(req.level = "raid1" /\ req.kind = "write"),
           NEW o \in [dev : 0..(req.n - 1), off : Nat, from : Nat, len : Nat \ {0}],
           o.from = done, InPlace(o),
           ops' = ops \cup {o}, done' = done + o.len, done' <= req.len
    PROVE  OpsInv' /\ OnceInv' /\ done' \in 0..req.len
<1>1. req \in Requests /\ done \in Nat  BY DEF IInv, Typed
<1>2. done' \in Nat /\ done < done'  BY <1>1
<1>3. OpsInv'
  <2>1. ASSUME NEW q \in ops PROVE q.from + q.len <= done'
    <3>1. q.from \in Nat /\ q.len \in Nat /\ q.from + q.len <= done  BY DEF IInv, OpsInv
    <3> QED  BY <1>1, <1>2, <3>1
  <2>2. o.from + o.len <= done'  BY <1>1
  <2> QED  BY <2>1, <2>2, SameRequest DEF IInv, OpsInv
<1>4. OnceInv'
  <2>1. ASSUME NEW k \in 0..(done' - 1) PROVE \E q \in ops' : k \in Units(q)
    <3>1. CASE k < done
      <4>1. k \in 0..(done - 1)  BY <1>1, <3>1
      <4> QED  BY <4>1 DEF IInv, OnceInv
    <3>2. CASE ~(k < done)
      <4>1. k \in Units(o)  BY <1>1, <1>2, <3>2 DEF Units
      <4> QED  BY <4>1
    <3> QED  BY <3>1, <3>2
  <2>2. ASSUME NEW q \in ops PROVE Units(o) \cap Units(q) = {}
    <3>1. q.from \in Nat /\ q.len \in Nat /\ q.from + q.len <= done  BY DEF IInv, OpsInv
    <3> QED  BY <1>1, <3>1 DEF Units
  <2>3. \A q, p \in ops : Units(q) \cap Units(p) # {} => q = p  BY DEF IInv, OnceInv
  <2>4. \A q, p \in ops' : Units(q) \cap Units(p) # {} => q = p
    <3> SUFFICES ASSUME NEW q \in ops', NEW p \in ops', Units(q) \cap Units(p) # {}
                 PROVE  q = p
      OBVIOUS
    <3>1. Units(q) \cap Units(p) = Units(p) \cap Units(q)  OBVIOUS
    <3>2. CASE q \in ops /\ p \in ops  BY <2>3, <3>2
    <3>3. CASE q = o /\ p \in ops  BY <2>2, <3>3
    <3>4. CASE q \in ops /\ p = o  BY <2>2, <3>1, <3>4
    <3> QED  BY <3>2, <3>3, <3>4
  <2> QED  BY <2>1, <2>4 DEF OnceInv, Units
<1> QED  BY <1>1, <1>2, <1>3, <1>4

\* The devices of subqueries and parity are the target's; the rest of the types
LEMMA TypesHold ==
    ASSUME OpsInv', ParityInv', req' = req, req \in Requests,
           done' \in 0..req.len, part' \in 0..req.len, id' \in Nat,
           at' \in 0..(StripeDataSz - 1), strip_off' \in 0..(req.sz - 1),
           chunk_sz' \in 0..StripeDataSz, hs' \in Seq(0..(req.n - 1))
    PROVE  Typed'
<1>1. \A o \in ops' : o.dev \in 0..(req.n - 1) /\ o.off \in Nat /\ o.len > 0
  BY DEF OpsInv
<1>2. ASSUME NEW p \in parity' PROVE p.dev \in 0..(req.n - 1)
  <2>1. InStripe(p)  BY SameRequest DEF ParityInv
  <2>2. req.sz \in Nat \ {0}  BY RequestTypes
  <2>3. p.off \div req.sz \in Nat /\ p.dev = ParityId(p.off \div req.sz) /\ req.level \in SP
    BY <2>1, <2>2, DivMod DEF InStripe
  <2> QED  BY <2>3, ParityIdIs
<1> QED  BY <1>1, <1>2, SameRequest DEF Typed

\* RAID0: the strip after the last one
LEMMA Raid0Keeps == IInv /\ Raid0Step => IInv'
<1> SUFFICES ASSUME IInv, Raid0Step PROVE IInv'
  OBVIOUS
<1> DEFINE n    == req.n
           z    == req.sz
           s    == id \div n
           d    == id % n
           sz   == Smaller(z - strip_off, req.len - done)
           off  == strip_off + s * z
           o    == Op(d, off, done, sz)
<1>1. /\ req \in Requests /\ done \in 0..req.len /\ part \in 0..req.len /\ id \in Nat
      /\ at \in 0..(StripeDataSz - 1) /\ strip_off \in 0..(z - 1)
      /\ chunk_sz \in 0..StripeDataSz /\ hs \in Seq(0..(n - 1))
  BY DEF IInv, Typed
<1>2. /\ n \in Nat \ {0} /\ z \in Nat \ {0} /\ req.len \in Nat /\ req.off \in Nat
      /\ DataNr = n
  BY <1>1, RequestTypes DEF Raid0Step
<1>a. req.level = "raid0" /\ done < req.len  BY DEF Raid0Step, More
<1>3. /\ req.level = "raid0" /\ done < req.len
      /\ ops' = ops \cup {o} /\ done' = done + sz /\ id' = id + 1 /\ strip_off' = 0
      /\ req' = req /\ at' = at /\ part' = part /\ chunk_sz' = chunk_sz /\ hs' = hs
      /\ parity' = parity
  BY DEF Raid0Step, More
<1>4. hs = <<>> /\ id * z + strip_off = req.off + done
  BY <1>3 DEF IInv, LoopInv, More, SP
<1>5. /\ sz \in Nat \ {0} /\ sz <= z - strip_off /\ done + sz <= req.len
      /\ (done + sz < req.len => sz = z - strip_off)
  <2>1. req.len - done \in Nat \ {0} /\ done \in Nat
    <3>1. req.len \in Nat /\ done \in 0..req.len  BY <1>1, <1>2
    <3> QED  BY <1>a, <3>1, Left
  <2>2. z - strip_off \in Nat \ {0}
    <3>1. z \in Nat \ {0} /\ strip_off \in 0..(z - 1)  BY <1>1, <1>2
    <3> HIDE DEF z
    <3> QED  BY <3>1
  <2> DEFINE a == z - strip_off
             b == req.len - done
  <2>3. sz = Smaller(a, b)  OBVIOUS
  <2>4. a \in Nat \ {0} /\ b \in Nat \ {0}  BY <2>1, <2>2
  <2> HIDE DEF a, b, sz
  <2>5. sz \in Nat \ {0} /\ sz <= a /\ sz <= b /\ (sz = b \/ sz = a)
    BY <2>3, <2>4, SmallerIs
  <2> QED  BY <1>2, <2>1, <2>5 DEF a, b
<1>6. s \in Nat /\ d \in 0..(n - 1) /\ id = s * n + d  BY <1>1, <1>2, DivMod
<1>7. ParityDevice(req.level, n, s) = n /\ Dev(d, n) = d
  <2> HIDE DEF s, d
  <2>1. ParityDevice(req.level, n, s) = n  BY <1>1, <1>3, <1>6, ParityIdIs DEF SP
  <2> HIDE DEF n
  <2> QED  BY <1>2, <1>6, <2>1 DEF Dev
<1> HIDE DEF n, z, s, d, sz
<1>8. off = s * z + strip_off  BY <1>1, <1>2, <1>6
<1>9. /\ off \in Nat /\ off % z = strip_off /\ Skipped(off) = n
      /\ d \in 0..(n - 1) /\ d # n
      /\ Address(d, off) = (s * DataNr + d) * z + strip_off
  <2>1. req.level # "raid1" /\ d \in 0..(DataNr - 1) /\ strip_off \in 0..(req.sz - 1)
    BY <1>1, <1>2, <1>3, <1>6 DEF z
  <2> HIDE DEF off
  <2>2. LET skip == ParityDevice(req.level, req.n, s)
            f    == s * req.sz + strip_off
        IN  /\ f \in Nat /\ f % req.sz = strip_off /\ Skipped(f) = skip
            /\ Dev(d, skip) \in 0..(req.n - 1) /\ Dev(d, skip) # skip
            /\ Address(Dev(d, skip), f) = (s * DataNr + d) * req.sz + strip_off
    BY <1>1, <1>6, <2>1, Located
  <2> QED  BY <1>7, <1>8, <2>2 DEF n, z
<1>10. Address(d, off) = req.off + done  BY <1>2, <1>4, <1>6, <1>9
<1> HIDE DEF off
<1>11. /\ o.dev = d /\ o.off = off /\ o.from = done /\ o.len = sz
       /\ o \in [dev : 0..(req.n - 1), off : Nat, from : Nat, len : Nat \ {0}]
  BY <1>1, <1>2, <1>5, <1>9 DEF Op, n
<1>12. InPlace(o)
  <2>1. strip_off + sz <= z  BY <1>1, <1>2, <1>5
  <2> QED  BY <1>3, <1>9, <1>10, <1>11, <2>1 DEF InPlace, z
<1> HIDE DEF o
<1>13. OpsInv' /\ OnceInv' /\ done' \in 0..req.len
  BY <1>3, <1>5, <1>11, <1>12, Submit
<1>14. ParityInv'
  BY <1>3, <1>4, SameRequest DEF IInv, ParityInv, SP
<1>15. Typed'
  <2>1. id' \in Nat /\ strip_off' \in 0..(z - 1)  BY <1>1, <1>2, <1>3
  <2> QED  BY <1>1, <1>3, <1>13, <1>14, <2>1, TypesHold DEF n, z
<1>16. LoopInv'
  <2>1. ASSUME done' < req.len PROVE id' * z + strip_off' = req.off + done'
    <3>1. done' = done + (z - strip_off)  BY <1>3, <1>5, <2>1
    <3>2. (id + 1) * z + 0 = id * z + z /\ id * z \in Int  BY <1>1, <1>2
    <3> DEFINE f == id * z
    <3>3. id' * z + strip_off' = f + z /\ f \in Int  BY <1>3, <3>2
    <3>4. f + strip_off = req.off + done  BY <1>4
    <3>5. z \in Nat /\ strip_off \in Nat /\ done \in Nat /\ req.off \in Nat  BY <1>1, <1>2
    <3> HIDE DEF f
    <3>6. f + z = req.off + (done + (z - strip_off))  BY <3>3, <3>4, <3>5
    <3> QED  BY <3>1, <3>3, <3>6
  <2> QED  BY <1>3, <1>4, <2>1 DEF IInv, LoopInv, More, SP, z
<1> QED  BY <1>13, <1>14, <1>15, <1>16 DEF IInv

\* RAID1: the next read goes to the next device.
LEMMA Raid1ReadKeeps == IInv /\ Raid1Read => IInv'
<1> SUFFICES ASSUME IInv, Raid1Read PROVE IInv'
  OBVIOUS
<1> DEFINE sz == Smaller(req.sz, req.len - done)
           o  == Op(id, req.off + done, done, sz)
<1>1. /\ req \in Requests /\ done \in 0..req.len /\ part \in 0..req.len /\ id \in Nat
      /\ at \in 0..(StripeDataSz - 1) /\ strip_off \in 0..(req.sz - 1)
      /\ chunk_sz \in 0..StripeDataSz /\ hs \in Seq(0..(req.n - 1))
  BY DEF IInv, Typed
<1>2. /\ req.n \in Nat \ {0} /\ req.sz \in Nat \ {0} /\ req.len \in Nat /\ req.off \in Nat
  BY <1>1, RequestTypes
<1>a. done < req.len  BY DEF Raid1Read, More
<1>3. /\ req.level = "raid1" /\ req.kind = "read" /\ done < req.len
      /\ ops' = ops \cup {o} /\ done' = done + sz /\ id' = (id + 1) % req.n
      /\ req' = req /\ at' = at /\ part' = part /\ chunk_sz' = chunk_sz /\ hs' = hs
      /\ strip_off' = strip_off /\ parity' = parity
  BY DEF Raid1Read, More
<1>4. hs = <<>> /\ id < req.n  BY <1>3 DEF IInv, LoopInv, SP
<1>5. sz \in Nat \ {0} /\ done + sz <= req.len
  <2>1. req.len - done \in Nat \ {0} /\ done \in Nat  BY <1>1, <1>2, <1>a, Left
  <2> DEFINE b == req.len - done
  <2>2. sz = Smaller(req.sz, b)  OBVIOUS
  <2>3. b \in Nat \ {0}  BY <2>1
  <2> HIDE DEF b, sz
  <2>4. sz \in Nat \ {0} /\ sz <= b  BY <1>2, <2>2, <2>3, SmallerIs
  <2> QED  BY <1>2, <2>1, <2>4 DEF b
<1> HIDE DEF sz
<1>6. /\ o.off = req.off + done /\ o.from = done /\ o.len = sz
      /\ o \in [dev : 0..(req.n - 1), off : Nat, from : Nat, len : Nat \ {0}]
  <2>1. req.n \in Nat /\ id \in Nat /\ id < req.n  BY <1>1, <1>2, <1>4
  <2>2. id \in 0..(req.n - 1)  BY <2>1
  <2>3. req.len \in Nat /\ done \in 0..req.len /\ req.off \in Nat  BY <1>1, <1>2
  <2>4. done \in Nat /\ req.off + done \in Nat  BY <2>3
  <2> QED  BY <1>5, <2>2, <2>4 DEF Op
<1>7. InPlace(o)  BY <1>3, <1>6 DEF InPlace
<1> HIDE DEF o
<1>8. OpsInv' /\ OnceInv' /\ done' \in 0..req.len
  BY <1>3, <1>5, <1>6, <1>7, Submit
<1>9. ParityInv'  BY <1>3, <1>4, SameRequest DEF IInv, ParityInv, SP
<1>10. id' \in 0..(req.n - 1)
  <2>1. id + 1 \in Nat  BY <1>1
  <2> QED  BY <1>2, <1>3, <2>1, DivMod
<1>11. Typed'  BY <1>1, <1>2, <1>3, <1>8, <1>9, <1>10, TypesHold
<1>12. LoopInv'  BY <1>2, <1>3, <1>4, <1>10 DEF IInv, LoopInv, SP
<1> QED  BY <1>8, <1>9, <1>11, <1>12 DEF IInv

\* RAID1: every device gets the whole write.
LEMMA Raid1WriteKeeps == IInv /\ Raid1Write => IInv'
<1> SUFFICES ASSUME IInv, Raid1Write PROVE IInv'
  OBVIOUS
<1>1. /\ req \in Requests /\ done \in 0..req.len /\ part \in 0..req.len /\ id \in Nat
      /\ at \in 0..(StripeDataSz - 1) /\ strip_off \in 0..(req.sz - 1)
      /\ chunk_sz \in 0..StripeDataSz /\ hs \in Seq(0..(req.n - 1))
  BY DEF IInv, Typed
<1>2. /\ req.n \in Nat /\ req.n >= 3 /\ req.len \in Nat \ {0} /\ req.off \in Nat
  BY <1>1, RequestTypes
<1>3. /\ req.level = "raid1" /\ req.kind = "write" /\ done' = req.len
      /\ ops' = {Op(h, req.off, 0, req.len) : h \in 0..(req.n - 1)}
      /\ req' = req /\ at' = at /\ part' = part /\ chunk_sz' = chunk_sz /\ hs' = hs
      /\ strip_off' = strip_off /\ parity' = parity /\ id' = id
  BY DEF Raid1Write
<1>4. hs = <<>>  BY <1>3 DEF IInv, LoopInv, SP
<1>5. OpsInv'
  <2>1. ASSUME NEW h \in 0..(req.n - 1)
        PROVE  LET o == Op(h, req.off, 0, req.len)
               IN  /\ o \in [dev : 0..(req.n - 1), off : Nat, from : Nat, len : Nat \ {0}]
                   /\ o.from + o.len <= done' /\ InPlace(o)
    BY <1>2, <1>3 DEF Op, InPlace
  <2> QED  BY <1>3, <2>1, SameRequest DEF OpsInv
<1>6. OnceInv'
  <2>1. 0 \in 0..(req.n - 1)  BY <1>2
  <2> DEFINE o == Op(0, req.off, 0, req.len)
  <2>2. o \in ops'  BY <1>3, <2>1
  <2>3. \A k \in 0..(req.len - 1) : k \in Units(o)  BY <1>2 DEF Units, Op
  <2> HIDE DEF o
  <2>4. \A k \in 0..(done' - 1) : \E q \in ops' : k \in Units(q)  BY <1>3, <2>2, <2>3
  <2>5. ops' = {Op(h, req'.off, 0, req'.len) : h \in 0..(req'.n - 1)} /\ done' = req'.len
    BY <1>3
  <2>6. req'.level = "raid1" /\ req'.kind = "write"  BY <1>3
  <2> QED  BY <2>4, <2>5, <2>6 DEF OnceInv, Units, Op
<1>7. ParityInv'  BY <1>3, <1>4, SameRequest DEF IInv, ParityInv, SP
<1>8. Typed'  BY <1>1, <1>2, <1>3, <1>5, <1>7, TypesHold
<1>9. LoopInv'  BY <1>3, <1>4 DEF IInv, LoopInv, SP
<1> QED  BY <1>5, <1>6, <1>7, <1>8, <1>9 DEF IInv

\* RAID4 and RAID5: the part of the request in the next stripe
LEMMA StripeBeginKeeps == IInv /\ StripeBegin => IInv'
<1> SUFFICES ASSUME IInv, StripeBegin PROVE IInv'
  OBVIOUS
<1> DEFINE sz    == Smaller(StripeDataSz - at, req.len - done)
           first == at \div req.sz
           nr    == StripNr(at, sz)
<1>1. /\ req \in Requests /\ done \in 0..req.len /\ id \in Nat
      /\ at \in 0..(StripeDataSz - 1)
  BY DEF IInv, Typed
<1>2. /\ req.n \in Nat /\ req.n >= 3 /\ req.sz \in Nat \ {0}
      /\ req.len \in Nat \ {0} /\ req.off \in Nat
      /\ StripeDataSz \in Nat \ {0}
  BY <1>1, RequestTypes, StripeHolds
<1>a. done < req.len  BY DEF StripeBegin, More
<1>3. /\ req.level \in SP /\ hs = <<>>
      /\ chunk_sz' = sz /\ part' = done /\ strip_off' = at % req.sz
      /\ hs' = DataView(ParityId(id), first, nr)
      /\ req' = req /\ done' = done /\ id' = id /\ at' = at /\ ops' = ops /\ parity' = parity
  BY DEF StripeBegin
<1>4. id * StripeDataSz + at = req.off + done  BY <1>a, <1>3 DEF IInv, LoopInv, More
<1>5. /\ sz \in Nat \ {0} /\ at \in Nat /\ at + sz <= StripeDataSz /\ done + sz <= req.len
      /\ at + sz = StripeDataSz \/ done + sz = req.len
  <2> DEFINE a == StripeDataSz - at
             b == req.len - done
  <2>1. b \in Nat \ {0} /\ done \in Nat  BY <1>1, <1>2, <1>a, Left
  <2>2. a \in Nat \ {0} /\ at \in Nat  BY <1>1, <1>2
  <2>3. sz = Smaller(a, b)  OBVIOUS
  <2> HIDE DEF a, b, sz
  <2>4. sz \in Nat \ {0} /\ sz <= a /\ sz <= b /\ (sz = b \/ sz = a)
    BY <2>1, <2>2, <2>3, SmallerIs
  <2> QED  BY <1>2, <2>1, <2>2, <2>4 DEF a, b
<1> HIDE DEF sz
<1>6. nr \in Nat \ {0} /\ first + nr <= req.n - 1  BY <1>1, <1>5, StripNrIs
<1>7. first \in Nat /\ at % req.sz \in 0..(req.sz - 1)  BY <1>2, <1>5, DivMod
<1> HIDE DEF first, nr
<1>8. ParityId(id) \in 0..(req.n - 1)  BY <1>1, <1>3, ParityIdIs
<1>9. hs' \in Seq(0..(req.n - 1)) /\ Len(hs') = nr /\ hs' # <<>>
  BY <1>2, <1>3, <1>6, <1>7, <1>8, DataViewIs
<1>10. OpsInv'  BY <1>3, SameRequest DEF IInv, OpsInv
<1>11. OnceInv'  BY <1>3 DEF IInv, OnceInv, Units
<1>12. ParityInv'
  <2>1. \A p \in parity' : InStripe(p)'  BY <1>3, SameRequest DEF IInv, ParityInv
  <2>2. req.kind = "write" =>
          \A k \in 0..(done - 1) : \E p \in parity : k \in p.from..(p.from + p.len - 1)
    BY <1>3 DEF IInv, ParityInv
  <2> QED  BY <1>3, <1>9, <2>1, <2>2 DEF ParityInv
<1>13. Typed'
  <2>1. chunk_sz' \in 0..StripeDataSz  BY <1>2, <1>3, <1>5
  <2> QED  BY <1>1, <1>3, <1>7, <1>9, <1>10, <1>12, <2>1, TypesHold
<1>14. LoopInv'
  <2>1. at' + done' - part' = at  BY <1>1, <1>2, <1>3, <1>5
  <2>2. chunk_sz' > 0 /\ part' <= done'  BY <1>1, <1>2, <1>3, <1>5
  <2>4. id' * StripeDataSz' + at' = req'.off + part'  BY <1>3, <1>4, SameRequest
  <2> DEFINE in == at' + done' - part'
  <2>5. in = at  BY <2>1
  <2>6. StripNr(at, chunk_sz)' = nr  BY <1>3 DEF nr, StripNr
  <2>7. hs' = DataView(ParityId(id)', at' \div req'.sz, StripNr(at, chunk_sz)')
    BY <1>3, <2>6, SameRequest DEF first
  <2>8. req'.level \in SP /\ at' + chunk_sz' <= StripeDataSz' /\ done' + chunk_sz' <= req'.len
        /\ (at' + chunk_sz' = StripeDataSz' \/ done' + chunk_sz' = req'.len)
        /\ strip_off' = at' % req'.sz
    BY <1>3, <1>5, SameRequest
  <2>9. req'.level # "raid0" /\ req'.level # "raid1"  BY <1>3 DEF SP
  <2> QED  BY <1>3, <1>9, <2>1, <2>2, <2>4, <2>7, <2>8, <2>9 DEF LoopInv
<1> QED  BY <1>10, <1>11, <1>12, <1>13, <1>14 DEF IInv

\* What is left of a part ends in this strip, or goes on at the beginning of the
\* next one.
LEMMA NextStrip ==
    ASSUME req \in Requests, NEW in \in Nat, NEW chunk \in Nat \ {0},
           in + chunk <= StripeDataSz
    PROVE  LET z     == req.sz
               sz    == Smaller(z - (in % z), chunk)
               nr    == StripNr(in, chunk)
               first == in \div z
           IN  /\ sz \in Nat \ {0} /\ sz <= chunk /\ (in % z) + sz <= z
               /\ nr = 1 => sz = chunk
               /\ nr # 1 => /\ chunk - sz \in Nat \ {0}
                            /\ (in + sz) % z = 0 /\ (in + sz) \div z = first + 1
                            /\ StripNr(in + sz, chunk - sz) = nr - 1
<1> DEFINE z     == req.sz
           r     == in % z
           first == in \div z
           rest  == z - r
           sz    == Smaller(rest, chunk)
           nr    == StripNr(in, chunk)
           e     == in + chunk
           d     == DivRoundUp(e, z)
<1>1. z \in Nat \ {0}  BY RequestTypes
<1>2. nr \in Nat \ {0} /\ nr = d - first  BY StripNrIs DEF StripNr
<1>3. e \in Nat /\ e = in + chunk  OBVIOUS
<1> HIDE DEF z, nr, e
<1>4. r \in 0..(z - 1) /\ first \in Nat /\ in = first * z + r  BY <1>1, DivMod
<1>5. d \in Nat /\ e <= d * z /\ (d - 1) * z < e  BY <1>1, <1>3, RoundUp
<1> HIDE DEF r, first, d
<1>6. rest \in Nat \ {0} /\ rest = z - r  BY <1>1, <1>4
<1> HIDE DEF rest
<1>7. sz \in Nat \ {0} /\ sz <= chunk /\ sz <= rest /\ (sz = rest \/ sz = chunk)
  BY <1>6, SmallerIs
<1> HIDE DEF sz
<1>8. r + sz <= z  BY <1>1, <1>4, <1>6, <1>7
<1>9. first * z \in Nat /\ (first + 1) * z = first * z + z  BY <1>1, <1>4
<1>10. ASSUME nr = 1 PROVE sz = chunk
  <2>1. d = first + 1  BY <1>2, <1>4, <1>5, <1>10
  <2>2. e <= first * z + z  BY <1>5, <1>9, <2>1
  <2>3. chunk <= rest  BY <1>1, <1>3, <1>4, <1>6, <1>9, <2>2
  <2> QED  BY <1>6, <1>7, <2>3
<1>11. ASSUME nr # 1
       PROVE  /\ chunk - sz \in Nat \ {0}
              /\ (in + sz) % z = 0 /\ (in + sz) \div z = first + 1
              /\ DivRoundUp((in + sz) + (chunk - sz), z) - ((in + sz) \div z) = nr - 1
  <2> DEFINE c == d - 1
             f == first + 1
  <2>1. c \in Int /\ f \in Int /\ f <= c  BY <1>2, <1>4, <1>5, <1>11
  <2>2. c * z < e /\ f * z = first * z + z  BY <1>5, <1>9
  <2> HIDE DEF c, f
  <2>3. f * z <= c * z /\ c * z \in Int /\ f * z \in Int  BY <1>1, <2>1, LessMultiple
  <2>4. first * z + z < e  BY <1>3, <2>2, <2>3
  <2>5. rest < chunk  BY <1>1, <1>3, <1>4, <1>6, <1>9, <2>4
  <2>6. sz = rest  BY <1>6, <1>7, <2>5
  <2>7. chunk - sz \in Nat \ {0}  BY <1>6, <2>5, <2>6
  <2>8. in + sz = f * z + 0 /\ in + sz \in Nat /\ 0 \in 0..(z - 1)
    BY <1>1, <1>4, <1>6, <1>9, <2>2, <2>6
  <2>9. (in + sz) % z = 0 /\ (in + sz) \div z = f  BY <1>1, <2>1, <2>8, DivIs
  <2>10. (in + sz) + (chunk - sz) = e  BY <1>3, <1>7
  <2>11. d - f = nr - 1  BY <1>2, <1>4, <1>5 DEF f
  <2> QED  BY <2>7, <2>9, <2>10, <2>11 DEF d, f
<1> QED  BY <1>7, <1>8, <1>10, <1>11 DEF z, r, rest, sz, nr, first, StripNr

\* Where the loop over the strips of a part is
Inside == at + done - part

\* What LoopInv says there
LEMMA InsideIs ==
    ASSUME IInv, hs # <<>>
    PROVE  /\ req \in Requests /\ req.level \in SP
           /\ req.n \in Nat /\ req.n >= 3 /\ req.sz \in Nat \ {0} /\ req.len \in Nat \ {0}
           /\ req.off \in Nat /\ StripeDataSz \in Nat \ {0}
           /\ id \in Nat /\ at \in Nat /\ at < StripeDataSz
           /\ part \in Nat /\ done \in Nat /\ part <= done /\ done <= req.len
           /\ Inside \in Nat /\ Inside = at + done - part
           /\ chunk_sz \in Nat \ {0} /\ done + chunk_sz <= req.len
           /\ Inside + chunk_sz <= StripeDataSz
           /\ (Inside + chunk_sz = StripeDataSz \/ done + chunk_sz = req.len)
           /\ strip_off = Inside % req.sz
           /\ id * StripeDataSz + at = req.off + part
           /\ hs = DataView(ParityId(id), Inside \div req.sz, StripNr(Inside, chunk_sz))
<1>1. /\ req \in Requests /\ done \in 0..req.len /\ part \in 0..req.len /\ id \in Nat
      /\ at \in 0..(StripeDataSz - 1) /\ chunk_sz \in 0..StripeDataSz
  BY DEF IInv, Typed
<1>2. /\ req.n \in Nat /\ req.n >= 3 /\ req.sz \in Nat \ {0} /\ req.len \in Nat \ {0}
      /\ req.off \in Nat /\ StripeDataSz \in Nat \ {0}
  BY <1>1, RequestTypes, StripeHolds
<1>3. /\ req.level \in SP /\ part <= done
      /\ chunk_sz > 0 /\ done + chunk_sz <= req.len
      /\ Inside + chunk_sz <= StripeDataSz
      /\ (Inside + chunk_sz = StripeDataSz \/ done + chunk_sz = req.len)
      /\ strip_off = Inside % req.sz
      /\ id * StripeDataSz + at = req.off + part
      /\ hs = DataView(ParityId(id), Inside \div req.sz, StripNr(Inside, chunk_sz))
  BY DEF IInv, LoopInv, Inside
<1>4. /\ at \in Nat /\ at < StripeDataSz /\ part \in Nat /\ done \in Nat /\ done <= req.len
      /\ chunk_sz \in Nat \ {0}
  BY <1>1, <1>2, <1>3
<1>5. Inside \in Nat /\ Inside = at + done - part  BY <1>3, <1>4 DEF Inside
<1> QED  BY <1>1, <1>2, <1>3, <1>4, <1>5

\* The place of the next strip of a part: its device is the first that is left, its
\* address the one after what has been submitted.
LEMMA StripPlace ==
    ASSUME IInv, hs # <<>>
    PROVE  LET o == Op(Head(hs), id * req.sz + strip_off, done,
                       Smaller(req.sz - strip_off, chunk_sz))
           IN  /\ o \in [dev : 0..(req.n - 1), off : Nat, from : Nat, len : Nat \ {0}]
               /\ InPlace(o)
<1> DEFINE z     == req.sz
           first == Inside \div z
           nr    == StripNr(Inside, chunk_sz)
           sz    == Smaller(z - strip_off, chunk_sz)
           off   == id * z + strip_off
           o     == Op(Head(hs), off, done, sz)
           skip  == ParityDevice(req.level, req.n, id)
           i     == Inside
<1>a. /\ req \in Requests /\ req.level \in SP /\ id \in Nat /\ req.n \in Nat /\ z \in Nat \ {0}
  BY InsideIs
<1>b. /\ i \in Nat /\ chunk_sz \in Nat \ {0} /\ i + chunk_sz <= StripeDataSz
      /\ strip_off = i % z
  BY InsideIs
<1>c. /\ req.off \in Nat /\ at \in Nat /\ part \in Nat /\ done \in Nat
      /\ i = at + done - part
      /\ id * StripeDataSz + at = req.off + part
  BY InsideIs
<1>1. hs = DataView(ParityId(id), first, nr)  BY InsideIs
<1>2. ParityId(id) = skip /\ skip \in 0..(req.n - 1)  BY <1>a, ParityIdIs
<1>3. nr \in Nat \ {0} /\ first + nr <= req.n - 1  BY <1>a, <1>b, StripNrIs
<1>4. first \in Nat /\ strip_off \in 0..(z - 1) /\ i = first * z + strip_off
  BY <1>a, <1>b, DivMod
<1>5. sz \in Nat \ {0} /\ strip_off + sz <= z
  BY <1>a, <1>b, NextStrip
<1>6. DataNr = req.n - 1 /\ req.level # "raid1" /\ req.level # "raid0"
  BY <1>a, RequestTypes DEF SP
<1> HIDE DEF first, nr, sz, i, skip
<1>7. first \in 0..(DataNr - 1)  BY <1>a, <1>3, <1>4, <1>6
<1>8. Head(hs) = Dev(first, skip)
  <2>1. nr \in Nat /\ nr > 0  BY <1>3
  <2>2. Head(DataView(skip, first, nr)) = Dev(first, skip) BY <1>a, <1>2, <1>3, <1>4, DataViewNext
  <2> QED  BY <1>1, <1>2, <2>2
<1>9. /\ off \in Nat /\ off % z = strip_off /\ Skipped(off) = skip
      /\ Dev(first, skip) \in 0..(req.n - 1) /\ Dev(first, skip) # skip
      /\ Address(Dev(first, skip), off) = (id * DataNr + first) * z + strip_off
  <2> HIDE DEF off
  <2>1. strip_off \in 0..(req.sz - 1)  BY <1>4
  <2>2. LET s == ParityDevice(req.level, req.n, id)
            f == id * req.sz + strip_off
        IN  /\ f \in Nat /\ f % req.sz = strip_off /\ Skipped(f) = s
            /\ Dev(first, s) \in 0..(req.n - 1) /\ Dev(first, s) # s
            /\ Address(Dev(first, s), f) = (id * DataNr + first) * req.sz + strip_off
    <3>1. req \in Requests /\ req.level # "raid1" /\ id \in Nat  BY <1>a, <1>6
    <3> QED  BY <1>7, <2>1, <3>1, Located
  <2> QED  BY <2>2 DEF off, skip
<1>10. (id * DataNr + first) * z + strip_off = req.off + done
  <2> DEFINE m == req.n - 1
  <2>1. m \in Nat /\ DataNr = m /\ StripeDataSz = m * z
    <3>1. req.n - 1 \in Nat  BY <1>a, <1>3, <1>4
    <3> QED  BY <1>a, <1>6, <3>1, StripeHolds
  <2> HIDE DEF m, z
  <2>2. (id * m + first) * z = id * (m * z) + first * z  BY <1>a, <1>4, <2>1
  <2>3. id * (m * z) \in Nat /\ first * z \in Nat  BY <1>a, <1>4, <2>1
  <2>4. id * (m * z) + at = req.off + part  BY <1>c, <2>1
  <2>5. strip_off \in Nat  BY <1>a, <1>4
  <2> DEFINE a == id * (m * z)
             b == first * z
  <2>6. a \in Nat /\ b \in Nat /\ a + at = req.off + part /\ i = b + strip_off
    BY <1>4, <2>3, <2>4
  <2>7. (id * DataNr + first) * z + strip_off = a + b + strip_off  BY <2>1, <2>2
  <2> HIDE DEF a, b
  <2> QED  BY <1>c, <2>5, <2>6, <2>7
<1> HIDE DEF off
<1>11. /\ o.dev = Dev(first, skip) /\ o.off = off /\ o.from = done /\ o.len = sz
       /\ o \in [dev : 0..(req.n - 1), off : Nat, from : Nat, len : Nat \ {0}]
  BY <1>c, <1>5, <1>8, <1>9 DEF Op
<1> HIDE DEF o
<1>12. InPlace(o)  BY <1>5, <1>6, <1>9, <1>10, <1>11 DEF InPlace
<1> QED  BY <1>11, <1>12 DEF o, off, sz

\* RAID4 and RAID5: the next strip of the part, and the parity after the last one
LEMMA StripStepKeeps == IInv /\ StripStep => IInv'
<1> SUFFICES ASSUME IInv, StripStep PROVE IInv'
  OBVIOUS
<1> DEFINE z     == req.sz
           sz    == Smaller(z - strip_off, chunk_sz)
           o     == Op(Head(hs), id * z + strip_off, done, sz)
           first == Inside \div z
           nr    == StripNr(Inside, chunk_sz)
           i     == Inside
           p     == ParityWrite(part, done + sz - part)
<1>a. hs # <<>>  BY DEF StripStep
<1>b. /\ req \in Requests /\ req.level \in SP /\ id \in Nat /\ req.n \in Nat
      /\ z \in Nat \ {0} /\ StripeDataSz \in Nat \ {0}
  BY <1>a, InsideIs
<1>c. /\ i \in Nat /\ chunk_sz \in Nat \ {0} /\ i + chunk_sz <= StripeDataSz
  BY <1>a, InsideIs
<1>d. /\ req.off \in Nat /\ req.len \in Nat \ {0} /\ at \in Nat /\ at < StripeDataSz
      /\ part \in Nat /\ done \in Nat /\ part <= done /\ done <= req.len
      /\ i = at + done - part /\ done + chunk_sz <= req.len
      /\ (i + chunk_sz = StripeDataSz \/ done + chunk_sz = req.len)
  BY <1>a, InsideIs
<1>e. id * StripeDataSz + at = req.off + part /\ strip_off = i % z  BY <1>a, InsideIs
<1>1. hs = DataView(ParityId(id), first, nr)  BY <1>a, InsideIs
<1>2. /\ req' = req /\ part' = part /\ strip_off' = 0
      /\ ops' = ops \cup {o} /\ done' = done + sz /\ chunk_sz' = chunk_sz - sz
      /\ hs' = Tail(hs)
      /\ at' = IF Len(hs) = 1 THEN 0 ELSE at
      /\ id' = IF Len(hs) = 1 THEN id + 1 ELSE id
      /\ parity' = IF Len(hs) = 1 /\ req.kind = "write" THEN parity \cup {p} ELSE parity
  BY DEF StripStep
<1>3. /\ sz \in Nat \ {0} /\ sz <= chunk_sz
      /\ nr = 1 => sz = chunk_sz
      /\ nr # 1 => /\ chunk_sz - sz \in Nat \ {0}
                   /\ (i + sz) % z = 0 /\ (i + sz) \div z = first + 1
                   /\ StripNr(i + sz, chunk_sz - sz) = nr - 1
  BY <1>b, <1>c, <1>e, NextStrip
<1>4. nr \in Nat \ {0} /\ first + nr <= req.n - 1  BY <1>b, <1>c, StripNrIs
<1>5. first \in Nat  BY <1>b, <1>c, DivMod
<1>6. ParityId(id) \in 0..(req.n - 1)  BY <1>b, ParityIdIs
<1>7. /\ o \in [dev : 0..(req.n - 1), off : Nat, from : Nat, len : Nat \ {0}]
      /\ InPlace(o)
  BY <1>a, StripPlace
<1> HIDE DEF sz, first, nr, i
<1>8. Len(hs) = nr /\ hs \in Seq(0..(req.n - 1)) /\ Tail(hs) = DataView(ParityId(id), first + 1, nr - 1)
  <2> DEFINE n == req.n
             k == ParityId(id)
  <2>1. nr \in Nat /\ nr \in Nat \ {0}  BY <1>4
  <2>2. n \in Nat /\ k \in 0..(n - 1) /\ first \in Nat /\ first + nr <= n - 1
    BY <1>b, <1>4, <1>5, <1>6
  <2>3. hs = DataView(k, first, nr)  BY <1>1
  <2> HIDE DEF n, k
  <2>4. DataView(k, first, nr) \in Seq(0..(n - 1)) /\ Len(DataView(k, first, nr)) = nr
    BY <2>1, <2>2, DataViewIs
  <2>5. Tail(DataView(k, first, nr)) = DataView(k, first + 1, nr - 1)
    BY <2>1, <2>2, DataViewNext
  <2> QED  BY <2>3, <2>4, <2>5 DEF n, k
<1>9. hs' \in Seq(0..(req.n - 1)) /\ (hs' = <<>> <=> nr = 1)
  <2>1. nr - 1 \in Nat /\ first + 1 \in Nat /\ (first + 1) + (nr - 1) <= req.n - 1
        /\ (nr - 1 = 0 <=> nr = 1)
    BY <1>b, <1>4, <1>5
  <2> DEFINE f == first + 1
             m == nr - 1
  <2>2. f \in Nat /\ m \in Nat /\ f + m <= req.n - 1 /\ (m = 0 <=> nr = 1)
        /\ hs' = DataView(ParityId(id), f, m)
    BY <1>2, <1>8, <2>1
  <2> HIDE DEF f, m
  <2> QED  BY <1>b, <1>6, <2>2, DataViewIs
<1>10. o.from = done /\ o.len = sz  BY DEF Op
<1>11. done' <= req.len /\ done' \in Nat /\ done' = done + sz  BY <1>c, <1>d, <1>2, <1>3
<1> HIDE DEF o, p
<1>12. OpsInv' /\ OnceInv' /\ done' \in 0..req.len
  <2>1. ~(req.level = "raid1" /\ req.kind = "write")  BY <1>b DEF SP
  <2> QED  BY <1>2, <1>7, <1>10, <1>11, <2>1, Submit
<1>13. ParityInv'
  <2>1. CASE nr = 1 /\ req.kind = "write"
    <3>1. parity' = parity \cup {p} /\ hs' = <<>>  BY <1>2, <1>8, <1>9, <2>1
    <3>2. /\ p.dev = ParityId(id) /\ p.off = id * z /\ p.from = part
          /\ p.len = done + sz - part /\ p.xor = ParityTo(z, at % z, p.len)
      BY DEF ParityWrite, p
    <3>3. p.len \in Nat \ {0} /\ at + p.len <= StripeDataSz
      <4>1. sz = chunk_sz  BY <1>3, <2>1
      <4>2. p.len = done + chunk_sz - part  BY <3>2, <4>1
      <4> QED  BY <1>b, <1>c, <1>d, <4>2
    <3>4. InStripe(p)
      <4>1. id * z \in Nat /\ id * z = id * z + 0 /\ 0 \in 0..(z - 1) /\ id \in Int  BY <1>b
      <4>2. p.off \div z = id  BY <1>b, <3>2, <4>1, DivIs
      <4>3. req.off + p.from - id * StripeDataSz = at
        <5>1. id * StripeDataSz \in Nat  BY <1>b
        <5> QED  BY <1>d, <1>e, <3>2, <5>1
      <4>4. p.off = id * req.sz /\ p.off \in Nat /\ p.from \in Nat  BY <1>d, <3>2, <4>1
      <4> QED  BY <1>b, <1>d, <3>2, <3>3, <4>2, <4>3, <4>4 DEF InStripe
    <3>5. ASSUME NEW k \in 0..(done' - 1)
          PROVE  \E q \in parity' : k \in q.from..(q.from + q.len - 1)
      <4>1. CASE k < part
        <5>1. k \in 0..(part - 1)  BY <1>d, <4>1
        <5>2. \E q \in parity : k \in q.from..(q.from + q.len - 1)
          BY <1>a, <1>b, <2>1, <5>1 DEF IInv, ParityInv
        <5> QED  BY <3>1, <5>2
      <4>2. CASE ~(k < part)
        <5>1. p.from + p.len = done'  BY <1>d, <1>3, <1>11, <3>2
        <5>2. k \in part..(done' - 1)  BY <1>d, <1>11, <4>2
        <5>3. p.from = part /\ p.len \in Nat  BY <3>2, <3>3
        <5>4. k \in p.from..(p.from + p.len - 1)  BY <1>d, <1>11, <5>1, <5>2, <5>3
        <5> QED  BY <3>1, <5>4
      <4> QED  BY <4>1, <4>2
    <3>6. \A q \in parity' : InStripe(q)'
      BY <1>2, <3>1, <3>4, SameRequest DEF IInv, ParityInv
    <3> QED  BY <3>1, <3>5, <3>6 DEF ParityInv
  <2>2. CASE ~(nr = 1 /\ req.kind = "write")
    <3>1. parity' = parity /\ (req.kind = "write" => hs' # <<>>)  BY <1>2, <1>8, <1>9, <2>2
    <3>2. \A q \in parity' : InStripe(q)'  BY <1>2, <3>1, SameRequest DEF IInv, ParityInv
    <3>3. req.kind = "write" =>
            \A k \in 0..(part - 1) : \E q \in parity : k \in q.from..(q.from + q.len - 1)
      BY <1>a, <1>b DEF IInv, ParityInv
    <3> QED  BY <1>2, <3>1, <3>2, <3>3 DEF ParityInv
  <2> QED  BY <2>1, <2>2
<1>14. Typed'
  <2>1. chunk_sz' \in 0..StripeDataSz
    <3>1. chunk_sz <= StripeDataSz  BY <1>b, <1>c
    <3> QED  BY <1>b, <1>c, <1>2, <1>3, <3>1
  <2>2. id' \in Nat /\ at' \in 0..(StripeDataSz - 1) /\ strip_off' \in 0..(z - 1)
    BY <1>b, <1>d, <1>2
  <2>3. part' \in 0..req.len  BY <1>d, <1>2
  <2> QED  BY <1>b, <1>2, <1>9, <1>12, <1>13, <2>1, <2>2, <2>3, TypesHold
<1>15. LoopInv'
  <2>1. req'.level # "raid0" /\ req'.level # "raid1"  BY <1>b, <1>2 DEF SP
  <2>2. CASE nr = 1
    <3>1. /\ hs' = <<>> /\ chunk_sz' = 0 /\ at' = 0 /\ id' = id + 1 /\ done' = done + chunk_sz
      BY <1>c, <1>2, <1>3, <1>8, <1>9, <2>2
    <3>2. ASSUME done' < req.len PROVE id' * StripeDataSz + at' = req.off + done'
      <4> DEFINE a == id * StripeDataSz
      <4>1. i + chunk_sz = StripeDataSz  BY <1>d, <3>1, <3>2
      <4>2. (id + 1) * StripeDataSz = a + StripeDataSz /\ a \in Nat /\ a + at = req.off + part
        BY <1>b, <1>e
      <4> HIDE DEF a
      <4>3. a + StripeDataSz + 0 = req.off + (done + chunk_sz)
        BY <1>b, <1>c, <1>d, <4>1, <4>2
      <4> QED  BY <3>1, <4>2, <4>3
    <3> QED  BY <1>2, <2>1, <3>1, <3>2, SameRequest DEF LoopInv, More
  <2>3. CASE nr # 1
    <3>1. hs' # <<>> /\ at' = at /\ id' = id  BY <1>2, <1>8, <1>9, <2>3
    <3>2. at' + done' - part' = i + sz  BY <1>d, <1>2, <1>3, <3>1
    <3>3. part' <= done' /\ chunk_sz' > 0 /\ done' + chunk_sz' <= req.len
          /\ (i + sz) + chunk_sz' <= StripeDataSz
          /\ ((i + sz) + chunk_sz' = StripeDataSz \/ done' + chunk_sz' = req.len)
      BY <1>b, <1>c, <1>d, <1>2, <1>3, <2>3
    <3>4. StripNr(i + sz, chunk_sz') = nr - 1 /\ (i + sz) \div z = first + 1
          /\ strip_off' = (i + sz) % z
      BY <1>2, <1>3, <2>3
    <3>5. hs' = DataView(ParityId(id), (i + sz) \div z, StripNr(i + sz, chunk_sz'))
      BY <1>2, <1>8, <3>4
    <3>6. StripNr(at + done - part, chunk_sz)' = StripNr(i + sz, chunk_sz')
      BY <1>2, <3>2 DEF StripNr
    <3>7. hs' = DataView(ParityId(id)', (at' + done' - part') \div req'.sz,
                         StripNr(at + done - part, chunk_sz)')
      <4>1. ParityId(id)' = ParityId(id)  BY <1>2, <3>1 DEF ParityId, ParityIdRaid4, ParityIdRaid5
      <4> QED  BY <1>2, <3>2, <3>5, <3>6, <4>1
    <3>8. id' * StripeDataSz' + at' = req'.off + part'  BY <1>e, <1>2, <3>1, SameRequest
    <3>9. req'.level \in SP /\ (at' + done' - part') + chunk_sz' <= StripeDataSz'
          /\ done' + chunk_sz' <= req'.len
          /\ ((at' + done' - part') + chunk_sz' = StripeDataSz' \/ done' + chunk_sz' = req'.len)
          /\ strip_off' = (at' + done' - part') % req'.sz
      BY <1>b, <1>2, <3>2, <3>3, <3>4, SameRequest
    <3> QED  BY <2>1, <3>1, <3>3, <3>7, <3>8, <3>9 DEF LoopInv
  <2> QED  BY <2>2, <2>3
<1> QED  BY <1>12, <1>13, <1>14, <1>15 DEF IInv

-----------------------------------------------------------------------------
(* The loops cover a request *)

\* A target begins a request with the strip and the stripe it starts in.
LEMMA InitIInv == Init => IInv
<1> SUFFICES ASSUME Init PROVE IInv
  OBVIOUS
<1>1. /\ req \in Requests /\ done = 0 /\ part = 0 /\ chunk_sz = 0 /\ hs = <<>>
      /\ ops = {} /\ parity = {}
      /\ at = IF req.level \in SP THEN req.off % StripeDataSz ELSE 0
      /\ strip_off = IF req.level = "raid0" THEN req.off % req.sz ELSE 0
      /\ (req.level = "raid0" => id = req.off \div req.sz)
      /\ (req.level = "raid1" => id \in 0..(req.n - 1))
      /\ (req.level # "raid0" /\ req.level # "raid1" => id = req.off \div StripeDataSz)
  BY DEF Init
<1>2. /\ req.n \in Nat /\ req.n >= 3 /\ req.sz \in Nat \ {0}
      /\ req.len \in Nat \ {0} /\ req.off \in Nat /\ StripeDataSz \in Nat \ {0}
      /\ req.level \in {"raid0", "raid1", "raid4", "raid5"}
  BY <1>1, RequestTypes, StripeHolds
<1>3. /\ req.off % req.sz \in 0..(req.sz - 1)
      /\ (req.off \div req.sz) \in Nat
      /\ req.off = (req.off \div req.sz) * req.sz + (req.off % req.sz)
  BY <1>2, DivMod
<1>4. /\ req.off % StripeDataSz \in 0..(StripeDataSz - 1)
      /\ (req.off \div StripeDataSz) \in Nat
      /\ req.off = (req.off \div StripeDataSz) * StripeDataSz + (req.off % StripeDataSz)
  BY <1>2, DivMod
<1>5. id \in Nat
  <2>1. CASE req.level = "raid0"
    <3>1. (req.off \div req.sz) \in Nat  BY <1>3
    <3>2. id = req.off \div req.sz  BY <1>1, <2>1
    <3> QED  BY <3>1, <3>2
  <2>2. CASE req.level = "raid1"
    <3>1. id \in 0..(req.n - 1)  BY <1>1, <2>2
    <3>2. req.n \in Nat  BY <1>2
    <3> QED  BY <3>1, <3>2
  <2>3. CASE req.level # "raid0" /\ req.level # "raid1"
    <3>1. (req.off \div StripeDataSz) \in Nat  BY <1>4
    <3>2. id = req.off \div StripeDataSz  BY <1>1, <2>3
    <3> QED  BY <3>1, <3>2
  <2> QED  BY <2>1, <2>2, <2>3
<1>6. at \in 0..(StripeDataSz - 1)
  <2>1. at = 0 \/ at = req.off % StripeDataSz  BY <1>1
  <2>2. req.off % StripeDataSz \in 0..(StripeDataSz - 1)  BY <1>4
  <2>3. StripeDataSz \in Nat \ {0}  BY <1>2
  <2>4. 0 \in 0..(StripeDataSz - 1)  BY <2>3
  <2> QED  BY <2>1, <2>2, <2>4
<1>7. strip_off \in 0..(req.sz - 1)
  <2>1. strip_off = 0 \/ strip_off = req.off % req.sz  BY <1>1
  <2>2. req.off % req.sz \in 0..(req.sz - 1)  BY <1>3
  <2>3. req.sz \in Nat \ {0}  BY <1>2
  <2>4. 0 \in 0..(req.sz - 1)  BY <2>3
  <2> QED  BY <2>1, <2>2, <2>4
<1>8. chunk_sz \in 0..StripeDataSz /\ done \in 0..req.len /\ part \in 0..req.len
  BY <1>1, <1>2
<1>9. Typed  BY <1>1, <1>5, <1>6, <1>7, <1>8 DEF Typed
<1>10. OpsInv /\ OnceInv  BY <1>1 DEF OpsInv, OnceInv
<1>11. ParityInv  BY <1>1 DEF ParityInv
<1>12. req.level = "raid0" => id * req.sz + strip_off = req.off  BY <1>1, <1>3
<1>13. req.level \in SP => id * StripeDataSz + at = req.off  BY <1>1, <1>4 DEF SP
<1>14. req.level = "raid1" => id < req.n  BY <1>1, <1>2
<1>15. LoopInv  BY <1>1, <1>2, <1>12, <1>13, <1>14 DEF LoopInv
<1> QED  BY <1>9, <1>10, <1>11, <1>15 DEF IInv

\* Every turn of a loop keeps the invariant.
LEMMA NextIInv == IInv /\ [Next]_vars => IInv'
<1> SUFFICES ASSUME IInv, [Next]_vars PROVE IInv'
  OBVIOUS
<1>1. CASE Raid0Step  BY <1>1, Raid0Keeps
<1>2. CASE Raid1Read  BY <1>2, Raid1ReadKeeps
<1>3. CASE Raid1Write  BY <1>3, Raid1WriteKeeps
<1>4. CASE StripeBegin  BY <1>4, StripeBeginKeeps
<1>5. CASE StripStep  BY <1>5, StripStepKeeps
<1>6. CASE UNCHANGED vars
  <2>1. /\ req' = req /\ done' = done /\ id' = id /\ at' = at /\ part' = part
        /\ strip_off' = strip_off /\ chunk_sz' = chunk_sz /\ hs' = hs /\ ops' = ops
        /\ parity' = parity
    BY <1>6 DEF vars
  <2>2. Typed'  BY <2>1, SameRequest DEF IInv, Typed
  <2>3. OpsInv'  BY <2>1, SameRequest DEF IInv, OpsInv
  <2>4. OnceInv'  BY <2>1 DEF IInv, OnceInv, Units
  <2>5. ParityInv'  BY <2>1, SameRequest DEF IInv, ParityInv
  <2>6. LoopInv'
    BY <2>1 DEF IInv, LoopInv, More, StripNr, StripeDataSz, ParityId, ParityIdRaid4, ParityIdRaid5
  <2> QED  BY <2>2, <2>3, <2>4, <2>5, <2>6 DEF IInv
<1> QED  BY <1>1, <1>2, <1>3, <1>4, <1>5, <1>6 DEF Next

\* The invariant of the loops, for any devices, strips and request
THEOREM Invariance == Spec => []IInv
BY InitIInv, NextIInv, PTL DEF Spec

\* The subqueries of a RAID1 write, which are as many as there are devices
ToAll(n, off, len) == {Op(h, off, 0, len) : h \in 0..(n - 1)}

LEMMA ToAllCount ==
    ASSUME NEW n \in Nat \ {0}, NEW off, NEW len
    PROVE  {o.dev : o \in ToAll(n, off, len)} = 0..(n - 1) /\ Cardinality(ToAll(n, off, len)) = n
<1> DEFINE H   == 0..(n - 1)
           all == ToAll(n, off, len)
           f   == [h \in H |-> Op(h, off, 0, len)]
<1>1. \A h \in H : Op(h, off, 0, len).dev = h  BY DEF Op
<1>2. {o.dev : o \in all} = H  BY <1>1 DEF ToAll
<1>3. f \in Bijection(H, all)
  <2>1. f \in [H -> all]  BY DEF ToAll
  <2>2. \A g, h \in H : f[g] = f[h] => g = h  BY <1>1
  <2>3. \A o \in all : \E h \in H : f[h] = o  BY DEF ToAll
  <2> HIDE DEF f, all, H
  <2> QED  BY <2>1, <2>2, <2>3 DEF Bijection, Injection, Surjection, IsInjective
<1>4. IsFiniteSet(H) /\ Cardinality(H) = n  BY FS_Interval
<1>5. ExistsBijection(H, all)  BY <1>3 DEF ExistsBijection
<1> HIDE DEF H, all
<1>6. Cardinality(all) = n  BY <1>4, <1>5, FS_Bijection
<1> QED  BY <1>2, <1>6 DEF H, all

\* Every unit of a request is submitted once, a RAID1 write once to each device,
\* and a stripe is left when its part is done, for any devices, strips and request.
THEOREM LoopsCover == Spec => []Covered
<1>1. IInv => Covered
  <2> SUFFICES ASSUME IInv PROVE Covered
    OBVIOUS
  <2>1. Typed /\ (hs = <<>> => chunk_sz = 0)  BY DEF IInv, LoopInv
  <2>2. req \in Requests /\ done \in 0..req.len /\ req.len \in Nat /\ req.n \in Nat /\ req.n >= 3
    BY <2>1, RequestTypes DEF Typed
  <2>3. ASSUME NEW k \in 0..(req.len - 1)
        PROVE  LET on == {o \in ops : k \in Units(o)} IN
               IF k >= done THEN on = {}
               ELSE IF req.level = "raid1" /\ req.kind = "write"
                    THEN {o.dev : o \in on} = 0..(req.n - 1) /\ Cardinality(on) = req.n
                    ELSE Cardinality(on) = 1
    <3> DEFINE on == {o \in ops : k \in Units(o)}
    <3>1. CASE k >= done
      <4>1. ASSUME NEW o \in ops PROVE k \notin Units(o)
        <5>1. o.from \in Nat /\ o.len \in Nat /\ o.from + o.len <= done  BY DEF IInv, OpsInv
        <5> QED  BY <2>2, <3>1, <5>1 DEF Units
      <4> QED  BY <3>1, <4>1
    <3>2. CASE ~(k >= done) /\ req.level = "raid1" /\ req.kind = "write"
      <4>1. done # 0  BY <2>2, <3>2
      <4>2. ops = ToAll(req.n, req.off, req.len)
        BY <3>2, <4>1 DEF IInv, OnceInv, ToAll
      <4>3. \A o \in ops : k \in Units(o)  BY <2>2, <4>2 DEF Units, Op, ToAll
      <4>4. on = ops  BY <4>3
      <4>5. {o.dev : o \in ops} = 0..(req.n - 1) /\ Cardinality(ops) = req.n
        BY <2>2, <4>2, ToAllCount
      <4> QED  BY <3>2, <4>4, <4>5
    <3>3. CASE ~(k >= done) /\ ~(req.level = "raid1" /\ req.kind = "write")
      <4>1. k \in 0..(done - 1)  BY <2>2, <3>3
      <4>2. PICK o \in ops : k \in Units(o)  BY <4>1 DEF IInv, OnceInv
      <4>3. \A q \in ops : k \in Units(q) => q = o  BY <3>3, <4>2 DEF IInv, OnceInv
      <4>4. on = {o}  BY <4>2, <4>3
      <4>5. Cardinality(on) = 1  BY <4>4, FS_Singleton
      <4> QED  BY <3>3, <4>5
    <3> QED  BY <3>1, <3>2, <3>3
  <2> QED  BY <2>1, <2>3 DEF Covered
<1> QED  BY <1>1, Invariance, PTL

-----------------------------------------------------------------------------
(* The order of the layout *)

\* A multiple and a remainder are ordered by the multiple first.
LEMMA Lexicographic ==
    ASSUME NEW w \in Nat \ {0}, NEW q \in Int, NEW p \in Int,
           NEW r \in 0..(w - 1), NEW t \in 0..(w - 1)
    PROVE  q * w + r < p * w + t <=> (q < p \/ (q = p /\ r < t))
<1> DEFINE f == q * w
           g == p * w
<1>1. f \in Int /\ g \in Int /\ (q = p => f = g)  OBVIOUS
<1> HIDE DEF f, g
<1>2. CASE q = p  BY <1>1, <1>2 DEF f, g
<1>3. CASE q < p
  <2>1. f + w <= g  BY <1>3, NextMultiple DEF f, g
  <2>2. f + r < g + t  BY <1>1, <2>1
  <2> QED  BY <1>3, <2>2 DEF f, g
<1>4. CASE p < q
  <2>1. g + w <= f  BY <1>4, NextMultiple DEF f, g
  <2>2. ~(f + r < g + t)  BY <1>1, <2>1
  <2> QED  BY <1>4, <2>2 DEF f, g
<1> QED  BY <1>2, <1>3, <1>4

\* Unit x of data strip d of stripe s
Skip(s) == ParityDevice(req.level, req.n, s)
UnitAt(s, d, x) == <<Dev(d, Skip(s)), s * req.sz + x>>

\* Where the unit with address a lies
Place(a) ==
    UnitAt((a \div req.sz) \div DataNr, (a \div req.sz) % DataNr, a % req.sz)

Places == Locations(req.level, req.n, req.sz)

\* An address is that of a unit of a data strip.
LEMMA PlaceIs ==
    ASSUME req \in Requests, NEW a \in Nat
    PROVE  \E s \in Nat, d \in 0..(DataNr - 1), x \in 0..(req.sz - 1) :
              a = (s * DataNr + d) * req.sz + x /\ Place(a) = UnitAt(s, d, x)
<1> DEFINE z == req.sz
           N == DataNr
           q == a \div z
           x == a % z
           s == q \div N
           d == q % N
<1>1. z \in Nat \ {0} /\ N \in Nat \ {0}  BY RequestTypes
<1>2. Place(a) = UnitAt(s, d, x)  BY DEF Place
<1> HIDE DEF z, N
<1>3. x \in 0..(z - 1) /\ q \in Nat /\ a = q * z + x  BY <1>1, DivMod
<1> HIDE DEF q, x
<1>4. d \in 0..(N - 1) /\ s \in Nat /\ q = s * N + d  BY <1>1, <1>3, DivMod
<1> HIDE DEF s, d
<1>5. a = (s * N + d) * z + x  BY <1>3, <1>4
<1> QED  BY <1>2, <1>3, <1>4, <1>5 DEF z, N

\* And the other way round
LEMMA PlaceOf ==
    ASSUME req \in Requests, NEW s \in Nat, NEW d \in 0..(DataNr - 1),
           NEW x \in 0..(req.sz - 1), NEW a \in Nat, a = (s * DataNr + d) * req.sz + x
    PROVE  Place(a) = UnitAt(s, d, x)
<1> DEFINE z == req.sz
           N == DataNr
           q == s * N + d
<1>1. z \in Nat \ {0} /\ N \in Nat \ {0}  BY RequestTypes
<1>2. a = q * z + x /\ x \in 0..(z - 1) /\ d \in 0..(N - 1)  OBVIOUS
<1>3. Place(a) = UnitAt((a \div z) \div N, (a \div z) % N, a % z)  BY DEF Place
<1> HIDE DEF z, N
<1>4. q \in Nat
  <2>1. s * N \in Nat  BY <1>1
  <2> QED  BY <1>1, <1>2, <2>1
<1>5. q = s * N + d  OBVIOUS
<1> HIDE DEF q
<1>6. a \div z = q /\ a % z = x
  <2>1. q \in Int  BY <1>4
  <2> QED  BY <1>1, <1>2, <2>1, DivIs
<1>7. q \div N = s /\ q % N = d
  <2>1. s \in Int  OBVIOUS
  <2> QED  BY <1>1, <1>2, <1>4, <1>5, <2>1, DivIs
<1> QED  BY <1>3, <1>6, <1>7

\* What a unit's place says of it
LEMMA UnitAtIs ==
    ASSUME req \in Requests, req.level # "raid1",
           NEW s \in Nat, NEW d \in 0..(DataNr - 1), NEW x \in 0..(req.sz - 1)
    PROVE  /\ UnitAt(s, d, x)[1] = Dev(d, Skip(s)) /\ UnitAt(s, d, x)[2] = s * req.sz + x
           /\ UnitAt(s, d, x)[1] \in 0..(req.n - 1) /\ UnitAt(s, d, x)[1] # Skip(s)
           /\ UnitAt(s, d, x)[2] \in Nat /\ UnitAt(s, d, x)[2] \div req.sz = s
           /\ Skip(s) \in 0..req.n
<1>1. LET skip == ParityDevice(req.level, req.n, s)
          off  == s * req.sz + x
      IN  /\ off \in Nat /\ off \div req.sz = s
          /\ Dev(d, skip) \in 0..(req.n - 1) /\ Dev(d, skip) # skip
  BY Located
<1>2. Skip(s) \in 0..req.n
  <2>1. req.n \in Nat  BY RequestTypes
  <2> QED  BY <2>1, ParityIdIs DEF Skip
<1> QED  BY <1>1, <1>2 DEF UnitAt, Skip

\* No address below the bound lies beyond it on a device.
LEMMA PlaceInside ==
    ASSUME req \in Requests, req.level # "raid1", NEW a \in Nat, a <= MaxAddress
    PROVE  Place(a) \in Places
<1>1. PICK s \in Nat, d \in 0..(DataNr - 1), x \in 0..(req.sz - 1) :
         a = (s * DataNr + d) * req.sz + x /\ Place(a) = UnitAt(s, d, x)
  BY PlaceIs
<1>2. /\ Place(a) = <<Dev(d, Skip(s)), s * req.sz + x>>
      /\ Dev(d, Skip(s)) \in 0..(req.n - 1) /\ Dev(d, Skip(s)) # Skip(s)
      /\ s * req.sz + x \in Nat /\ (s * req.sz + x) \div req.sz = s
  BY <1>1, UnitAtIs DEF UnitAt
<1>3. s * req.sz + x <= a
  <2> DEFINE z == req.sz
             N == DataNr
             m == s * N
             q == m + d
  <2>1. z \in Nat \ {0} /\ N \in Nat \ {0} /\ d \in Nat /\ x \in Nat  BY RequestTypes
  <2>2. a = q * z + x  BY <1>1
  <2> HIDE DEF z, N
  <2>3. N * s \in Nat /\ s <= N * s /\ N * s = m  BY <2>1, Multiple
  <2> HIDE DEF m
  <2>4. q \in Int /\ s <= q  BY <2>1, <2>3
  <2> HIDE DEF q
  <2>5. s * z <= q * z /\ s * z \in Int /\ q * z \in Int  BY <2>1, <2>4, LessMultiple
  <2>6. s * z + x <= a  BY <2>1, <2>2, <2>5
  <2> QED  BY <2>6 DEF z
<1>4. MaxAddress \in Nat  BY SizesAssumption DEF MaxAddress
<1>5. s * req.sz + x \in 0..MaxAddress  BY <1>2, <1>3, <1>4
<1> QED  BY <1>2, <1>5 DEF Places, Locations, Skip

\* Every place of the layout has an address.
LEMMA PlaceOnto ==
    ASSUME req \in Requests, req.level # "raid1", NEW l \in Places
    PROVE  \E a \in Nat : Place(a) = l
<1> DEFINE z == req.sz
           s == l[2] \div z
           x == l[2] % z
           k == Skip(s)
           d == IF l[1] < k THEN l[1] ELSE l[1] - 1
           m == s * DataNr + d
           a == m * z + x
<1>1. /\ z \in Nat \ {0} /\ req.n \in Nat /\ req.n >= 3 /\ DataNr \in Nat \ {0}
      /\ (req.level # "raid0" => DataNr = req.n - 1)
      /\ (req.level = "raid0" => DataNr = req.n)
      /\ req.level \in {"raid0", "raid1", "raid4", "raid5"}
  BY RequestTypes
<1>2. MaxAddress \in Nat  BY SizesAssumption DEF MaxAddress
<1>3. /\ l = <<l[1], l[2]>> /\ l[1] \in 0..(req.n - 1) /\ l[2] \in Nat /\ l[1] # k
  BY <1>2 DEF Places, Locations, Skip
<1>4. x \in 0..(z - 1) /\ s \in Nat /\ l[2] = s * z + x  BY <1>1, <1>3, DivMod
<1> HIDE DEF s, x
<1>5. k \in 0..req.n /\ (req.level = "raid0" => k = req.n)
      /\ (req.level # "raid0" => k < req.n)
  BY <1>1, <1>4, ParityIdIs DEF Skip, SP
<1> HIDE DEF k
<1>6. d \in 0..(DataNr - 1) /\ Dev(d, k) = l[1]  BY <1>1, <1>3, <1>5 DEF Dev
<1> HIDE DEF d
<1>7. a \in Nat
  <2>1. s * DataNr \in Nat  BY <1>1, <1>4
  <2>2. m \in Nat  BY <1>1, <1>6, <2>1
  <2> HIDE DEF m
  <2>3. m * z \in Nat  BY <1>1, <2>2
  <2> QED  BY <1>1, <1>4, <2>3
<1>8. a = (s * DataNr + d) * z + x  OBVIOUS
<1> HIDE DEF a
<1>9. Place(a) = UnitAt(s, d, x)  BY <1>4, <1>6, <1>7, <1>8, PlaceOf
<1>10. UnitAt(s, d, x) = l  BY <1>3, <1>4, <1>6 DEF UnitAt, k
<1> QED  BY <1>7, <1>9, <1>10

\* The layout has its units in the order of their addresses.
LEMMA PlaceOrder ==
    ASSUME req \in Requests, req.level # "raid1", NEW a \in Nat, NEW b \in Nat
    PROVE  Before(req.sz, Place(a), Place(b)) <=> a < b
<1> DEFINE z == req.sz
           N == DataNr
           l == Place(a)
           m == Place(b)
<1>1. PICK s \in Nat, d \in 0..(N - 1), x \in 0..(z - 1) :
         a = (s * N + d) * z + x /\ l = UnitAt(s, d, x)
  BY PlaceIs
<1>2. PICK t \in Nat, e \in 0..(N - 1), y \in 0..(z - 1) :
         b = (t * N + e) * z + y /\ m = UnitAt(t, e, y)
  BY PlaceIs
<1>3. /\ l[1] = Dev(d, Skip(s)) /\ l[2] = s * z + x /\ l[2] \div z = s /\ Skip(s) \in 0..req.n
  BY <1>1, UnitAtIs
<1>4. /\ m[1] = Dev(e, Skip(t)) /\ m[2] = t * z + y /\ m[2] \div z = t
  BY <1>2, UnitAtIs
<1>5. z \in Nat \ {0} /\ N \in Nat \ {0} /\ req.n \in Nat  BY RequestTypes
<1> DEFINE q == s * N + d
           p == t * N + e
<1>6. s * N \in Nat /\ t * N \in Nat  BY <1>5
<1>7. q \in Int /\ p \in Int  BY <1>5, <1>6
<1>8. q < p <=> (s < t \/ (s = t /\ d < e))  BY <1>5, Lexicographic
<1>9. q = p <=> (s = t /\ d = e)  BY <1>5, DivUnique
<1>10. a = q * z + x /\ b = p * z + y  BY <1>1, <1>2
<1> HIDE DEF q, p, l, m, z, N
<1>11. a < b <=> (q < p \/ (q = p /\ x < y))  BY <1>5, <1>7, <1>10, Lexicographic
<1>12. s = t => (l[1] < m[1] <=> d < e) /\ (l[1] = m[1] <=> d = e)
  BY <1>3, <1>4, <1>5 DEF Dev
<1>13. s = t => (l[2] < m[2] <=> x < y)
  <2>1. s * z \in Nat  BY <1>5
  <2> QED  BY <1>3, <1>4, <1>5, <2>1
<1>14. Before(z, l, m) <=>
         \/ s < t
         \/ s = t /\ l[1] < m[1]
         \/ s = t /\ l[1] = m[1] /\ l[2] < m[2]
  BY <1>3, <1>4 DEF Before
<1>15. Before(z, l, m) <=> a < b  BY <1>8, <1>9, <1>11, <1>12, <1>13, <1>14
<1> QED  BY <1>15 DEF z, l, m

\* So before the unit with address a there are a others.
LEMMA PlaceCount ==
    ASSUME req \in Requests, req.level # "raid1", NEW a \in Nat, a <= MaxAddress
    PROVE  Cardinality({m \in Places : Before(req.sz, m, Place(a))}) = a
<1> DEFINE H    == 0..(a - 1)
           less == {m \in Places : Before(req.sz, m, Place(a))}
           f    == [b \in H |-> Place(b)]
<1>1. MaxAddress \in Nat  BY SizesAssumption DEF MaxAddress
<1>2. f \in Bijection(H, less)
  <2>1. \A b \in H : Place(b) \in less
    <3>1. \A b \in H : b \in Nat /\ b < a /\ b <= MaxAddress  BY <1>1
    <3> QED  BY <3>1, PlaceInside, PlaceOrder
  <2>2. ASSUME NEW b \in H, NEW c \in H, Place(b) = Place(c) PROVE b = c
    <3>1. b \in Nat /\ c \in Nat  OBVIOUS
    <3>2. b < c <=> c < b  BY <2>2, <3>1, PlaceOrder
    <3> QED  BY <3>1, <3>2
  <2>3. ASSUME NEW m \in less PROVE \E b \in H : Place(b) = m
    <3>1. PICK b \in Nat : Place(b) = m  BY PlaceOnto
    <3>2. b < a  BY <3>1, PlaceOrder
    <3> QED  BY <3>1, <3>2
  <2>4. \A b \in H : f[b] = Place(b)  OBVIOUS
  <2>5. f \in [H -> less]  BY <2>1
  <2> HIDE DEF f, less, H
  <2> QED  BY <2>2, <2>3, <2>4, <2>5 DEF Bijection, Injection, Surjection, IsInjective
<1>3. IsFiniteSet(H) /\ Cardinality(H) = a  BY FS_Interval
<1>4. ExistsBijection(H, less)  BY <1>2 DEF ExistsBijection
<1> HIDE DEF H, less
<1>5. Cardinality(less) = a  BY <1>3, <1>4, FS_Bijection
<1> QED  BY <1>5 DEF less

\* Every unit submitted lies where its address is.
LEMMA UnitPlaced ==
    ASSUME IInv, NEW o \in ops, NEW k \in Units(o), req.level # "raid1"
    PROVE  /\ req \in Requests /\ k \in Nat /\ req.off + k \in Nat
           /\ req.off + k <= MaxAddress
           /\ Place(req.off + k) = <<o.dev, o.off + k - o.from>>
<1> DEFINE z == req.sz
           s == o.off \div z
           x == o.off % z
           d == IF o.dev < Skip(s) THEN o.dev ELSE o.dev - 1
           i == k - o.from
           m == s * DataNr + d
           a == req.off + k
           y == x + i
<1>1. req \in Requests /\ done \in 0..req.len  BY DEF IInv, Typed
<1>2. /\ z \in Nat \ {0} /\ req.n \in Nat /\ req.n >= 3 /\ DataNr \in Nat \ {0}
      /\ (req.level # "raid0" => DataNr = req.n - 1)
      /\ (req.level = "raid0" => DataNr = req.n)
      /\ req.level \in {"raid0", "raid1", "raid4", "raid5"}
  BY <1>1, RequestTypes
<1>3. req.len \in Nat /\ req.off \in Nat /\ req.off <= MaxOffset /\ req.len <= MaxLength
  BY <1>1, RequestTypes
<1>4. /\ o.dev \in 0..(req.n - 1) /\ o.off \in Nat /\ o.from \in Nat /\ o.len \in Nat \ {0}
      /\ o.from + o.len <= done
  BY DEF IInv, OpsInv
<1>5. InPlace(o)  BY DEF IInv, OpsInv
<1>6. k \in Nat /\ i \in Nat /\ i < o.len /\ k < req.len  BY <1>1, <1>3, <1>4 DEF Units
<1>7. a \in Nat /\ a <= MaxAddress
  <2>1. MaxOffset \in Nat /\ MaxLength \in Nat  BY SizesAssumption
  <2> QED  BY <1>3, <1>6, <2>1 DEF MaxAddress
<1>8. o.dev # Skip(s) /\ x + o.len <= z /\ m * z + x = req.off + o.from
  BY <1>5 DEF InPlace, Address, Skipped, Skip
<1>9. x \in 0..(z - 1) /\ s \in Nat /\ o.off = s * z + x  BY <1>2, <1>4, DivMod
<1> HIDE DEF s, x
<1>10. Skip(s) \in 0..req.n /\ (req.level = "raid0" => Skip(s) = req.n)
       /\ (req.level # "raid0" => Skip(s) < req.n)
  BY <1>1, <1>2, <1>9, ParityIdIs DEF Skip, SP
<1>11. d \in 0..(DataNr - 1) /\ Dev(d, Skip(s)) = o.dev  BY <1>2, <1>4, <1>8, <1>10 DEF Dev
<1> HIDE DEF d
<1>12. m \in Int /\ m = s * DataNr + d  BY <1>2, <1>9, <1>11
<1> HIDE DEF m
<1>13. i = k - o.from  OBVIOUS
<1> HIDE DEF i
<1>14. y \in 0..(z - 1) /\ y = x + i
  <2>1. x + o.len <= z  BY <1>8
  <2>2. x \in Nat /\ z \in Nat /\ o.len \in Nat  BY <1>2, <1>4, <1>9
  <2>3. i \in Nat /\ i < o.len  BY <1>6, <1>13
  <2> HIDE DEF z
  <2> QED  BY <2>1, <2>2, <2>3
<1>15. a = m * z + y
  <2> DEFINE f == m * z
  <2>1. f \in Int /\ f + x = req.off + o.from  BY <1>2, <1>8, <1>12
  <2> HIDE DEF f
  <2>2. a = f + (x + i)  BY <1>3, <1>4, <1>6, <1>9, <1>13, <2>1
  <2> QED  BY <2>2, <1>14 DEF f
<1>16. o.off + k - o.from = s * z + y
  <2> DEFINE f == s * z
  <2>1. f \in Int /\ o.off = f + x  BY <1>2, <1>9
  <2> HIDE DEF f
  <2>2. o.off + k - o.from = f + (x + i)  BY <1>4, <1>6, <1>9, <1>13, <2>1
  <2> QED  BY <2>2, <1>14 DEF f
<1> HIDE DEF y
<1>17. a = (s * DataNr + d) * z + y  BY <1>12, <1>15
<1> HIDE DEF a
<1>18. Place(a) = UnitAt(s, d, y)  BY <1>1, <1>7, <1>9, <1>11, <1>14, <1>17, PlaceOf
<1>19. Place(a) = <<o.dev, o.off + k - o.from>>  BY <1>11, <1>16, <1>18 DEF UnitAt
<1> QED  BY <1>1, <1>6, <1>7, <1>19 DEF a

\* Whatever request it comes with, a unit is put where the layout has its address,
\* for any devices, strips and request.
THEOREM UnitsPlaced == Spec => []Placed
<1>1. IInv => Placed
  <2> SUFFICES ASSUME IInv, NEW o \in ops, NEW k \in Units(o)
               PROVE  LET l == <<o.dev, o.off + k - o.from>> IN
                      IF req.level = "raid1" THEN l[2] = req.off + k
                      ELSE /\ l \in DOMAIN AddressOf[<<req.level, req.n, req.sz>>]
                           /\ AddressOf[<<req.level, req.n, req.sz>>][l] = req.off + k
    BY DEF Placed
  <2> DEFINE l == <<o.dev, o.off + k - o.from>>
             a == req.off + k
             c == <<req.level, req.n, req.sz>>
             A == AddressOf[c]
             Rank(p) == Cardinality({m \in Places : Before(req.sz, m, p)})
  <2>1. CASE req.level = "raid1"
    <3>1. o.off \in Nat /\ o.from \in Nat /\ o.len \in Nat /\ o.off = req.off + o.from
      BY <2>1 DEF IInv, OpsInv, InPlace
    <3>2. req.off \in Nat  BY RequestTypes DEF IInv, Typed
    <3>3. o.off + k - o.from = req.off + k  BY <3>1, <3>2 DEF Units
    <3> QED  BY <2>1, <3>3
  <2>2. CASE req.level # "raid1"
    <3>1. req \in Requests /\ a \in Nat /\ a <= MaxAddress /\ Place(a) = l
      BY <2>2, UnitPlaced
    <3>2. c \in (Levels \ {"raid1"}) \X Devices \X StripSizes  BY <2>2, <3>1, RequestTypes
    <3>3. A = [p \in Places |-> Rank(p)]  BY <3>2 DEF AddressOf, Places
    <3> HIDE DEF a, l
    <3>4. l \in Places /\ Rank(l) = a  BY <2>2, <3>1, PlaceInside, PlaceCount
    <3> HIDE DEF Rank, A
    <3>5. l \in DOMAIN A /\ A[l] = a  BY <3>3, <3>4
    <3> QED  BY <2>2, <3>5 DEF A, a, l
  <2> QED  BY <2>1, <2>2
<1> QED  BY <1>1, Invariance, PTL

\* A unit of a part whose parity has been written lies in its stripe, as far from the
\* beginning of a strip as parity_to XORs it in.
LEMMA UnitBesideParity ==
    ASSUME IInv, NEW p \in parity, NEW o \in ops, NEW k \in Units(o),
           k \in p.from..(p.from + p.len - 1)
    PROVE  /\ o.dev # p.dev
           /\ \A j \in 0..(req.sz - 1) :
                 k - p.from \in p.xor[j] <=> o.off + k - o.from = p.off + j
<1> DEFINE z == req.sz
           s == p.off \div z
           b == s * StripeDataSz
           a == req.off + p.from - b
           i == k - p.from
           c == a + i
           d == c \div z
           x == c % z
           N == DataNr
<1>1. req \in Requests  BY DEF IInv, Typed
<1>2. InStripe(p)  BY DEF IInv, ParityInv
<1>3. req.level \in SP /\ req.level # "raid1" /\ req.level # "raid0"  BY <1>2 DEF InStripe, SP
<1>4. z \in Nat \ {0} /\ N \in Nat \ {0} /\ req.off \in Nat
  BY <1>1, RequestTypes
<1>5. StripeDataSz = N * z
  BY <1>1, <1>3, RequestTypes, StripeHolds
<1>6. p.from \in Nat /\ p.len \in Nat \ {0} /\ p.off \in Nat
  BY <1>2 DEF InStripe
<1>7. p.off = s * z /\ p.dev = ParityId(s) /\ a >= 0 /\ a + p.len <= StripeDataSz
  BY <1>2 DEF InStripe
<1>8. p.xor = ParityTo(z, a % z, p.len)  BY <1>2 DEF InStripe
<1>9. s \in Nat  BY <1>4, <1>6, DivMod
<1> HIDE DEF s
<1>10. b \in Int /\ a = req.off + p.from - b
  <2>1. StripeDataSz \in Nat  BY <1>1, StripeHolds
  <2> QED  BY <1>9, <2>1
<1>11. b = s * (N * z)  BY <1>5
<1>12. k \in Nat /\ i \in 0..(p.len - 1) /\ i = k - p.from  BY <1>6
<1>13. a + p.len <= N * z /\ N * z \in Nat  BY <1>4, <1>5, <1>7
<1>14. a >= 0  BY <1>7
<1> HIDE DEF b, z, N
<1>15. a \in Nat  BY <1>4, <1>6, <1>10, <1>14
<1>16. req.off + k = b + c  BY <1>4, <1>6, <1>10, <1>12
<1> HIDE DEF a, i
<1>17. c \in Nat /\ c = a + i  BY <1>6, <1>12, <1>15
<1>18. c < N * z
  <2> DEFINE w == N * z
  <2>1. w \in Nat /\ a + p.len <= w  BY <1>13
  <2> HIDE DEF w
  <2>2. c < w  BY <1>6, <1>12, <1>15, <1>17, <2>1
  <2> QED  BY <2>2 DEF w
<1> HIDE DEF c
<1>19. d \in Nat /\ x \in 0..(z - 1) /\ c = d * z + x  BY <1>4, <1>17, DivMod
<1> HIDE DEF d
<1>20. d \in 0..(N - 1)
  <2>1. CASE N <= d
    <3>1. N * z <= d * z /\ N * z \in Int /\ d * z \in Int  BY <1>4, <1>19, <2>1, LessMultiple
    <3> DEFINE f == d * z
               w == N * z
    <3>2. w <= f /\ w \in Int /\ f \in Int /\ c = f + x /\ c < w  BY <1>18, <1>19, <3>1
    <3> HIDE DEF f, w
    <3>3. x \in Nat /\ c \in Nat  BY <1>4, <1>17, <1>19
    <3> QED  BY <3>2, <3>3
  <2>2. CASE ~(N <= d)  BY <1>4, <1>19, <2>2
  <2> QED  BY <2>1, <2>2
<1>21. x = (a + i) % z  BY <1>17
<1> HIDE DEF x
<1>22. req.off + k = (s * N + d) * z + x
  <2>1. (s * N + d) * z = s * (N * z) + d * z  BY <1>4, <1>9, <1>19
  <2>2. s * (N * z) \in Int /\ d * z \in Int /\ x \in Int  BY <1>4, <1>9, <1>19
  <2>3. req.off + k = s * (N * z) + (d * z + x)  BY <1>11, <1>16, <1>19
  <2> DEFINE f == s * (N * z)
             g == d * z
             h == (s * N + d) * z
  <2>4. f \in Int /\ g \in Int /\ h = f + g /\ req.off + k = f + (g + x)
    BY <2>1, <2>2, <2>3
  <2> HIDE DEF f, g, h
  <2>5. req.off + k = h + x  BY <2>2, <2>4
  <2> QED  BY <2>5 DEF h
<1>23. req.off + k \in Nat  BY <1>4, <1>12
<1>24. Place(req.off + k) = UnitAt(s, d, x)
  <2> DEFINE e == req.off + k
  <2>1. e \in Nat /\ e = (s * N + d) * z + x  BY <1>22, <1>23
  <2> HIDE DEF e
  <2>2. Place(e) = UnitAt(s, d, x)  BY <1>1, <1>9, <1>19, <1>20, <2>1, PlaceOf DEF N, z
  <2> QED  BY <2>2 DEF e
<1>25. Place(req.off + k) = <<o.dev, o.off + k - o.from>>  BY <1>3, UnitPlaced
<1>26. o.dev = Dev(d, Skip(s)) /\ o.off + k - o.from = s * z + x
  BY <1>24, <1>25 DEF UnitAt, z
<1>27. o.dev # p.dev
  <2>1. p.dev = Skip(s)  BY <1>1, <1>3, <1>7, <1>9, ParityIdIs DEF Skip
  <2>2. d \in Nat /\ Skip(s) \in Nat
    <3>1. req.n \in Nat /\ Skip(s) \in 0..(req.n - 1)
      BY <1>1, <1>3, <1>9, ParityIdIs, RequestTypes DEF Skip
    <3> QED  BY <1>19, <3>1
  <2>3. Dev(d, Skip(s)) # Skip(s)  BY <2>2 DEF Dev
  <2> QED  BY <1>26, <2>1, <2>3
<1>28. ASSUME NEW j \in 0..(z - 1)
       PROVE  i \in p.xor[j] <=> o.off + k - o.from = p.off + j
  <2> DEFINE r == a % z
  <2>1. r \in Nat /\ (r + i) % z = x
    <3>1. r \in Nat  BY <1>4, <1>15, DivMod
    <3>2. i \in Nat  BY <1>6, <1>12
    <3>3. \A e, f \in Nat : ((e % z) + f) % z = (e + f) % z  BY <1>4, ModPlus
    <3>4. (r + i) % z = (a + i) % z  BY <1>15, <3>2, <3>3
    <3> QED  BY <1>21, <3>1, <3>4
  <2> HIDE DEF r
  <2>2. p.xor[j] = {e \in 0..(p.len - 1) : (r + e) % z = j}
    <3>1. p.xor = ParityTo(z, r, p.len)  BY <1>8 DEF r
    <3> DEFINE len == p.len
    <3>2. len \in Nat /\ r \in Nat /\ z \in Nat \ {0}  BY <1>4, <1>6, <2>1
    <3> HIDE DEF len
    <3>3. ParityTo(z, r, len)[j] = {e \in 0..(len - 1) : (r + e) % z = j}
      BY <3>2, ParityToIs
    <3> QED  BY <3>1, <3>3 DEF len
  <2>3. i \in p.xor[j] <=> x = j  BY <1>12, <2>1, <2>2
  <2> DEFINE f == s * z
  <2>4. f \in Int /\ o.off + k - o.from = f + x /\ p.off = f  BY <1>4, <1>7, <1>9, <1>26
  <2> HIDE DEF f
  <2>5. x \in Int /\ j \in Int  BY <1>4, <1>19
  <2>6. f + x = f + j <=> x = j  BY <2>4, <2>5
  <2> QED  BY <2>3, <2>4, <2>6
<1> QED  BY <1>27, <1>28 DEF i, z

\* What a write XORs into a unit of parity are exactly the units it puts beside it on
\* other devices, and no stripe is left without, for any devices, strips and request.
THEOREM ParityCovers == Spec => []ParityAligned
<1>1. IInv => ParityAligned
  <2> SUFFICES ASSUME IInv PROVE ParityAligned
    OBVIOUS
  <2>1. \A p \in parity : \A o \in ops : \A k \in Units(o) :
          k \in p.from..(p.from + p.len - 1) =>
            /\ o.dev # p.dev
            /\ \A j \in 0..(req.sz - 1) :
                  k - p.from \in p.xor[j] <=> o.off + k - o.from = p.off + j
    BY UnitBesideParity
  <2>2. req.level \in SP /\ req.kind = "write" /\ hs = <<>> =>
          \A k \in 0..(done - 1) : \E p \in parity : k \in p.from..(p.from + p.len - 1)
    BY DEF IInv, ParityInv
  <2> QED  BY <2>1, <2>2 DEF ParityAligned
<1> QED  BY <1>1, Invariance, PTL
=============================================================================
