--------------------------- MODULE CmdPathProofs ---------------------------
(***************************************************************************)
(* What CmdPath guarantees for any number of commands, any chains of cell  *)
(* descriptors, any capacity of the rings and any width of the counters    *)
(* that exceeds the capacity.                                              *)
(***************************************************************************)
EXTENDS CmdPath, TLAPS

-----------------------------------------------------------------------------
(* Counters that wrap *)

\* Division with remainder
LEMMA DivMod ==
    ASSUME NEW a \in Nat, NEW w \in Nat \ {0}
    PROVE  /\ a % w \in 0..(w - 1) /\ (a \div w) \in Nat
           /\ a = w * (a \div w) + (a % w)
OBVIOUS

\* The remainder is unique.
LEMMA ModUnique ==
    ASSUME NEW w \in Nat \ {0}, NEW q \in Int, NEW p \in Int,
           NEW r \in 0..(w - 1), NEW t \in 0..(w - 1), w * q + r = w * p + t
    PROVE  r = t
<1>1. CASE q = p  BY <1>1
<1>2. CASE q < p
  <2>1. w * (p - q) >= w  BY <1>2
  <2>2. w * (p - q) = w * p - w * q  OBVIOUS
  <2> QED  BY <2>1, <2>2
<1>3. CASE p < q
  <2>1. w * (q - p) >= w  BY <1>3
  <2>2. w * (q - p) = w * q - w * p  OBVIOUS
  <2> QED  BY <2>1, <2>2
<1> QED  BY <1>1, <1>2, <1>3

\* So whatever is written as a multiple and a remainder has that remainder.
LEMMA ModIs ==
    ASSUME NEW w \in Nat \ {0}, NEW a \in Nat, NEW q \in Int,
           NEW r \in 0..(w - 1), a = w * q + r
    PROVE  a % w = r
BY DivMod, ModUnique

\* The difference of two counters taken modulo w is the true one as long as that
\* is less than w: what async_read computes from 32-bit counters.
LEMMA ModDifference ==
    ASSUME NEW w \in Nat \ {0}, NEW a \in Nat, NEW d \in 0..(w - 1)
    PROVE  (((a + d) % w) + w - (a % w)) % w = d
<1> DEFINE q == a \div w
           r == a % w
<1>1. r \in 0..(w - 1) /\ q \in Nat /\ a = w * q + r  BY DivMod
<1> HIDE DEF q, r
<1>2. CASE r + d < w
  <2>1. (a + d) % w = r + d  BY <1>1, <1>2, ModIs
  <2>2. w + d = w * 1 + d  OBVIOUS
  <2>3. (w + d) % w = d  BY <2>2, ModIs
  <2> QED  BY <1>1, <2>1, <2>3 DEF r
<1>3. CASE r + d >= w
  <2>1. w * (q + 1) = w * q + w  BY <1>1
  <2>2. a + d = w * (q + 1) + (r + d - w)  BY <1>1, <2>1
  <2>3. r + d - w \in 0..(w - 1) /\ q + 1 \in Int /\ a + d \in Nat  BY <1>1, <1>3
  <2>4. (a + d) % w = r + d - w  BY <2>2, <2>3, ModIs
  <2>5. d % w = d  OBVIOUS
  <2> QED  BY <1>1, <2>4, <2>5 DEF r
<1> QED  BY <1>1, <1>2, <1>3

-----------------------------------------------------------------------------
(* Sequences *)

\* Moving the head of a queue to the end of what was taken before keeps the whole.
LEMMA MoveHead ==
    ASSUME NEW S, NEW a \in Seq(S), NEW b \in Seq(S), b # <<>>
    PROVE  Append(a, Head(b)) \o Tail(b) = a \o b
<1>1. Head(b) \in S /\ Tail(b) \in Seq(S)  OBVIOUS
<1>2. Append(a, Head(b)) \o Tail(b) \in Seq(S) /\ a \o b \in Seq(S)  BY <1>1
<1>3. Len(Append(a, Head(b)) \o Tail(b)) = Len(a \o b)  BY <1>1
<1>4. \A i \in 1..Len(a \o b) :
         (Append(a, Head(b)) \o Tail(b))[i] = (a \o b)[i]
  BY <1>1
<1> QED  BY <1>2, <1>3, <1>4

\* The elements of one queue after another
LEMMA ConcatIndex ==
    ASSUME NEW S, NEW x \in Seq(S), NEW y \in Seq(S)
    PROVE  /\ x \o y \in Seq(S) /\ Len(x \o y) = Len(x) + Len(y)
           /\ \A i \in 1..Len(x) : (x \o y)[i] = x[i]
           /\ \A i \in (Len(x) + 1)..(Len(x) + Len(y)) : (x \o y)[i] = y[i - Len(x)]
OBVIOUS

\* Dropping the head of a queue in the middle leaves the elements before and after.
LEMMA DropHead ==
    ASSUME NEW S, NEW a \in Seq(S), NEW b \in Seq(S), NEW z \in Seq(S), b # <<>>
    PROVE  /\ Len(a \o Tail(b) \o z) = Len(a \o b \o z) - 1
           /\ (a \o b \o z)[Len(a) + 1] = Head(b)
           /\ \A i \in 1..Len(a \o Tail(b) \o z) :
                 (a \o Tail(b) \o z)[i] =
                    (a \o b \o z)[IF i <= Len(a) THEN i ELSE i + 1]
<1> DEFINE B == Tail(b)
           X == a \o b
           Y == a \o B
<1>1. /\ B \in Seq(S) /\ Len(B) = Len(b) - 1 /\ Len(b) >= 1 /\ Head(b) = b[1]
      /\ \A i \in 1..(Len(b) - 1) : B[i] = b[i + 1]
  OBVIOUS
<1>2. Len(a) \in Nat /\ Len(b) \in Nat /\ Len(z) \in Nat  OBVIOUS
<1> HIDE DEF B
<1>3. /\ X \in Seq(S) /\ Len(X) = Len(a) + Len(b)
      /\ \A i \in 1..Len(a) : X[i] = a[i]
      /\ \A i \in (Len(a) + 1)..(Len(a) + Len(b)) : X[i] = b[i - Len(a)]
  BY ConcatIndex
<1>4. /\ Y \in Seq(S) /\ Len(Y) = Len(a) + Len(b) - 1
      /\ \A i \in 1..Len(a) : Y[i] = a[i]
      /\ \A i \in (Len(a) + 1)..(Len(a) + Len(b) - 1) : Y[i] = B[i - Len(a)]
  <2>1. Len(a) + Len(B) = Len(a) + Len(b) - 1  BY <1>1, <1>2
  <2>2. /\ a \o B \in Seq(S) /\ Len(a \o B) = Len(a) + Len(B)
        /\ \A i \in 1..Len(a) : (a \o B)[i] = a[i]
        /\ \A i \in (Len(a) + 1)..(Len(a) + Len(B)) : (a \o B)[i] = B[i - Len(a)]
    BY <1>1, ConcatIndex
  <2> QED  BY <2>1, <2>2
<1>x. X \in Seq(S) /\ Y \in Seq(S)  BY <1>3, <1>4
<1> HIDE DEF X, Y
<1>5. /\ Len(X \o z) = Len(a) + Len(b) + Len(z)
      /\ \A i \in 1..(Len(a) + Len(b)) : (X \o z)[i] = X[i]
      /\ \A i \in (Len(a) + Len(b) + 1)..(Len(a) + Len(b) + Len(z)) :
            (X \o z)[i] = z[i - (Len(a) + Len(b))]
  <2>1. /\ X \o z \in Seq(S) /\ Len(X \o z) = Len(X) + Len(z)
        /\ \A i \in 1..Len(X) : (X \o z)[i] = X[i]
        /\ \A i \in (Len(X) + 1)..(Len(X) + Len(z)) : (X \o z)[i] = z[i - Len(X)]
    BY <1>x, ConcatIndex
  <2> QED  BY <1>3, <2>1
<1>6. /\ Len(Y \o z) = Len(a) + Len(b) - 1 + Len(z)
      /\ \A i \in 1..(Len(a) + Len(b) - 1) : (Y \o z)[i] = Y[i]
      /\ \A i \in (Len(a) + Len(b) - 1 + 1)..(Len(a) + Len(b) - 1 + Len(z)) :
            (Y \o z)[i] = z[i - (Len(a) + Len(b) - 1)]
  <2>1. /\ Y \o z \in Seq(S) /\ Len(Y \o z) = Len(Y) + Len(z)
        /\ \A i \in 1..Len(Y) : (Y \o z)[i] = Y[i]
        /\ \A i \in (Len(Y) + 1)..(Len(Y) + Len(z)) : (Y \o z)[i] = z[i - Len(Y)]
    BY <1>x, ConcatIndex
  <2> QED  BY <1>4, <2>1
<1>7. ASSUME NEW i \in 1..Len(Y \o z)
      PROVE  (Y \o z)[i] = (X \o z)[IF i <= Len(a) THEN i ELSE i + 1]
  <2>1. CASE i <= Len(a)
    <3>1. /\ i \in 1..Len(a) /\ i \in 1..(Len(a) + Len(b))
          /\ i \in 1..(Len(a) + Len(b) - 1)
      BY <1>1, <1>2, <2>1
    <3> QED  BY <1>3, <1>4, <1>5, <1>6, <2>1, <3>1
  <2>2. CASE i > Len(a) /\ i <= Len(a) + Len(b) - 1
    <3>1. /\ ~(i <= Len(a)) /\ i + 1 \in 1..(Len(a) + Len(b))
          /\ i \in 1..(Len(a) + Len(b) - 1)
          /\ i \in (Len(a) + 1)..(Len(a) + Len(b) - 1)
          /\ i + 1 \in (Len(a) + 1)..(Len(a) + Len(b))
          /\ i - Len(a) \in 1..(Len(b) - 1)
          /\ (i - Len(a)) + 1 = (i + 1) - Len(a)
      BY <1>1, <1>2, <2>2
    <3>2. (Y \o z)[i] = b[(i + 1) - Len(a)]  BY <1>1, <1>4, <1>6, <3>1
    <3>3. (X \o z)[i + 1] = b[(i + 1) - Len(a)]  BY <1>3, <1>5, <3>1
    <3> QED  BY <3>1, <3>2, <3>3
  <2>3. CASE i > Len(a) + Len(b) - 1
    <3>1. /\ ~(i <= Len(a))
          /\ i \in (Len(a) + Len(b) - 1 + 1)..(Len(a) + Len(b) - 1 + Len(z))
          /\ i + 1 \in (Len(a) + Len(b) + 1)..(Len(a) + Len(b) + Len(z))
          /\ (i + 1) - (Len(a) + Len(b)) = i - (Len(a) + Len(b) - 1)
      BY <1>1, <1>2, <1>6, <2>3
    <3>2. (Y \o z)[i] = z[i - (Len(a) + Len(b) - 1)]  BY <1>6, <3>1
    <3>3. (X \o z)[i + 1] = z[(i + 1) - (Len(a) + Len(b))]  BY <1>5, <3>1
    <3> QED  BY <3>1, <3>2, <3>3
  <2>4. \/ i <= Len(a)
        \/ i > Len(a) /\ i <= Len(a) + Len(b) - 1
        \/ i > Len(a) + Len(b) - 1
    BY <1>2
  <2> QED  BY <2>1, <2>2, <2>3, <2>4
<1>8. (X \o z)[Len(a) + 1] = Head(b)
  <2>1. /\ Len(a) + 1 \in 1..(Len(a) + Len(b))
        /\ Len(a) + 1 \in (Len(a) + 1)..(Len(a) + Len(b))
        /\ (Len(a) + 1) - Len(a) = 1
    BY <1>1, <1>2
  <2> QED  BY <1>1, <1>3, <1>5, <2>1
<1>9. Len(Y \o z) = Len(X \o z) - 1  BY <1>2, <1>5, <1>6
<1> QED  BY <1>7, <1>8, <1>9 DEF X, Y, B

-----------------------------------------------------------------------------
(* The reader of announcements *)

\* Counters of a well-typed state are numbers.
LEMMA Numbers ==
    ASSUME IInv
    PROVE  /\ queued \in Nat /\ told \in Nat /\ reported \in Nat /\ cmds \in Nat
           /\ processed \in Nat /\ last_cmds \in Nat /\ Len(ring) \in Nat
           /\ Popped \in Nat /\ Popped <= queued /\ NCmds \in Nat
           /\ RingCap \in Nat /\ W \in Nat \ {0} /\ W > RingCap
<1>1. Typed  BY DEF IInv, CountersAgree
<1>2. /\ queued \in Nat /\ told \in Nat /\ reported \in Nat /\ cmds \in Nat
      /\ processed \in Nat /\ last_cmds \in Nat /\ Len(ring) \in Nat
  BY <1>1, CapAssumption, WAssumption, BoundAssumption DEF Typed
<1>3. reported + (IF loop = "popping" THEN processed ELSE 0) = Popped
  BY DEF IInv, CountersAgree
<1>4. Popped \in Nat /\ Popped <= queued  BY <1>2, <1>3 DEF Popped
<1> QED  BY <1>2, <1>4, CapAssumption, WAssumption, BoundAssumption

\* Steps of the driver and the reader leave the requests and their
\* acknowledgements alone.
LEMMA RequestsKept ==
    ASSUME IInv, UNCHANGED <<got, req, spin, acks>>
    PROVE  AckedOnce' /\ RequestInv'
<1>1. \A c \in Cmds : Sent(c)' = Sent(c) /\ AcksOf(c)' = AcksOf(c)
  BY DEF Sent, AcksOf
<1> QED  BY <1>1 DEF IInv, AckedOnce, RequestInv

\* The driver queues a command into a ring with room.
LEMMA DriverQueueKeeps ==
    ASSUME IInv, DriverQueue
    PROVE  IInv'
<1>1. CountersAgree /\ Typed /\ RoomInv /\ OrderInv  BY DEF IInv, CountersAgree
<1>2. /\ queued < NCmds /\ queued - reported < RingCap /\ queued' = queued + 1
      /\ ring' = Append(ring, queued + 1)
      /\ UNCHANGED <<told, got, reported, loop, last_cmds, cmds, processed, posted,
                     req, errors, spin, acks>>
  BY DEF DriverQueue, readVars
<1>3. /\ queued \in Nat /\ reported \in Nat /\ Len(ring) \in Nat /\ processed \in Nat
      /\ Popped \in Nat /\ NCmds \in Nat /\ RingCap \in Nat
  BY Numbers
<1>4. queued + 1 \in Cmds  BY <1>2, <1>3 DEF Cmds
<1>5. /\ ring' \in Seq(Cmds) /\ Len(ring') = Len(ring) + 1
      /\ \A i \in 1..Len(ring) : ring'[i] = ring[i]
      /\ ring'[Len(ring) + 1] = queued + 1
  BY <1>1, <1>2, <1>4 DEF Typed
<1>6. Popped' = Popped  BY <1>2, <1>3, <1>5 DEF Popped
<1>7. reported + (IF loop = "popping" THEN processed ELSE 0) = Popped
  BY <1>1 DEF CountersAgree
<1>8. Len(ring') <= RingCap
  BY <1>2, <1>3, <1>5, <1>7 DEF Popped
<1>9. queued' \in 0..NCmds  BY <1>2, <1>3
<1>10. Typed'  BY <1>1, <1>2, <1>5, <1>8, <1>9 DEF Typed
<1>11. CountersAgree'
  BY <1>1, <1>2, <1>6, <1>10 DEF CountersAgree
<1>12. RoomInv'  BY <1>1, <1>2, <1>3, <1>6 DEF RoomInv
<1>13. OrderInv'
  <2>1. ASSUME NEW i \in 1..Len(ring') PROVE ring'[i] = Popped + i
    <3>1. CASE i \in 1..Len(ring)  BY <1>1, <1>5, <3>1 DEF OrderInv
    <3>2. CASE i = Len(ring) + 1  BY <1>3, <1>5, <3>2 DEF Popped
    <3> QED  BY <1>3, <1>5, <3>1, <3>2
  <2> QED  BY <1>1, <1>2, <1>6, <2>1 DEF OrderInv
<1>14. AckedOnce' /\ RequestInv'  BY <1>2, RequestsKept
<1> QED  BY <1>11, <1>12, <1>13, <1>14 DEF IInv

\* The driver announces a command.
LEMMA DriverAnnounceKeeps ==
    ASSUME IInv, DriverAnnounce
    PROVE  IInv'
<1>1. CountersAgree /\ Typed /\ RoomInv /\ OrderInv  BY DEF IInv, CountersAgree
<1>2. /\ told < NCmds /\ told - reported < RingCap /\ told' = told + 1
      /\ UNCHANGED <<queued, got, ring, reported, loop, last_cmds, cmds, processed,
                     posted, req, errors, spin, acks>>
  BY DEF DriverAnnounce, readVars
<1>3. /\ told \in Nat /\ reported \in Nat /\ Popped \in Nat /\ cmds \in Nat
      /\ NCmds \in Nat /\ RingCap \in Nat
  BY Numbers
<1>4. Popped' = Popped  BY <1>2 DEF Popped
<1>5. told' \in 0..NCmds  BY <1>2, <1>3
<1>6. Typed'  BY <1>1, <1>2, <1>5 DEF Typed
<1>7. CountersAgree'  BY <1>1, <1>2, <1>4, <1>6 DEF CountersAgree
<1>8. RoomInv'  BY <1>1, <1>2, <1>3, <1>4 DEF RoomInv
<1>9. OrderInv'  BY <1>1, <1>2, <1>4 DEF OrderInv
<1>10. AckedOnce' /\ RequestInv'  BY <1>2, RequestsKept
<1> QED  BY <1>7, <1>8, <1>9, <1>10 DEF IInv

\* async_read: the difference of the counts is what was announced since, since the
\* driver is ahead by no more than a ring.
LEMMA AsyncReadKeeps ==
    ASSUME IInv, AsyncRead
    PROVE  IInv'
<1>1. CountersAgree /\ Typed /\ RoomInv /\ OrderInv  BY DEF IInv, CountersAgree
<1>2. /\ loop = "reading" /\ cmds' = ((told % W) + W - last_cmds) % W
      /\ last_cmds' = told % W /\ processed' = 0 /\ loop' = "popping"
      /\ UNCHANGED <<queued, told, got, ring, reported, posted, req, errors, spin, acks>>
  BY DEF AsyncRead, NewCmds, driverVars
<1>3. /\ told \in Nat /\ reported \in Nat /\ Popped \in Nat /\ W \in Nat \ {0}
      /\ W > RingCap /\ RingCap \in Nat
  BY Numbers
<1>4. cmds = 0 /\ Popped = reported /\ last_cmds = Popped % W
  BY <1>1, <1>2, <1>3 DEF RoomInv, CountersAgree
<1> DEFINE d == told - Popped
<1>5. d \in 0..(W - 1) /\ told = Popped + d
  BY <1>1, <1>3, <1>4 DEF RoomInv
<1>6. cmds' = d  BY <1>2, <1>3, <1>4, <1>5, ModDifference
<1>7. Popped' = Popped  BY <1>2 DEF Popped
<1>8. last_cmds' \in 0..(W - 1)  BY <1>2, <1>3, DivMod
<1>9. processed' \in 0..(W - 1)  BY <1>2, <1>3
<1> HIDE DEF d
<1>10. Typed'  BY <1>1, <1>2, <1>5, <1>6, <1>8, <1>9 DEF Typed
<1>11. last_cmds' = (Popped' + cmds') % W  BY <1>2, <1>5, <1>6, <1>7
<1>12. reported' + (IF loop' = "popping" THEN processed' ELSE 0) = Popped'
  BY <1>2, <1>3, <1>4, <1>7
<1>13. CountersAgree'  BY <1>10, <1>11, <1>12 DEF CountersAgree
<1>14. RoomInv'
  <2>1. Popped' + cmds' <= told'  BY <1>2, <1>3, <1>5, <1>6, <1>7
  <2> QED  BY <1>1, <1>2, <2>1 DEF RoomInv
<1>15. OrderInv'  BY <1>1, <1>2, <1>7 DEF OrderInv
<1>16. AckedOnce' /\ RequestInv'  BY <1>2, RequestsKept
<1> QED  BY <1>13, <1>14, <1>15, <1>16 DEF IInv

\* A command is popped in the order it was queued, and posted.
LEMMA PopAndPostKeeps ==
    ASSUME IInv, PopAndPost
    PROVE  IInv'
<1>1. CountersAgree /\ Typed /\ RoomInv /\ OrderInv  BY DEF IInv, CountersAgree
<1>2. /\ loop = "popping" /\ cmds > 0 /\ ring # <<>>
      /\ posted' = Append(posted, Head(ring)) /\ ring' = Tail(ring)
      /\ cmds' = cmds - 1 /\ processed' = processed + 1
      /\ UNCHANGED <<queued, told, got, reported, loop, last_cmds, req, errors, spin, acks>>
  BY DEF PopAndPost, driverVars
<1>3. /\ queued \in Nat /\ told \in Nat /\ reported \in Nat /\ Popped \in Nat
      /\ W \in Nat \ {0} /\ W > RingCap /\ RingCap \in Nat /\ cmds \in Nat
      /\ processed \in Nat /\ Len(ring) \in Nat
  BY Numbers
<1>4. /\ Head(ring) = ring[1] /\ Head(ring) \in Cmds /\ Len(ring) >= 1
      /\ ring' \in Seq(Cmds) /\ Len(ring') = Len(ring) - 1
      /\ \A i \in 1..(Len(ring) - 1) : ring'[i] = ring[i + 1]
  BY <1>1, <1>2, SMTT(20) DEF Typed
<1>5. Popped' = Popped + 1  BY <1>2, <1>3, <1>4 DEF Popped
<1>6. Head(ring) = Popped + 1
  <2>1. 1 \in 1..Len(ring)  BY <1>3, <1>4
  <2> QED  BY <1>1, <1>4, <2>1 DEF OrderInv
<1>7. reported + processed = Popped  BY <1>1, <1>2 DEF CountersAgree
<1>8. cmds' \in 0..(W - 1) /\ processed' \in 0..(W - 1)
  BY <1>1, <1>2, <1>3, <1>7 DEF RoomInv
<1>9. /\ posted' \in Seq(Cmds) /\ Len(posted') = Len(posted) + 1
      /\ \A i \in 1..Len(posted) : posted'[i] = posted[i]
      /\ posted'[Len(posted) + 1] = Popped + 1
      /\ Len(posted) \in Nat
  BY <1>1, <1>2, <1>4, <1>6 DEF Typed
<1>10. Typed'
  <2>1. Len(ring') <= RingCap  BY <1>1, <1>3, <1>4 DEF Typed
  <2> QED  BY <1>1, <1>2, <1>4, <1>8, <1>9, <2>1 DEF Typed
<1>11. Popped' + cmds' = Popped + cmds  BY <1>2, <1>3, <1>5
<1>12. CountersAgree'
  <2>1. last_cmds' = (Popped' + cmds') % W  BY <1>1, <1>2, <1>11 DEF CountersAgree
  <2>2. reported' + (IF loop' = "popping" THEN processed' ELSE 0) = Popped'
    BY <1>2, <1>3, <1>5, <1>7
  <2> QED  BY <1>10, <2>1, <2>2 DEF CountersAgree
<1>13. RoomInv'  BY <1>1, <1>2, <1>11 DEF RoomInv
<1>14. OrderInv'
  <2>1. ASSUME NEW i \in 1..Len(ring') PROVE ring'[i] = Popped' + i
    <3>1. i + 1 \in 1..Len(ring) /\ i \in 1..(Len(ring) - 1)  BY <1>3, <1>4
    <3>2. ring[i + 1] = Popped + (i + 1)  BY <1>1, <3>1 DEF OrderInv
    <3> QED  BY <1>3, <1>4, <1>5, <3>1, <3>2
  <2>2. ASSUME NEW i \in 1..Len(posted')
        PROVE  posted'[i] <= Popped' /\ req'[posted'[i]].st = "none"
    <3>1. CASE i \in 1..Len(posted)
      <4>0. posted[i] \in Cmds  BY <1>1, <3>1 DEF Typed
      <4>1. posted[i] \in Nat  BY <4>0 DEF Cmds
      <4>2. posted[i] <= Popped /\ req[posted[i]].st = "none"
        BY <1>1, <3>1 DEF OrderInv
      <4> QED  BY <1>2, <1>3, <1>5, <1>9, <3>1, <4>1, <4>2
    <3>2. CASE i = Len(posted) + 1
      <4>1. Popped + 1 \in Cmds /\ Popped + 1 > Popped  BY <1>3, <1>4, <1>6
      <4>2. req[Popped + 1].st = "none"  BY <1>1, <4>1 DEF OrderInv
      <4> QED  BY <1>2, <1>3, <1>5, <1>9, <3>2, <4>2
    <3> QED  BY <1>9, <3>1, <3>2
  <2>3. ASSUME NEW i \in 1..Len(posted'), NEW j \in 1..Len(posted'),
               posted'[i] = posted'[j]
        PROVE  i = j
    <3>1. ASSUME NEW n \in 1..Len(posted)
          PROVE  posted[n] \in Nat /\ posted[n] < Popped + 1
      <4>0. posted[n] \in Cmds  BY <1>1 DEF Typed
      <4>1. posted[n] \in Nat  BY <4>0 DEF Cmds
      <4>2. posted[n] <= Popped  BY <1>1 DEF OrderInv
      <4> QED  BY <1>3, <4>1, <4>2
    <3>2. CASE i \in 1..Len(posted) /\ j \in 1..Len(posted)
      BY <1>1, <1>9, <2>3, <3>2 DEF OrderInv
    <3>3. CASE i \in 1..Len(posted) /\ j = Len(posted) + 1
      BY <1>3, <1>9, <2>3, <3>1, <3>3
    <3>4. CASE i = Len(posted) + 1 /\ j \in 1..Len(posted)
      BY <1>3, <1>9, <2>3, <3>1, <3>4
    <3> QED  BY <1>9, <3>2, <3>3, <3>4
  <2>4. ASSUME NEW c \in Cmds, c > Popped' PROVE req'[c].st = "none"
    <3>1. c > Popped  BY <1>3, <1>5, <2>4 DEF Cmds
    <3> QED  BY <1>1, <1>2, <3>1 DEF OrderInv
  <2> QED  BY <2>1, <2>2, <2>3, <2>4 DEF OrderInv
<1>15. AckedOnce' /\ RequestInv'  BY <1>2, RequestsKept
<1> QED  BY <1>12, <1>13, <1>14, <1>15 DEF IInv

\* The end of the loop, and the end of reading
LEMMA ReportKeeps ==
    ASSUME IInv, ReportProcessed \/ AsyncReadFails
    PROVE  IInv'
<1>1. CountersAgree /\ Typed /\ RoomInv /\ OrderInv  BY DEF IInv, CountersAgree
<1>2. /\ UNCHANGED <<queued, told, got, ring, last_cmds, cmds, processed, posted, req,
                     errors, spin, acks>>
      /\ loop' \in {"reading", "stopped"} /\ cmds = 0
      /\ \/ loop = "popping" /\ reported' = reported + processed
         \/ loop = "reading" /\ reported' = reported
  BY <1>1 DEF ReportProcessed, AsyncReadFails, driverVars, RoomInv
<1>3. /\ queued \in Nat /\ told \in Nat /\ reported \in Nat /\ Popped \in Nat
      /\ processed \in Nat /\ Popped <= queued /\ RingCap \in Nat
  BY Numbers
<1>4. Popped' = Popped  BY <1>2 DEF Popped
<1>5. reported' = Popped /\ reported' >= reported
  BY <1>1, <1>2, <1>3 DEF CountersAgree
<1>6. reported' \in 0..NCmds  BY <1>1, <1>3, <1>5, BoundAssumption DEF Typed
<1>7. Typed'  BY <1>1, <1>2, <1>6 DEF Typed
<1>8. CountersAgree'
  <2>1. last_cmds' = (Popped' + cmds') % W  BY <1>1, <1>2, <1>4 DEF CountersAgree
  <2>2. reported' + (IF loop' = "popping" THEN processed' ELSE 0) = Popped'
    BY <1>2, <1>3, <1>4, <1>5
  <2> QED  BY <1>7, <2>1, <2>2 DEF CountersAgree
<1>9. RoomInv'
  <2>1. reported' \in Nat  BY <1>3, <1>5
  <2> QED  BY <1>1, <1>2, <1>3, <1>4, <1>5, <2>1 DEF RoomInv
<1>10. OrderInv'  BY <1>1, <1>2, <1>4 DEF OrderInv
<1>11. AckedOnce' /\ RequestInv'  BY <1>2, RequestsKept
<1> QED  BY <1>8, <1>9, <1>10, <1>11 DEF IInv

-----------------------------------------------------------------------------
(* Requests and their acknowledgements *)

\* An acknowledgement that starts to wait comes after all that was sent before.
LEMMA SentGrows ==
    ASSUME Typed, spin = <<>>, NEW a \in Acks, spin' = <<a>>, got' = got,
           acks' = acks, NEW d \in Cmds
    PROVE  /\ Len(Sent(d)) \in Nat /\ Len(Sent(d))' = Len(Sent(d)) + 1
           /\ \A i \in 1..Len(Sent(d)) : Sent(d)'[i] = Sent(d)[i]
           /\ Sent(d)'[Len(Sent(d)) + 1] = a
<1> DEFINE X == got[d] \o acks
<1>1. got[d] \in Seq(Acks) /\ acks \in Seq(Acks)  BY DEF Typed
<1>2. X \in Seq(Acks)  BY <1>1
<1>3. Sent(d) = X \o <<>> /\ Sent(d)' = X \o <<a>>  BY DEF Sent
<1> HIDE DEF X
<1>4. X \o <<>> = X  BY <1>2
<1>5. /\ Len(X \o <<a>>) = Len(X) + 1 /\ Len(X) \in Nat
      /\ \A i \in 1..Len(X) : (X \o <<a>>)[i] = X[i]
      /\ (X \o <<a>>)[Len(X) + 1] = a
  BY <1>2
<1> QED  BY <1>3, <1>4, <1>5

\* A request not acknowledged yet that a query or a handler leaves as r: when it
\* goes, it is acknowledged, once, with the error it has by then.
LEMMA BecomesKeeps ==
    ASSUME IInv, NEW c \in Cmds, spin = <<>>, req[c].st # "acked",
           NEW r \in Reqs, r.st = "held", r.failed => r.err, Becomes(c, r),
           got' = got, acks' = acks
    PROVE  /\ req' \in [Cmds -> Reqs]
           /\ \A d \in Cmds : d # c => req'[d] = req[d]
           /\ spin' \in Seq(Acks) /\ Len(spin') <= 1
           /\ AckedOnce' /\ RequestInv'
<1> DEFINE R == Released(r)
<1>1. Typed /\ AckedOnce /\ RequestInv  BY DEF IInv, CountersAgree
<1>2. /\ R \in Reqs /\ R.open = r.open /\ R.err = r.err /\ R.failed = r.failed
      /\ R.st = IF r.open = 0 THEN "acked" ELSE "held"
  BY DEF Released, Reqs
<1>3. /\ req' = [req EXCEPT ![c] = R]
      /\ spin' = IF R.st = "acked" THEN <<AckOf(c, r)>> ELSE <<>>
  BY DEF Becomes
<1> HIDE DEF R
<1>4. /\ req' \in [Cmds -> Reqs] /\ req'[c] = R
      /\ \A d \in Cmds : d # c => req'[d] = req[d]
  BY <1>1, <1>2, <1>3 DEF Typed
<1>5. AcksOf(c) = {}  BY <1>1 DEF AckedOnce
<1>6. r.open \in Nat  BY DEF Reqs
<1>7. CASE r.open # 0
  <2>1. spin' = spin  BY <1>2, <1>3, <1>7
  <2>2. \A d \in Cmds : Sent(d)' = Sent(d) /\ AcksOf(d)' = AcksOf(d)
    BY <2>1 DEF Sent, AcksOf
  <2>3. AckedOnce'  BY <1>1, <1>2, <1>4, <1>5, <1>7, <2>2 DEF AckedOnce
  <2>4. RequestInv'
    BY <1>1, <1>2, <1>4, <1>5, <1>6, <1>7, <2>2 DEF RequestInv
  <2> QED  BY <1>1, <1>4, <2>1, <2>3, <2>4 DEF Typed
<1>8. CASE r.open = 0
  <2> DEFINE a == AckOf(c, r)
  <2>1. a \in Acks /\ a.id = c /\ a.err = r.err  BY DEF AckOf, Acks, Reqs
  <2>2. spin' = <<a>>  BY <1>2, <1>3, <1>8
  <2> HIDE DEF a
  <2>3. spin' \in Seq(Acks) /\ Len(spin') <= 1  BY <2>1, <2>2
  <2>4. ASSUME NEW d \in Cmds
        PROVE  /\ Len(Sent(d)) \in Nat /\ Len(Sent(d))' = Len(Sent(d)) + 1
               /\ \A i \in 1..Len(Sent(d)) : Sent(d)'[i] = Sent(d)[i]
               /\ Sent(d)'[Len(Sent(d)) + 1] = a
    BY <1>1, <2>1, <2>2, SentGrows
  <2>5. ASSUME NEW d \in Cmds, d # c
        PROVE  /\ AcksOf(d)' = AcksOf(d)
               /\ \A i \in AcksOf(d) : Sent(d)'[i] = Sent(d)[i]
    <3>1. AcksOf(d)' = {i \in 1..(Len(Sent(d)) + 1) : Sent(d)'[i].id = d}
      BY <2>4 DEF AcksOf
    <3>2. Sent(d)'[Len(Sent(d)) + 1].id # d  BY <2>1, <2>4, <2>5
    <3>3. \A i \in 1..(Len(Sent(d)) + 1) :
             i \in 1..Len(Sent(d)) \/ i = Len(Sent(d)) + 1
      BY <2>4
    <3>4. \A i \in 1..Len(Sent(d)) : i \in 1..(Len(Sent(d)) + 1)  BY <2>4
    <3> QED  BY <2>4, <3>1, <3>2, <3>3, <3>4 DEF AcksOf
  <2>6. AcksOf(c)' = {Len(Sent(c)) + 1}
    <3>1. AcksOf(c)' = {i \in 1..(Len(Sent(c)) + 1) : Sent(c)'[i].id = c}
      BY <2>4 DEF AcksOf
    <3>2. Sent(c)'[Len(Sent(c)) + 1].id = c  BY <2>1, <2>4
    <3>3. \A i \in 1..Len(Sent(c)) : Sent(c)'[i].id # c
      BY <1>5, <2>4 DEF AcksOf
    <3>4. \A i \in 1..(Len(Sent(c)) + 1) :
             i \in 1..Len(Sent(c)) \/ i = Len(Sent(c)) + 1
      BY <2>4
    <3>5. Len(Sent(c)) + 1 \in 1..(Len(Sent(c)) + 1)  BY <2>4
    <3> QED  BY <3>1, <3>2, <3>3, <3>4, <3>5
  <2>7. AckedOnce'
    BY <1>1, <1>2, <1>4, <1>8, <2>5, <2>6, ZenonT(30) DEF AckedOnce
  <2>8. RequestInv'
    <3> SUFFICES ASSUME NEW d \in Cmds
                 PROVE  /\ req'[d].open > 0 <=> req'[d].st = "held"
                        /\ req'[d].failed => req'[d].err
                        /\ \A i \in AcksOf(d)' : Sent(d)'[i].err = req'[d].err
      BY DEF RequestInv
    <3>1. CASE d = c
      BY <1>2, <1>4, <1>8, <2>1, <2>4, <2>6, <3>1
    <3>2. CASE d # c
      BY <1>1, <1>4, <2>5, <3>2 DEF RequestInv
    <3> QED  BY <3>1, <3>2
  <2> QED  BY <1>4, <2>3, <2>7, <2>8
<1> QED  BY <1>7, <1>8

\* What the handlers leave of a request is a request they hold, and its error is
\* not lost on the way.
LEMMA HeldType ==
    /\ \A n \in Nat : /\ Held(n) \in Reqs /\ Held(n).st = "held"
                      /\ Held(n).open = n /\ ~Held(n).failed
    /\ \A r \in Reqs, fails \in BOOLEAN :
          r.open > 0 /\ (r.failed => r.err) =>
             LET g == QueryGone(r, fails) IN
             /\ g \in Reqs /\ g.st = r.st
             /\ g.failed => g.err
<1>1. \A n \in Nat : /\ Held(n) \in Reqs /\ Held(n).st = "held"
                     /\ Held(n).open = n /\ ~Held(n).failed
  BY DEF Held, NewReq, Reqs
<1>2. ASSUME NEW r \in Reqs, NEW fails \in BOOLEAN, r.open > 0, r.failed => r.err
      PROVE  /\ QueryGone(r, fails) \in Reqs /\ QueryGone(r, fails).st = r.st
             /\ QueryGone(r, fails).failed => QueryGone(r, fails).err
  <2>1. /\ r.open - 1 \in Nat /\ (r.err \/ fails) \in BOOLEAN
        /\ (r.failed \/ fails) \in BOOLEAN
    BY <1>2 DEF Reqs
  <2> QED  BY <1>2, <2>1 DEF QueryGone, Reqs
<1> QED  BY <1>1, <1>2

\* The handler of the next command posted keeps the invariant.
LEMMA HandleKeeps ==
    ASSUME IInv, NEW h, NEW r \in Reqs, r.st = "held", r.failed => r.err,
           Handle(h, r)
    PROVE  IInv'
<1>1. CountersAgree /\ Typed /\ RoomInv /\ OrderInv  BY DEF IInv, CountersAgree
<1> DEFINE c == Head(posted)
<1>2. /\ spin = <<>> /\ posted # <<>> /\ posted' = Tail(posted)
      /\ Becomes(c, r)
      /\ UNCHANGED <<queued, told, got, ring, reported, loop, last_cmds, cmds,
                     processed, errors, acks>>
  BY DEF Handle, Free, driverVars, readVars
<1>3. /\ c = posted[1] /\ c \in Cmds /\ Len(posted) \in Nat /\ Len(posted) >= 1
      /\ posted' \in Seq(Cmds) /\ Len(posted') = Len(posted) - 1
      /\ \A i \in 1..(Len(posted) - 1) : posted'[i] = posted[i + 1]
  BY <1>1, <1>2 DEF Typed
<1>4. 1 \in 1..Len(posted)  BY <1>3
<1>5. req[c].st = "none" /\ c <= Popped  BY <1>1, <1>3, <1>4 DEF OrderInv
<1> HIDE DEF c
<1>6. /\ req' \in [Cmds -> Reqs]
      /\ \A d \in Cmds : d # c => req'[d] = req[d]
      /\ spin' \in Seq(Acks) /\ Len(spin') <= 1
      /\ AckedOnce' /\ RequestInv'
  BY <1>2, <1>3, <1>5, BecomesKeeps
<1>7. Typed'  BY <1>1, <1>2, <1>3, <1>6 DEF Typed
<1>8. Popped' = Popped  BY <1>2 DEF Popped
<1>9. CountersAgree'  BY <1>1, <1>2, <1>7, <1>8 DEF CountersAgree
<1>10. RoomInv'  BY <1>1, <1>2, <1>8 DEF RoomInv
<1>11. OrderInv'
  <2>1. ASSUME NEW i \in 1..Len(posted')
        PROVE  posted'[i] <= Popped' /\ req'[posted'[i]].st = "none"
    <3>1. i + 1 \in 1..Len(posted) /\ i \in 1..(Len(posted) - 1) /\ i + 1 # 1
      BY <1>3
    <3>a. posted \in Seq(Cmds)  BY <1>1 DEF Typed
    <3>b. posted[i + 1] \in Cmds  BY <3>a, <3>1
    <3>2. posted'[i] = posted[i + 1] /\ posted[i + 1] \in Cmds
      BY <1>3, <3>1, <3>b
    <3>3. posted[i + 1] # c  BY <1>1, <1>3, <1>4, <3>1 DEF OrderInv
    <3>4. posted[i + 1] <= Popped /\ req[posted[i + 1]].st = "none"
      BY <1>1, <3>1 DEF OrderInv
    <3> QED  BY <1>6, <1>8, <3>2, <3>3, <3>4
  <2>2. ASSUME NEW i \in 1..Len(posted'), NEW j \in 1..Len(posted'),
               posted'[i] = posted'[j]
        PROVE  i = j
    <3>1. /\ i + 1 \in 1..Len(posted) /\ i \in 1..(Len(posted) - 1)
          /\ j + 1 \in 1..Len(posted) /\ j \in 1..(Len(posted) - 1)
      BY <1>3
    <3>2. posted[i + 1] = posted[j + 1]  BY <1>3, <2>2, <3>1
    <3>3. i + 1 = j + 1  BY <1>1, <3>1, <3>2 DEF OrderInv
    <3> QED  BY <3>1, <3>3
  <2>3. ASSUME NEW d \in Cmds, d > Popped' PROVE req'[d].st = "none"
    <3>1. d # c
      <4>1. Popped \in Nat /\ c \in Nat /\ d \in Nat  BY <1>3, Numbers, SMTT(20) DEF Cmds
      <4> QED  BY <1>5, <1>8, <2>3, <4>1
    <3> QED  BY <1>1, <1>6, <1>8, <2>3, <3>1 DEF OrderInv
  <2> QED  BY <1>1, <1>2, <1>8, <2>1, <2>2, <2>3 DEF OrderInv
<1> QED  BY <1>6, <1>9, <1>10, <1>11 DEF IInv

\* The handlers of every operation keep the invariant.
LEMMA HandlePostedKeeps ==
    ASSUME IInv, HandlePosted
    PROVE  IInv'
<1>1. ASSUME posted # <<>> PROVE \A n \in Submits(Head(posted)) : n \in Nat
  <2>1. Head(posted) \in Cmds  BY <1>1 DEF IInv, CountersAgree, Typed
  <2>2. Len(Chain[Head(posted)]) \in Nat  BY <2>1, ChainAssumption
  <2> QED  BY <2>2 DEF Submits
<1>2. CASE HandleRead \/ HandleWrite
  <2>1. PICK n \in Nat, h \in {"read", "write"} : Handle(h, Held(n))
    BY <1>1, <1>2 DEF HandleRead, HandleWrite
  <2>2. Held(n) \in Reqs /\ Held(n).st = "held" /\ ~Held(n).failed  BY HeldType
  <2> QED  BY <2>1, <2>2, HandleKeeps
<1>3. CASE HandleFlush \/ HandleDiscard
  <2> DEFINE g == QueryGone(Held(1), FALSE)
  <2>1. PICK h \in {"flush", "discard"} : Handle(h, g)
    BY <1>3 DEF HandleFlush, HandleDiscard, FlushQuery, DiscardQuery, FlushReq,
                DiscardReq
  <2>2. /\ Held(1) \in Reqs /\ Held(1).st = "held" /\ Held(1).open = 1
        /\ ~Held(1).failed
    BY HeldType
  <2>3. Held(1).open > 0  BY <2>2
  <2>4. g \in Reqs /\ g.st = "held" /\ (g.failed => g.err)
    BY <2>2, <2>3, HeldType
  <2> HIDE DEF g
  <2> QED  BY <2>1, <2>4, HandleKeeps
<1>4. CASE HandleNotSupp
  <2> DEFINE n == [NewReq EXCEPT !.err = TRUE]
  <2>1. n \in Reqs /\ n.st = "held" /\ n.err  BY DEF NewReq, Reqs
  <2>2. Handle("not_supp", n)  BY <1>4 DEF HandleNotSupp
  <2> HIDE DEF n
  <2> QED  BY <2>1, <2>2, HandleKeeps
<1> QED  BY <1>2, <1>3, <1>4 DEF HandlePosted

\* The end of a query keeps the invariant, whichever of a request's it is.
LEMMA QueryDoneKeeps ==
    ASSUME IInv, NEW c \in Cmds, NEW fails \in BOOLEAN, QueryDone(c, fails)
    PROVE  IInv'
<1>1. CountersAgree /\ Typed /\ RoomInv /\ OrderInv /\ RequestInv
  BY DEF IInv, CountersAgree
<1> DEFINE r == QueryGone(req[c], fails)
<1>2. /\ spin = <<>> /\ req[c].open > 0 /\ Becomes(c, r)
      /\ fails => errors < MaxErrors
      /\ errors' = IF fails THEN errors + 1 ELSE errors
      /\ UNCHANGED <<queued, told, got, ring, reported, loop, last_cmds, cmds,
                     processed, posted, acks>>
  BY DEF QueryDone, Free, driverVars, readVars
<1>3. req[c] \in Reqs /\ req[c].st = "held" /\ (req[c].failed => req[c].err)
  BY <1>1, <1>2 DEF Typed, RequestInv
<1>4. r \in Reqs /\ r.st = "held" /\ (r.failed => r.err)
  BY <1>2, <1>3, HeldType
<1> HIDE DEF r
<1>5. /\ req' \in [Cmds -> Reqs]
      /\ \A d \in Cmds : d # c => req'[d] = req[d]
      /\ spin' \in Seq(Acks) /\ Len(spin') <= 1
      /\ AckedOnce' /\ RequestInv'
  BY <1>2, <1>3, <1>4, BecomesKeeps
<1>6. errors' \in 0..MaxErrors  BY <1>1, <1>2, BoundAssumption DEF Typed
<1>7. Typed'  BY <1>1, <1>2, <1>5, <1>6 DEF Typed
<1>8. Popped' = Popped  BY <1>2 DEF Popped
<1>9. CountersAgree'  BY <1>1, <1>2, <1>7, <1>8 DEF CountersAgree
<1>10. RoomInv'  BY <1>1, <1>2, <1>8 DEF RoomInv
<1>11. OrderInv'
  <2>1. ASSUME NEW i \in 1..Len(posted)
        PROVE  posted[i] \in Cmds /\ req'[posted[i]].st = "none"
    <3>1. posted[i] \in Cmds  BY <1>1 DEF Typed
    <3>2. req[posted[i]].st = "none"  BY <1>1 DEF OrderInv
    <3> QED  BY <1>3, <1>5, <3>1, <3>2
  <2>2. ASSUME NEW d \in Cmds, d > Popped PROVE req'[d].st = "none"
    BY <1>1, <1>3, <1>5, <2>2 DEF OrderInv
  <2> QED  BY <1>1, <1>2, <1>8, <2>1, <2>2 DEF OrderInv
<1> QED  BY <1>5, <1>9, <1>10, <1>11 DEF IInv

\* Steps that only move acknowledgements
LEMMA MovesKeep ==
    ASSUME IInv, got' \in [Cmds -> Seq(Acks)], acks' \in Seq(Acks),
           Len(acks') <= AckCap, spin' \in Seq(Acks), Len(spin') <= 1,
           UNCHANGED <<queued, told, ring, reported, loop, last_cmds, cmds, processed,
                       posted, req, errors>>,
           AckedOnce', RequestInv'
    PROVE  IInv'
<1>1. CountersAgree /\ Typed /\ RoomInv /\ OrderInv  BY DEF IInv, CountersAgree
<1>2. Typed'  BY <1>1 DEF Typed
<1>3. Popped' = Popped  BY DEF Popped
<1>4. CountersAgree'  BY <1>1, <1>2, <1>3 DEF CountersAgree
<1>5. RoomInv'  BY <1>1, <1>3 DEF RoomInv
<1>6. OrderInv'  BY <1>1, <1>3 DEF OrderInv
<1> QED  BY <1>4, <1>5, <1>6 DEF IInv

\* An acknowledgement that waited for room goes into the ring.
LEMMA AcknowledgeKeeps ==
    ASSUME IInv, Acknowledge
    PROVE  IInv'
<1>1. Typed  BY DEF IInv, CountersAgree
<1>2. /\ spin # <<>> /\ Len(acks) < AckCap
      /\ acks' = Append(acks, spin[1]) /\ spin' = <<>>
      /\ UNCHANGED <<queued, told, got, ring, reported, loop, last_cmds, cmds,
                     processed, posted, req, errors>>
  BY DEF Acknowledge, driverVars, readVars
<1>a. /\ spin \in Seq(Acks) /\ Len(spin) <= 1
      /\ acks \in Seq(Acks) /\ got \in [Cmds -> Seq(Acks)]
  BY <1>1 DEF Typed
<1>b. Len(spin) = 1 /\ spin[1] \in Acks
  <2>1. Len(spin) \in Nat /\ Len(spin) # 0
    <3>1. spin \in Seq(Acks) /\ spin # <<>>  BY <1>2, <1>a
    <3> QED  BY <3>1
  <2>2. Len(spin) <= 1 /\ spin \in Seq(Acks)  BY <1>a
  <2>3. Len(spin) = 1
    <3> DEFINE n == Len(spin)
    <3>1. n \in Nat /\ n # 0 /\ n <= 1  BY <2>1, <2>2
    <3> HIDE DEF n
    <3>2. n = 1  BY <3>1
    <3> QED  BY <3>2 DEF n
  <2>4. 1 \in 1..Len(spin)  BY <2>3
  <2>5. spin[1] \in Acks  BY <2>2, <2>4
  <2> QED  BY <2>3, <2>5
<1>3. /\ spin \in Seq(Acks) /\ Len(spin) = 1 /\ spin[1] \in Acks
      /\ acks \in Seq(Acks) /\ got \in [Cmds -> Seq(Acks)]
  BY <1>a, <1>b
<1>4. spin = <<spin[1]>>  BY <1>3
<1>5. acks' \in Seq(Acks) /\ Len(acks') <= AckCap
  BY <1>2, <1>3, CapAssumption
<1>6. ASSUME NEW d \in Cmds PROVE Sent(d)' = Sent(d)
  <2> DEFINE g == got[d]
             a == spin[1]
  <2>1. g \in Seq(Acks) /\ a \in Acks  BY <1>3
  <2>2. Sent(d)' = g \o Append(acks, a) \o <<>>  BY <1>2 DEF Sent
  <2>3. Sent(d) = g \o acks \o <<a>>  BY <1>4 DEF Sent
  <2> HIDE DEF g, a
  <2>4. /\ g \o Append(acks, a) \in Seq(Acks) /\ g \o acks \in Seq(Acks)
        /\ g \o acks \o <<a>> \in Seq(Acks)
    BY <1>3, <2>1
  <2>5. g \o Append(acks, a) \o <<>> = g \o Append(acks, a)  BY <2>4
  <2>6. Len(g \o Append(acks, a)) = Len(g \o acks \o <<a>>)  BY <1>3, <2>1
  <2>7. \A i \in 1..Len(g \o acks \o <<a>>) :
           (g \o Append(acks, a))[i] = (g \o acks \o <<a>>)[i]
    BY <1>3, <2>1
  <2>8. g \o Append(acks, a) = g \o acks \o <<a>>  BY <2>4, <2>6, <2>7
  <2> QED  BY <2>2, <2>3, <2>5, <2>8
<1>7. \A d \in Cmds : AcksOf(d)' = AcksOf(d)  BY <1>6 DEF AcksOf
<1>8. AckedOnce' /\ RequestInv'
  BY <1>2, <1>6, <1>7 DEF IInv, AckedOnce, RequestInv
<1> QED  BY <1>2, <1>3, <1>5, <1>8, MovesKeep

\* The driver takes an acknowledgement.
LEMMA DriverTakeKeeps ==
    ASSUME IInv, DriverTake
    PROVE  IInv'
<1>1. Typed /\ AckedOnce /\ RequestInv  BY DEF IInv, CountersAgree
<1>2. /\ acks # <<>>
      /\ got' = [got EXCEPT ![Head(acks).id] = Append(got[Head(acks).id], Head(acks))]
      /\ acks' = Tail(acks)
      /\ UNCHANGED <<queued, told, ring, reported, loop, last_cmds, cmds,
                     processed, posted, req, errors, spin>>
  BY DEF DriverTake, readVars
<1>3. /\ acks \in Seq(Acks) /\ spin \in Seq(Acks) /\ Len(acks) <= AckCap
      /\ got \in [Cmds -> Seq(Acks)] /\ Len(spin) <= 1
  BY <1>1 DEF Typed
<1>a. /\ Head(acks) \in Acks
      /\ acks' \in Seq(Acks) /\ Len(acks') = Len(acks) - 1 /\ Len(acks) \in Nat
  BY <1>2, <1>3
<1>b. Len(acks') <= AckCap  BY <1>3, <1>a, CapAssumption
<1>k. PICK h \in Acks, k \in Cmds : h = Head(acks) /\ k = h.id
  BY <1>a DEF Acks
<1>4. got' \in [Cmds -> Seq(Acks)] /\ got' = [got EXCEPT ![k] = Append(got[k], h)]
  BY <1>2, <1>3, <1>k
<1>5. Sent(k)' = Sent(k)
  <2>1. got'[k] = Append(got[k], h)  BY <1>3, <1>4
  <2>2. got[k] \in Seq(Acks)  BY <1>3
  <2>3. Append(got[k], Head(acks)) \o Tail(acks) = got[k] \o acks
    BY <1>2, <1>3, <2>2, MoveHead
  <2>4. got'[k] \o acks' = got[k] \o acks  BY <1>2, <1>k, <2>1, <2>3
  <2>5. spin' = spin  BY <1>2
  <2>6. Sent(k)' = got'[k] \o acks' \o spin'  BY DEF Sent
  <2> QED  BY <2>4, <2>5, <2>6 DEF Sent
<1>6. ASSUME NEW d \in Cmds, d # k
      PROVE  /\ \A i \in AcksOf(d)' :
                   /\ (IF i <= Len(got[d]) THEN i ELSE i + 1) \in AcksOf(d)
                   /\ Sent(d)'[i] = Sent(d)[IF i <= Len(got[d]) THEN i ELSE i + 1]
             /\ \A i \in AcksOf(d) :
                   (IF i <= Len(got[d]) THEN i ELSE i - 1) \in AcksOf(d)'
  <2> DEFINE g == got[d]
             X == g \o acks \o spin
             Y == g \o Tail(acks) \o spin
  <2>1. g \in Seq(Acks) /\ got'[d] = g  BY <1>3, <1>4, <1>6
  <2>2. Sent(d) = X /\ Sent(d)' = Y  BY <1>2, <2>1 DEF Sent
  <2>a. acks # <<>> /\ acks \in Seq(Acks) /\ spin \in Seq(Acks) /\ g \in Seq(Acks)
    BY <1>2, <1>3, <2>1
  <2> HIDE DEF g
  <2>b. /\ Len(g \o Tail(acks) \o spin) = Len(g \o acks \o spin) - 1
        /\ (g \o acks \o spin)[Len(g) + 1] = Head(acks)
        /\ \A i \in 1..Len(g \o Tail(acks) \o spin) :
              (g \o Tail(acks) \o spin)[i] =
                 (g \o acks \o spin)[IF i <= Len(g) THEN i ELSE i + 1]
    BY <2>a, DropHead
  <2>3. /\ Len(Y) = Len(X) - 1
        /\ X[Len(g) + 1] = h
        /\ \A i \in 1..Len(Y) : Y[i] = X[IF i <= Len(g) THEN i ELSE i + 1]
    BY <1>k, <2>b
  <2>4. /\ Len(g) \in Nat /\ X \in Seq(Acks) /\ Len(X) >= Len(g) + 1
    BY <2>a
  <2> HIDE DEF X, Y
  <2>5. ASSUME NEW i \in 1..Len(Y), Y[i].id = d
        PROVE  LET j == IF i <= Len(g) THEN i ELSE i + 1 IN
               j \in 1..Len(X) /\ X[j].id = d /\ Y[i] = X[j]
    BY <2>3, <2>4, <2>5
  <2>6. ASSUME NEW i \in 1..Len(X), X[i].id = d
        PROVE  LET j == IF i <= Len(g) THEN i ELSE i - 1 IN
               j \in 1..Len(Y) /\ Y[j].id = d
    <3>1. i # Len(g) + 1  BY <1>k, <1>6, <2>3, <2>6
    <3>2. CASE i <= Len(g)
      <4>1. i \in 1..Len(Y)  BY <2>3, <2>4, <3>2
      <4> QED  BY <2>3, <2>6, <3>2, <4>1
    <3>3. CASE i > Len(g) + 1
      <4>1. i - 1 \in 1..Len(Y) /\ ~(i <= Len(g)) /\ ~(i - 1 <= Len(g))
            /\ (i - 1) + 1 = i
        BY <2>3, <2>4, <3>3
      <4>2. Y[i - 1] = X[(i - 1) + 1]  BY <2>3, <4>1
      <4> QED  BY <2>6, <4>1, <4>2
    <3> QED  BY <2>4, <3>1, <3>2, <3>3
  <2> QED  BY <2>2, <2>5, <2>6 DEF AcksOf, g
<1>7. AckedOnce'
  <2> SUFFICES ASSUME NEW d \in Cmds
               PROVE  IF req[d].st = "acked"
                      THEN \E i \in AcksOf(d)' : AcksOf(d)' = {i}
                      ELSE AcksOf(d)' = {}
    BY <1>2 DEF AckedOnce
  <2>1. CASE d = k
    <3>1. AcksOf(d)' = AcksOf(d)  BY <1>5, <2>1 DEF AcksOf
    <3> QED  BY <1>1, <3>1 DEF AckedOnce
  <2>2. CASE d # k /\ req[d].st # "acked"
    <3>1. AcksOf(d) = {}  BY <1>1, <2>2 DEF AckedOnce
    <3> QED  BY <1>6, <2>2, <3>1
  <2>3. CASE d # k /\ req[d].st = "acked"
    <3>1. PICK i \in AcksOf(d) : AcksOf(d) = {i}  BY <1>1, <2>3 DEF AckedOnce
    <3> DEFINE L == Len(got[d])
               j == IF i <= L THEN i ELSE i - 1
    <3>2. j \in AcksOf(d)'  BY <1>6, <2>3, <3>1
    <3>3. ASSUME NEW m \in AcksOf(d)' PROVE m = j
      <4>1. (IF m <= L THEN m ELSE m + 1) = i  BY <1>6, <2>3, <3>1
      <4>2. L \in Nat  BY <1>3
      <4>3. m \in Int  BY DEF AcksOf
      <4> HIDE DEF L
      <4> QED  BY <4>1, <4>2, <4>3
    <3> QED  BY <2>3, <3>2, <3>3
  <2> QED  BY <2>1, <2>2, <2>3
<1>8. RequestInv'
  <2> SUFFICES ASSUME NEW d \in Cmds, NEW i \in AcksOf(d)'
               PROVE  Sent(d)'[i].err = req[d].err
    BY <1>1, <1>2 DEF RequestInv
  <2>1. CASE d = k
    <3>1. AcksOf(d)' = AcksOf(d) /\ Sent(d)' = Sent(d)  BY <1>5, <2>1 DEF AcksOf
    <3> QED  BY <1>1, <3>1 DEF RequestInv
  <2>2. CASE d # k
    <3>1. PICK j \in AcksOf(d) : Sent(d)'[i] = Sent(d)[j]  BY <1>6, <2>2
    <3> QED  BY <1>1, <3>1 DEF RequestInv
  <2> QED  BY <2>1, <2>2
<1> QED  BY <1>2, <1>3, <1>4, <1>a, <1>b, <1>7, <1>8, MovesKeep

-----------------------------------------------------------------------------
(* Theorems *)

\* A slave that has just started, with empty rings
LEMMA InitIInv == Init => IInv
<1> SUFFICES ASSUME Init PROVE IInv
  OBVIOUS
<1>1. /\ queued = 0 /\ told = 0 /\ ring = <<>> /\ reported = 0
      /\ loop = "reading" /\ last_cmds = 0 /\ cmds = 0 /\ processed = 0
      /\ posted = <<>> /\ errors = 0 /\ spin = <<>> /\ acks = <<>>
      /\ got = [c \in Cmds |-> <<>>]
  BY DEF Init
<1>2. /\ W \in Nat \ {0} /\ RingCap \in Nat /\ AckCap \in Nat /\ NCmds \in Nat
      /\ MaxErrors \in Nat
  BY CapAssumption, WAssumption, BoundAssumption
<1>3. req \in [Cmds -> Reqs]
      /\ \A c \in Cmds : /\ req[c].st = "none" /\ req[c].open = 0 /\ ~req[c].failed
  BY DEF Init, NewReq, Reqs
<1>a. Len(<<>>) = 0  OBVIOUS
<1>b. Len(ring) = 0  BY <1>1, <1>a
<1>4. Popped = 0
  <2>1. queued = 0  BY <1>1
  <2>2. queued - Len(ring) = 0 - 0  BY <1>b, <2>1
  <2> QED  BY <2>2 DEF Popped
<1>5. Typed
  BY <1>1, <1>2, <1>3 DEF Typed
<1>6. CountersAgree
  <2>1. 0 % W = 0  BY <1>2
  <2> QED  BY <1>1, <1>4, <1>5, <2>1 DEF CountersAgree
<1>7. RoomInv  BY <1>1, <1>2, <1>4 DEF RoomInv
<1>8. OrderInv  BY <1>1, <1>3 DEF OrderInv
<1>9. \A c \in Cmds : AcksOf(c) = {}
  <2> SUFFICES ASSUME NEW c \in Cmds PROVE AcksOf(c) = {}
    OBVIOUS
  <2>1. Sent(c) = <<>> \o <<>> \o <<>>  BY <1>1 DEF Sent
  <2>2. Len(Sent(c)) = 0  BY <2>1
  <2> QED  BY <2>2 DEF AcksOf
<1>10. AckedOnce /\ RequestInv  BY <1>3, <1>9 DEF AckedOnce, RequestInv
<1> QED  BY <1>6, <1>7, <1>8, <1>10 DEF IInv

\* Every step of the driver, the event loop and the target keeps the invariant.
LEMMA NextIInv == IInv /\ [Next]_vars => IInv'
<1> SUFFICES ASSUME IInv, [Next]_vars PROVE IInv'
  OBVIOUS
<1>1. CASE DriverQueue  BY <1>1, DriverQueueKeeps
<1>2. CASE DriverAnnounce  BY <1>2, DriverAnnounceKeeps
<1>3. CASE DriverTake  BY <1>3, DriverTakeKeeps
<1>4. CASE AsyncRead  BY <1>4, AsyncReadKeeps
<1>5. CASE PopAndPost  BY <1>5, PopAndPostKeeps
<1>6. CASE ReportProcessed \/ AsyncReadFails  BY <1>6, ReportKeeps
<1>7. CASE HandlePosted  BY <1>7, HandlePostedKeeps
<1>8. CASE Acknowledge  BY <1>8, AcknowledgeKeeps
<1>9. CASE Target
  BY <1>9, QueryDoneKeeps DEF Target, ReadQueryDone, WriteQueryDone
<1>10. CASE UNCHANGED vars
  <2>1. UNCHANGED <<queued, told, got, ring, reported, loop, last_cmds, cmds,
                    processed, posted, req, errors, spin, acks>>
    BY <1>10 DEF vars, driverVars, readVars
  <2>2. AckedOnce' /\ RequestInv'  BY <2>1, RequestsKept
  <2>3. /\ got' \in [Cmds -> Seq(Acks)] /\ acks' \in Seq(Acks)
        /\ Len(acks') <= AckCap /\ spin' \in Seq(Acks) /\ Len(spin') <= 1
    BY <2>1 DEF IInv, CountersAgree, Typed
  <2> QED  BY <2>1, <2>2, <2>3, MovesKeep
<1> QED
  BY <1>1, <1>2, <1>3, <1>4, <1>5, <1>6, <1>7, <1>8, <1>9, <1>10 DEF Next, Loop

\* The inductive invariant holds for any number of commands, capacities and width
\* of the counters.
THEOREM Invariance == Spec => []IInv
BY InitIInv, NextIInv, PTL DEF Spec

\* However often the counters wrap, the process pops exactly the commands that were
\* announced and reports exactly those it popped, as long as a ring holds fewer
\* commands than the counters can count.
THEOREM CountersRight == Spec => []CountersAgree
<1>1. IInv => CountersAgree  BY DEF IInv
<1> QED  BY <1>1, Invariance, PTL

\* No command is acknowledged twice, none before its last query is gone, and no
\* acknowledgement is lost at a full ring.
THEOREM Acknowledged == Spec => []AckedOnce
<1>1. IInv => AckedOnce  BY DEF IInv
<1> QED  BY <1>1, Invariance, PTL

\* An acknowledgement without an error means that no query of the command failed
\* and none is under way.
THEOREM Truthful == Spec => []AckTruthful
<1>1. IInv => AckTruthful
  <2> SUFFICES ASSUME IInv, NEW c \in Cmds, NEW i \in AcksOf(c)
               PROVE  req[c].open = 0 /\ (req[c].failed => Sent(c)[i].err)
    BY DEF AckTruthful
  <2>1. AckedOnce /\ RequestInv /\ req[c].open \in Nat
    BY DEF IInv, CountersAgree, Typed, Reqs
  <2>2. req[c].st = "acked"  BY <2>1 DEF AckedOnce
  <2>3. ~(req[c].open > 0)  BY <2>1, <2>2 DEF RequestInv
  <2> QED  BY <2>1, <2>3 DEF RequestInv
<1> QED  BY <1>1, Invariance, PTL

=============================================================================
