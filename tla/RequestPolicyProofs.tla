------------------------ MODULE RequestPolicyProofs -------------------------
(***************************************************************************)
(* The memory of items is the end of the client's own book, for any keys,  *)
(* courses and limit; so a client can tell from its own calls which        *)
(* requests are answered, which go to the server and which end the process.*)
(***************************************************************************)
EXTENDS RequestPolicy, SequenceTheorems, TLAPS

\* Items, one of a key.
IsBook(s) ==
  /\ s \in Seq(Items)
  /\ \A i, j \in DOMAIN s : s[i].key = s[j].key => i = j

\* t is the last part of s, all but the first d items.
IsEnd(t, s, d) ==
  /\ t \in Seq(Items) /\ Len(s) = Len(t) + d /\ Len(t) <= ItemLimit
  /\ d > 0 => Len(t) = ItemLimit
  /\ \A j \in 1 .. Len(t) : t[j] = s[j + d]

\* What is left when one item goes.
LEMMA RemoveAtValues ==
  ASSUME NEW s \in Seq(Items), NEW n \in 1 .. Len(s)
  PROVE  /\ RemoveAt(s, n) \in Seq(Items) /\ Len(RemoveAt(s, n)) = Len(s) - 1
         /\ \A j \in 1 .. Len(s) - 1 : RemoveAt(s, n)[j] = IF j < n THEN s[j] ELSE s[j + 1]
<1> DEFINE front == SubSeq(s, 1, n - 1)
           back == SubSeq(s, n + 1, Len(s))
           w == RemoveAt(s, n)
<1>1. front \in Seq(Items) /\ Len(front) = n - 1 /\ \A j \in 1 .. n - 1 : front[j] = s[j]
  OBVIOUS
<1>2. back \in Seq(Items) /\ Len(back) = Len(s) - n /\ \A j \in 1 .. Len(s) - n : back[j] = s[n + j]
  OBVIOUS
<1>3. w = front \o back
  BY DEF RemoveAt
<1> HIDE DEF front, back, w
<1>4. /\ w \in Seq(Items) /\ Len(w) = Len(front) + Len(back)
      /\ \A j \in 1 .. Len(front) + Len(back) :
           w[j] = IF j <= Len(front) THEN front[j] ELSE back[j - Len(front)]
  <2> DEFINE c == front \o back
  <2>1. /\ c \in Seq(Items) /\ Len(c) = Len(front) + Len(back)
        /\ \A j \in 1 .. Len(front) + Len(back) :
             c[j] = IF j <= Len(front) THEN front[j] ELSE back[j - Len(front)]
    BY <1>1, <1>2, ConcatProperties
  <2>2. w = c
    BY <1>3
  <2> HIDE DEF c
  <2> QED
    BY <2>1, <2>2
<1>5. Len(s) \in Nat /\ n \in Nat /\ Len(w) = Len(s) - 1
  BY <1>1, <1>2, <1>4
<1>6. ASSUME NEW j \in 1 .. Len(s) - 1
      PROVE  w[j] = IF j < n THEN s[j] ELSE s[j + 1]
  <2>1. CASE j < n
    <3>1. j \in 1 .. n - 1 /\ j \in 1 .. Len(front) + Len(back) /\ j <= Len(front)
      BY <1>1, <1>2, <1>5, <2>1
    <3> QED
      BY <1>1, <1>4, <2>1, <3>1
  <2>2. CASE ~(j < n)
    <3>1. j \in 1 .. Len(front) + Len(back) /\ ~(j <= Len(front)) /\ j - Len(front) \in 1 .. Len(s) - n
      BY <1>1, <1>2, <1>5, <2>2
    <3>2. w[j] = back[j - Len(front)] /\ n + (j - Len(front)) = j + 1
      BY <1>1, <1>4, <1>5, <3>1
    <3> QED
      BY <1>2, <2>2, <3>1, <3>2
  <2> QED
    BY <2>1, <2>2
<1> QED
  BY <1>4, <1>5, <1>6 DEF w

\* The item of a key is where the key is.
LEMMA OnePlace ==
  ASSUME NEW s, IsBook(s), NEW n \in 1 .. Len(s), NEW k, s[n].key = k
  PROVE  Holds(s, k) /\ ItemOf(s, k) = s[n] /\ Without(s, k) = RemoveAt(s, n)
<1>1. DOMAIN s = 1 .. Len(s)
  BY DEF IsBook
<1>2. n \in DOMAIN s /\ \E i \in DOMAIN s : s[i].key = k
  BY <1>1
<1>3. (CHOOSE i \in DOMAIN s : s[i].key = k) = n
  BY <1>2 DEF IsBook
<1> QED
  BY <1>2, <1>3 DEF Holds, ItemOf, Without

\* An item of a key that is in the book goes to its end.
LEMMA BookedAgain ==
  ASSUME NEW s, IsBook(s), NEW item \in Items, NEW n \in 1 .. Len(s), s[n].key = item.key
  PROVE  /\ IsBook(Booked(s, item)) /\ Len(Booked(s, item)) = Len(s)
         /\ Booked(s, item)[Len(s)] = item
         /\ \A j \in 1 .. Len(s) - 1 : Booked(s, item)[j] = IF j < n THEN s[j] ELSE s[j + 1]
<1> DEFINE w == RemoveAt(s, n)
           b == Booked(s, item)
<1>1. s \in Seq(Items) /\ Len(s) \in Nat /\ DOMAIN s = 1 .. Len(s)
  BY DEF IsBook
<1>2. /\ w \in Seq(Items) /\ Len(w) = Len(s) - 1
      /\ \A j \in 1 .. Len(s) - 1 : w[j] = IF j < n THEN s[j] ELSE s[j + 1]
  BY <1>1, RemoveAtValues
<1>3. b = Append(w, item)
  BY OnePlace DEF Booked
<1> HIDE DEF w
<1>4. /\ b \in Seq(Items) /\ Len(b) = Len(s) /\ DOMAIN b = 1 .. Len(s) /\ b[Len(s)] = item
      /\ \A j \in 1 .. Len(s) - 1 : b[j] = IF j < n THEN s[j] ELSE s[j + 1]
  <2> HIDE DEF b
  <2>1. /\ b \in Seq(Items) /\ Len(b) = Len(w) + 1 /\ b[Len(w) + 1] = item
        /\ \A j \in 1 .. Len(w) : b[j] = w[j]
    BY <1>2, <1>3, AppendProperties
  <2>2. Len(w) + 1 = Len(s)
    BY <1>1, <1>2
  <2>3. DOMAIN b = 1 .. Len(s)
    BY <2>1, <2>2
  <2> QED
    BY <1>2, <1>3, <2>1, <2>2, <2>3
<1> HIDE DEF b
<1>5. ASSUME NEW i \in DOMAIN b, NEW j \in DOMAIN b, b[i].key = b[j].key PROVE i = j
  <2> DEFINE at(l) == IF l = Len(s) THEN n ELSE IF l < n THEN l ELSE l + 1
  <2>1. i \in 1 .. Len(s) /\ j \in 1 .. Len(s)
    BY <1>4
  <2>2. at(i) \in DOMAIN s /\ at(j) \in DOMAIN s
    BY <1>1, <2>1
  <2>3. \A l \in 1 .. Len(s) : b[l].key = s[at(l)].key
    <3> SUFFICES ASSUME NEW l \in 1 .. Len(s) PROVE b[l].key = s[at(l)].key
      OBVIOUS
    <3>1. CASE l = Len(s)
      BY <1>4, <3>1
    <3>2. CASE l # Len(s)
      <4>1. l \in 1 .. Len(s) - 1
        <5>1. Len(s) \in Int /\ l \in Int /\ 1 <= l /\ l <= Len(s) /\ l # Len(s)
          BY <1>1, <3>2
        <5>2. \A x, y \in Int : 1 <= x /\ x <= y /\ x # y => x \in 1 .. y - 1
          OBVIOUS
        <5> QED
          BY <5>1, <5>2
      <4> QED
        BY <1>4, <3>2, <4>1
    <3> QED
      BY <3>1, <3>2
  <2>4. at(i) = at(j)
    <3>1. s[at(i)].key = s[at(j)].key
      BY <1>5, <2>1, <2>3
    <3> HIDE DEF at
    <3> QED
      BY <2>2, <3>1 DEF IsBook
  <2> QED
    BY <1>1, <2>1, <2>4
<1> QED
  BY <1>4, <1>5 DEF IsBook, b

\* An item of another key is added.
LEMMA BookedNew ==
  ASSUME NEW s, IsBook(s), NEW item \in Items, ~Holds(s, item.key)
  PROVE  /\ IsBook(Booked(s, item)) /\ Len(Booked(s, item)) = Len(s) + 1
         /\ Booked(s, item)[Len(s) + 1] = item
         /\ \A j \in 1 .. Len(s) : Booked(s, item)[j] = s[j]
<1> DEFINE b == Booked(s, item)
<1>1. s \in Seq(Items) /\ Len(s) \in Nat /\ DOMAIN s = 1 .. Len(s)
  BY DEF IsBook
<1>2. b = Append(s, item)
  BY DEF Booked, Without
<1>3. /\ b \in Seq(Items) /\ Len(b) = Len(s) + 1 /\ DOMAIN b = 1 .. Len(s) + 1
      /\ b[Len(s) + 1] = item /\ \A j \in 1 .. Len(s) : b[j] = s[j]
  BY <1>1, <1>2
<1> HIDE DEF b
<1>4. \A i, j \in DOMAIN b : b[i].key = b[j].key => i = j
  BY <1>1, <1>3 DEF IsBook, Holds
<1> QED
  BY <1>3, <1>4 DEF IsBook, b

\* What setValue leaves is what was booked, without the oldest if that is too much.
LEMMA UsedIsBooked ==
  ASSUME NEW s, NEW item
  PROVE  Used(s, item) = IF Len(Booked(s, item)) > ItemLimit THEN Tail(Booked(s, item)) ELSE Booked(s, item)
BY DEF Used, Booked

\* The newest items are the end of a book.
LEMMA NewestIsEnd ==
  ASSUME NEW s, IsBook(s)
  PROVE  \E d \in Nat : IsEnd(Newest(s), s, d)
<1>1. s \in Seq(Items) /\ Len(s) \in Nat /\ ItemLimit \in Nat \ {0}
  BY StoreAssumption DEF IsBook
<1>2. CASE Len(s) > ItemLimit
  <2> DEFINE d == Len(s) - ItemLimit
             t == SubSeq(s, d + 1, Len(s))
  <2>1. d \in Nat /\ Newest(s) = t
    BY <1>1, <1>2 DEF Newest
  <2>2. t \in Seq(Items) /\ Len(t) = ItemLimit /\ \A j \in 1 .. ItemLimit : t[j] = s[j + d]
    <3>1. /\ d + 1 \in Int /\ Len(s) \in Int /\ d + 1 <= Len(s) /\ Len(s) - (d + 1) + 1 = ItemLimit
          /\ \A i \in d + 1 .. Len(s) : s[i] \in Items
      BY <1>1, <1>2
    <3>2. /\ t \in Seq(Items) /\ Len(t) = ItemLimit
          /\ \A i \in 1 .. ItemLimit : t[i] = s[d + 1 + i - 1]
      <4>1. PICK m \in Int, n \in Int : m = d + 1 /\ n = Len(s)
        BY <3>1
      <4> HIDE DEF d
      <4>2. m <= n /\ n - m + 1 = ItemLimit /\ t = SubSeq(s, m, n) /\ \A i \in m .. n : s[i] \in Items
        BY <3>1, <4>1
      <4>3. /\ t \in Seq(Items) /\ Len(t) = n - m + 1 /\ \A i \in 1 .. n - m + 1 : t[i] = s[m + i - 1]
        <5> HIDE DEF t
        <5> QED
          BY <4>2, SubSeqProperties
      <4> QED
        BY <4>1, <4>2, <4>3
    <3>3. \A j \in 1 .. ItemLimit : d + 1 + j - 1 = j + d
      BY <1>1
    <3> QED
      BY <3>2, <3>3
  <2> HIDE DEF t
  <2>3. Len(s) = Len(t) + d /\ Len(t) <= ItemLimit
    BY <1>1, <2>2
  <2> HIDE DEF d
  <2> QED
    BY <2>1, <2>2, <2>3 DEF IsEnd
<1>3. CASE ~(Len(s) > ItemLimit)
  <2>1. Newest(s) = s
    BY <1>3 DEF Newest
  <2>2. \A j \in 1 .. Len(s) : s[j] = s[j + 0]
    OBVIOUS
  <2>3. IsEnd(s, s, 0)
    BY <1>1, <1>3, <2>2 DEF IsEnd
  <2> QED
    BY <2>1, <2>3
<1> QED
  BY <1>2, <1>3

\* There is one such end.
LEMMA EndIsNewest ==
  ASSUME NEW s, IsBook(s), NEW t, NEW d \in Nat, IsEnd(t, s, d)
  PROVE  t = Newest(s)
<1>1. PICK e \in Nat : IsEnd(Newest(s), s, e)
  BY NewestIsEnd
<1> DEFINE u == Newest(s)
<1>2. u \in Seq(Items) /\ t \in Seq(Items)
  BY <1>1 DEF IsEnd
<1>3. ItemLimit \in Nat
  BY StoreAssumption
<1> HIDE DEF u
<1>4. /\ Len(s) = Len(t) + d /\ Len(t) <= ItemLimit /\ (d > 0 => Len(t) = ItemLimit)
      /\ Len(s) = Len(u) + e /\ Len(u) <= ItemLimit /\ (e > 0 => Len(u) = ItemLimit)
  BY <1>1 DEF IsEnd, u
<1>5. d = e /\ Len(t) = Len(u)
  BY <1>2, <1>3, <1>4
<1>6. \A j \in 1 .. Len(t) : t[j] = u[j]
  BY <1>1, <1>5 DEF IsEnd, u
<1>7. t = u
  BY <1>2, <1>5, <1>6, SeqEqual, Zenon
<1> QED
  BY <1>7 DEF u

\* The newest items hold one of a key, and no more than the limit.
LEMMA NewestIsBook ==
  ASSUME NEW s, IsBook(s)
  PROVE  IsBook(Newest(s)) /\ Len(Newest(s)) <= ItemLimit
<1>1. PICK d \in Nat : IsEnd(Newest(s), s, d)
  BY NewestIsEnd
<1> DEFINE u == Newest(s)
<1>2. /\ u \in Seq(Items) /\ Len(u) <= ItemLimit /\ Len(s) = Len(u) + d /\ Len(u) \in Nat
      /\ \A j \in 1 .. Len(u) : u[j] = s[j + d]
  BY <1>1 DEF IsEnd
<1>3. DOMAIN u = 1 .. Len(u) /\ DOMAIN s = 1 .. Len(s)
  BY <1>2 DEF IsBook
<1> HIDE DEF u
<1>4. ASSUME NEW i \in DOMAIN u, NEW j \in DOMAIN u, u[i].key = u[j].key PROVE i = j
  <2>1. i + d \in DOMAIN s /\ j + d \in DOMAIN s /\ i \in Nat /\ j \in Nat
    BY <1>2, <1>3
  <2>2. s[i + d].key = s[j + d].key
    BY <1>2, <1>3, <1>4
  <2>3. i + d = j + d
    BY <2>1, <2>2 DEF IsBook
  <2> QED
    BY <2>1, <2>3
<1> QED
  BY <1>2, <1>4 DEF IsBook, u

\* If the memory is the end of the book, it is so after an item was used: the
\* item is among those that are left, among those that were forgotten, or new.
LEMMA UsedIsNewest ==
  ASSUME NEW s, IsBook(s), NEW item \in Items
  PROVE  IsBook(Booked(s, item)) /\ Used(Newest(s), item) = Newest(Booked(s, item))
<1> DEFINE c == Newest(s)
           b == Booked(c, item)
           B == Booked(s, item)
<1>1. PICK d \in Nat : IsEnd(c, s, d)
  BY NewestIsEnd
<1>2. IsBook(c) /\ Used(c, item) = IF Len(b) > ItemLimit THEN Tail(b) ELSE b
  BY NewestIsBook, UsedIsBooked
<1> HIDE DEF c
<1>3. PICK m \in Nat, q \in Nat, lim \in Nat \ {0} : m = Len(c) /\ q = Len(s) /\ lim = ItemLimit
  <2>1. Len(c) \in Nat /\ Len(s) \in Nat /\ ItemLimit \in Nat \ {0}
    BY <1>2, StoreAssumption DEF IsBook
  <2> QED
    BY <2>1
<1>4. /\ DOMAIN c = 1 .. m /\ DOMAIN s = 1 .. q /\ c \in Seq(Items) /\ s \in Seq(Items)
      /\ q = m + d /\ m <= lim /\ (d > 0 => m = lim)
      /\ \A j \in 1 .. m : c[j] = s[j + d]
  BY <1>1, <1>2, <1>3 DEF IsEnd, IsBook
<1>5. ASSUME NEW t, NEW e \in Nat, IsBook(B), IsEnd(t, B, e) PROVE t = Newest(B)
  <2> HIDE DEF B
  <2> QED
    BY <1>5, EndIsNewest
<1>6. CASE Holds(c, item.key)
  <2>1. PICK i \in 1 .. m : c[i].key = item.key
    BY <1>3, <1>6 DEF Holds
  <2>2. i + d \in 1 .. q /\ s[i + d].key = item.key
    BY <1>3, <1>4, <2>1
  <2>3. /\ IsBook(b) /\ Len(b) = m /\ b[m] = item
        /\ \A j \in 1 .. m - 1 : b[j] = IF j < i THEN c[j] ELSE c[j + 1]
    BY <1>3, <1>2, <2>1, BookedAgain
  <2>4. /\ IsBook(B) /\ Len(B) = q /\ B[q] = item
        /\ \A j \in 1 .. q - 1 : B[j] = IF j < i + d THEN s[j] ELSE s[j + 1]
    BY <1>3, <2>2, BookedAgain
  <2> HIDE DEF b, B
  <2>5. ASSUME NEW j \in 1 .. Len(b) PROVE b[j] = B[j + d]
    <3>1. CASE j = m
      BY <1>4, <2>3, <2>4, <3>1
    <3>2. CASE j # m
      <4>1. /\ j \in 1 .. m - 1 /\ j + d \in 1 .. q - 1 /\ j \in 1 .. m /\ j + 1 \in 1 .. m
            /\ (j < i <=> j + d < i + d) /\ (j + d) + 1 = (j + 1) + d
        BY <1>3, <1>4, <2>3, <3>2
      <4>2. b[j] = IF j < i THEN s[j + d] ELSE s[(j + 1) + d]
        BY <1>4, <2>3, <4>1
      <4>3. B[j + d] = IF j + d < i + d THEN s[j + d] ELSE s[(j + d) + 1]
        BY <2>4, <4>1
      <4> QED
        BY <4>1, <4>2, <4>3
    <3> QED
      BY <3>1, <3>2
  <2>6. IsEnd(b, B, d)
    BY <1>3, <1>4, <2>3, <2>4, <2>5 DEF IsEnd, IsBook
  <2>7. Used(c, item) = b
    BY <1>2, <1>3, <1>4, <2>3
  <2> QED
    BY <1>5, <2>4, <2>6, <2>7 DEF B, c
<1>7. CASE ~Holds(c, item.key)
  <2>1. /\ IsBook(b) /\ Len(b) = m + 1 /\ b[m + 1] = item
        /\ \A j \in 1 .. m : b[j] = c[j]
    BY <1>3, <1>2, <1>7, BookedNew
  <2> HIDE DEF b
  <2>2. /\ Tail(b) \in Seq(Items) /\ Len(Tail(b)) = m /\ b \in Seq(Items)
        /\ \A j \in 1 .. m : Tail(b)[j] = b[j + 1]
    <3>1. b \in Seq(Items) /\ b # << >>
      BY <1>3, <2>1 DEF IsBook
    <3>2. /\ Tail(b) \in Seq(Items) /\ Len(Tail(b)) = Len(b) - 1
          /\ \A j \in 1 .. Len(Tail(b)) : Tail(b)[j] = b[j + 1]
      BY <3>1, HeadTailProperties
    <3>3. Len(Tail(b)) = m
      BY <1>3, <2>1, <3>2
    <3> QED
      BY <3>1, <3>2, <3>3
  <2>3. CASE ~Holds(s, item.key)
    <3>1. /\ IsBook(B) /\ Len(B) = q + 1 /\ B[q + 1] = item
          /\ \A j \in 1 .. q : B[j] = s[j]
      BY <1>3, <2>3, BookedNew
    <3> HIDE DEF B
    <3>2. ASSUME NEW j \in 1 .. Len(b) PROVE b[j] = B[j + d]
      <4>1. CASE j = m + 1
        <5>1. j + d = q + 1
          BY <1>3, <1>4, <4>1
        <5> QED
          BY <2>1, <3>1, <4>1, <5>1
      <4>2. CASE j # m + 1
        <5>1. j \in 1 .. m /\ j + d \in 1 .. q
          BY <1>3, <1>4, <2>1, <4>2
        <5> QED
          BY <1>4, <2>1, <3>1, <5>1
      <4> QED
        BY <4>1, <4>2
    <3>3. CASE Len(b) > lim
      <4>1. Used(c, item) = Tail(b) /\ m = lim
        BY <1>2, <1>3, <1>4, <2>1, <3>3
      <4>2. ASSUME NEW j \in 1 .. Len(Tail(b)) PROVE Tail(b)[j] = B[j + (d + 1)]
        <5>1. j \in 1 .. m /\ j + 1 \in 1 .. Len(b) /\ (j + 1) + d = j + (d + 1)
          BY <1>3, <2>1, <2>2
        <5>2. Tail(b)[j] = b[j + 1] /\ b[j + 1] = B[(j + 1) + d]
          BY <2>2, <3>2, <5>1
        <5> QED
          BY <5>1, <5>2
      <4>3. Len(B) = Len(Tail(b)) + (d + 1) /\ Len(Tail(b)) = lim /\ d + 1 \in Nat
        <5>1. q + 1 = m + (d + 1) /\ d + 1 \in Nat
          BY <1>4
        <5> QED
          BY <2>2, <3>1, <4>1, <5>1
      <4>4. IsEnd(Tail(b), B, d + 1)
        BY <1>3, <2>2, <4>2, <4>3 DEF IsEnd
      <4> QED
        BY <1>5, <3>1, <4>1, <4>3, <4>4 DEF B, c
    <3>4. CASE ~(Len(b) > lim)
      <4>1. Used(c, item) = b /\ d = 0
        BY <1>2, <1>3, <1>4, <2>1, <3>4
      <4>2. IsEnd(b, B, d)
        BY <1>3, <1>4, <2>1, <2>2, <3>1, <3>2, <3>4, <4>1 DEF IsEnd
      <4> QED
        BY <1>5, <3>1, <4>1, <4>2 DEF B, c
    <3> QED
      BY <3>3, <3>4
  <2>4. CASE Holds(s, item.key)
    <3>1. PICK n \in 1 .. q : s[n].key = item.key
      BY <1>3, <2>4 DEF Holds
    <3>2. n <= d
      <4> SUFFICES ASSUME ~(n <= d) PROVE FALSE
        OBVIOUS
      <4>1. n - d \in 1 .. m /\ (n - d) + d = n
        BY <1>3, <1>4
      <4>2. c[n - d] = s[(n - d) + d]
        BY <1>4, <4>1
      <4>3. c[n - d].key = item.key
        BY <3>1, <4>1, <4>2
      <4> QED
        BY <1>3, <1>7, <4>1, <4>3 DEF Holds
    <3>3. m = lim /\ Used(c, item) = Tail(b)
      BY <1>2, <1>3, <1>4, <2>1, <3>2
    <3>4. /\ IsBook(B) /\ Len(B) = q /\ B[q] = item
          /\ \A j \in 1 .. q - 1 : B[j] = IF j < n THEN s[j] ELSE s[j + 1]
      BY <1>3, <3>1, BookedAgain
    <3> HIDE DEF B
    <3>5. ASSUME NEW j \in 1 .. Len(Tail(b)) PROVE Tail(b)[j] = B[j + d]
      <4>1. j \in 1 .. m /\ Tail(b)[j] = b[j + 1]
        BY <2>2
      <4>2. CASE j = m
        <5>1. j + d = q
          BY <1>3, <1>4, <4>2
        <5> QED
          BY <2>1, <3>4, <4>1, <4>2, <5>1
      <4>3. CASE j # m
        <5>1. /\ j + 1 \in 1 .. m /\ j + d \in 1 .. q - 1 /\ ~(j + d < n)
              /\ (j + d) + 1 = (j + 1) + d
          BY <1>3, <1>4, <3>2, <4>1, <4>3
        <5>2. b[j + 1] = s[(j + 1) + d]
          BY <1>4, <2>1, <5>1
        <5>3. B[j + d] = s[(j + d) + 1]
          BY <3>4, <5>1
        <5> QED
          BY <4>1, <5>1, <5>2, <5>3
      <4> QED
        BY <4>2, <4>3
    <3>6. IsEnd(Tail(b), B, d)
      BY <1>3, <1>4, <2>2, <3>3, <3>4, <3>5 DEF IsEnd
    <3> QED
      BY <1>5, <3>3, <3>4, <3>6 DEF B, c
  <2> QED
    BY <2>3, <2>4
<1> QED
  BY <1>6, <1>7

\* What is booked is booked last.
LEMMA BookedIsLast ==
  ASSUME NEW s, IsBook(s), NEW item \in Items
  PROVE  Booked(s, item) # << >> /\ Last(Booked(s, item)) = item
<1>1. CASE Holds(s, item.key)
  <2>1. PICK n \in 1 .. Len(s) : s[n].key = item.key
    BY <1>1 DEF Holds, IsBook
  <2>2. IsBook(Booked(s, item)) /\ Len(Booked(s, item)) = Len(s) /\ Booked(s, item)[Len(s)] = item
    BY <2>1, BookedAgain
  <2>3. Len(s) # 0
    BY <2>1 DEF IsBook
  <2> QED
    BY <2>2, <2>3 DEF Last
<1>2. CASE ~Holds(s, item.key)
  <2>1. Len(Booked(s, item)) = Len(s) + 1 /\ Booked(s, item)[Len(s) + 1] = item
    BY <1>2, BookedNew
  <2>2. Len(s) + 1 # 0
    BY DEF IsBook
  <2> QED
    BY <2>1, <2>2 DEF Last
<1> QED
  BY <1>1, <1>2

-----------------------------------------------------------------------------

\* The inductive invariant: the memory is the end of the book, and the latest call
\* came out as the book tells.
PolicyInv ==
  /\ keyMapTable \in Keys \cup {None} /\ call \in Calls
  /\ DOMAIN keyCache \subseteq Keys /\ \A k \in DOMAIN keyCache : keyCache[k] \in BOOLEAN
  /\ IsBook(recent)
  /\ MemoryIsRecent
  /\ EndsForgotten
  /\ AnswersLatest

\* The item of a key that is held.
LEMMA HeldItem ==
  ASSUME NEW s, IsBook(s), NEW k, Holds(s, k)
  PROVE  ItemOf(s, k) \in Items /\ ItemOf(s, k).key = k
         /\ ItemOf(s, k) = [key |-> k, values |-> ItemOf(s, k).values]
<1>1. PICK n \in 1 .. Len(s) : s[n].key = k
  BY DEF Holds, IsBook
<1>2. ItemOf(s, k) = s[n] /\ s[n] \in Items
  BY <1>1, OnePlace DEF IsBook
<1> QED
  BY <1>1, <1>2 DEF Items

\* Storing an item, in the memory and in the book.
LEMMA StoreStep ==
  ASSUME IsBook(recent), MemoryIsRecent, NEW item \in Items,
         itemCache' = Used(itemCache, item), recent' = Booked(recent, item)
  PROVE  IsBook(recent)' /\ MemoryIsRecent' /\ recent' # << >> /\ Last(recent') = item
BY UsedIsNewest, BookedIsLast DEF MemoryIsRecent, IsBook

\* Asking for a key, in both.
LEMMA LookUpStep ==
  ASSUME IsBook(recent), MemoryIsRecent, NEW k, LookUp(k), BookLookUp(k)
  PROVE  /\ IsBook(recent)' /\ MemoryIsRecent'
         /\ Holds(itemCache, k) =>
              /\ ItemOf(itemCache, k) \in Items /\ recent' # << >>
              /\ Last(recent') = [key |-> k, values |-> ItemOf(itemCache, k).values]
         /\ ~Holds(itemCache, k) => recent' = recent
<1>1. itemCache = Newest(recent) /\ IsBook(itemCache)
  BY NewestIsBook DEF MemoryIsRecent
<1>2. CASE Holds(itemCache, k)
  <2>1. /\ itemCache' = Used(itemCache, ItemOf(itemCache, k))
        /\ recent' = Booked(recent, ItemOf(itemCache, k))
    BY <1>1, <1>2 DEF LookUp, BookLookUp
  <2>2. /\ ItemOf(itemCache, k) \in Items
        /\ ItemOf(itemCache, k) = [key |-> k, values |-> ItemOf(itemCache, k).values]
    BY <1>1, <1>2, HeldItem
  <2>3. IsBook(recent)' /\ MemoryIsRecent' /\ recent' # << >> /\ Last(recent') = ItemOf(itemCache, k)
    BY <2>1, <2>2, StoreStep
  <2> QED
    BY <1>2, <2>2, <2>3
<1>3. CASE ~Holds(itemCache, k)
  <2>1. UNCHANGED << itemCache, recent >>
    BY <1>1, <1>3 DEF LookUp, BookLookUp
  <2> QED
    BY <1>3, <2>1 DEF MemoryIsRecent, IsBook
<1> QED
  BY <1>2, <1>3

\* A step after which nothing was asked.
LEMMA QuietStep ==
  ASSUME call' = NoCall
  PROVE  call' \in Calls /\ EndsForgotten' /\ AnswersLatest'
<1>1. call'.result = "none" /\ call' \in Calls
  BY DEF NoCall, Call, Calls
<1> QED
  BY <1>1, StoreAssumption DEF EndsForgotten, AnswersLatest, Alive

\* The database ends the process; it was opened for a key that is not in memory.
LEMMA DbStep ==
  ASSUME PolicyInv, NEW by \in {"mem", "policy", "custom"}, NEW k \in Keys \cup {None},
         NEW flag \in BOOLEAN, NEW begun \in BOOLEAN, Db(by, k, flag, begun), recent' = recent,
         by = "policy" => flag, by # "mem" /\ flag => ~Holds(itemCache, k)
  PROVE  PolicyInv'
<1>1. /\ call'.result = "ended" /\ call'.by = by /\ call'.key = k /\ call'.flag = flag /\ call' \in Calls
      /\ UNCHANGED << keyMapTable, keyCache, itemCache, recent >>
  BY DEF Db, Call, Calls, storeVars
<1>2. itemCache = Newest(recent)
  BY DEF PolicyInv, MemoryIsRecent
<1>3. EndsForgotten'
  BY <1>1, <1>2 DEF EndsForgotten
<1>4. AnswersLatest'
  BY <1>1, StoreAssumption DEF AnswersLatest
<1> QED
  BY <1>1, <1>3, <1>4 DEF PolicyInv, MemoryIsRecent, IsBook

\* A request that is answered from memory or sent to the server.
LEMMA AskStep ==
  ASSUME PolicyInv, NEW by \in {"policy", "custom"}, NEW k \in Keys, NEW flag \in BOOLEAN, NEW begun \in BOOLEAN,
         LookUp(k), BookLookUp(k), UNCHANGED << keyMapTable, keyCache >>,
         NEW result, call' = Call(by, k, flag, begun, result),
         \/ Holds(itemCache, k) /\ result = ItemOf(itemCache, k).values
         \/ result = "server" /\ (begun => ~Holds(itemCache, k))
  PROVE  PolicyInv'
<1>1. call'.result = result /\ call'.key = k /\ call'.begun = begun
  BY DEF Call
<1>2. itemCache = Newest(recent) /\ IsBook(recent) /\ MemoryIsRecent
  BY DEF PolicyInv, MemoryIsRecent
<1>3. /\ IsBook(recent)' /\ MemoryIsRecent'
      /\ Holds(itemCache, k) =>
           /\ ItemOf(itemCache, k) \in Items /\ recent' # << >>
           /\ Last(recent') = [key |-> k, values |-> ItemOf(itemCache, k).values]
      /\ ~Holds(itemCache, k) => recent' = recent
  BY <1>2, LookUpStep
<1>4. \/ result = "server"
      \/ result \in Contents /\ Holds(itemCache, k) /\ result = ItemOf(itemCache, k).values
  BY <1>3 DEF Items
<1>5. call' \in Calls /\ result # "ended"
  <2>1. result \in {"none", "server", "ended"} \cup Contents /\ result # "ended"
    BY <1>4, StoreAssumption
  <2> QED
    BY <2>1 DEF Call, Calls
<1>6. EndsForgotten'
  BY <1>1, <1>5 DEF EndsForgotten, Alive
<1>7. AnswersLatest'
  <2>1. CASE result = "server"
    <3>1. call'.result \notin Contents
      BY <1>1, <2>1, StoreAssumption
    <3>2. ASSUME begun PROVE recent' = recent /\ ~Holds(Newest(recent), k)
      <4>1. ~Holds(itemCache, k)
        BY <2>1, <3>1, <3>2, <1>1, <1>3 DEF Items
      <4> QED
        BY <1>2, <1>3, <4>1
    <3>3. begun => ~Holds(Newest(recent)', k)
      BY <3>2 DEF Newest
    <3> QED
      BY <1>1, <3>1, <3>3 DEF AnswersLatest, Holds
  <2>2. CASE result # "server"
    BY <1>1, <1>3, <1>4, <2>2 DEF AnswersLatest
  <2> QED
    BY <2>1, <2>2
<1> QED
  BY <1>3, <1>5, <1>6, <1>7 DEF PolicyInv

\* Storing a key keeps the types.
LEMMA DiskKeyTypes ==
  ASSUME PolicyInv, NEW k \in Keys, NEW flag \in BOOLEAN, NEW name, DiskKey(k, flag, name)
  PROVE  /\ keyMapTable' \in Keys \cup {None}
         /\ DOMAIN keyCache' \subseteq Keys /\ \A x \in DOMAIN keyCache' : keyCache'[x] \in BOOLEAN
<1>1. keyMapTable' \in Keys \cup {None}
  BY DEF DiskKey, PolicyInv
<1>2. DOMAIN keyCache' = DOMAIN keyCache \cup {k}
  BY DEF DiskKey
<1>3. \A x \in DOMAIN keyCache' : keyCache'[x] = IF x \in DOMAIN keyCache THEN keyCache[x] ELSE flag
  BY DEF DiskKey
<1> QED
  BY <1>1, <1>2, <1>3 DEF PolicyInv

\* Nothing is kept of a process that has just been started.
LEMMA EmptyBook ==
  ASSUME itemCache = << >>, recent = << >>
  PROVE  IsBook(recent) /\ MemoryIsRecent
<1>1. IsBook(recent) /\ Len(recent) = 0
  BY DEF IsBook
<1>2. Newest(recent) = << >>
  BY <1>1, StoreAssumption DEF Newest
<1> QED
  BY <1>1, <1>2 DEF MemoryIsRecent

\* The same of the next state.
LEMMA EmptyBookNext ==
  ASSUME itemCache' = << >>, recent' = << >>
  PROVE  IsBook(recent)' /\ MemoryIsRecent'
<1>1. IsBook(recent)' /\ Len(recent') = 0
  BY DEF IsBook
<1>2. Newest(recent)' = << >>
  BY <1>1, StoreAssumption DEF Newest
<1> QED
  BY <1>1, <1>2 DEF MemoryIsRecent

\* What the process keeps and the client's book change together.
LEMMA PolicyInductive ==
  /\ Init => PolicyInv
  /\ PolicyInv /\ [Next]_vars => PolicyInv'
<1>1. ASSUME Init PROVE PolicyInv
  <2>1. /\ keyMapTable = None /\ DOMAIN keyCache = {} /\ call = NoCall
        /\ itemCache = << >> /\ recent = << >>
    BY <1>1 DEF Init, StoreInit
  <2>2. call.result = "none" /\ call \in Calls
    BY <2>1 DEF NoCall, Call, Calls
  <2> QED
    BY <2>1, <2>2, EmptyBook, StoreAssumption DEF PolicyInv, EndsForgotten, AnswersLatest, Alive
<1>2. ASSUME PolicyInv, [Next]_vars PROVE PolicyInv'
  <2>1. ASSUME NEW k \in Keys, NEW flag \in BOOLEAN, NEW name \in {"none", "custom"}, StoreKey(k, flag, name)
        PROVE  PolicyInv'
    <3>1. UNCHANGED << itemCache, recent >> /\ call' = NoCall /\ DiskKey(k, flag, name)
      BY <2>1 DEF StoreKey
    <3>2. IsBook(recent)' /\ MemoryIsRecent'
      BY <1>2, <3>1 DEF PolicyInv, MemoryIsRecent, IsBook
    <3> QED
      BY <1>2, <3>1, <3>2, QuietStep, DiskKeyTypes DEF PolicyInv
  <2>2. ASSUME NEW k \in Keys, NEW flag \in BOOLEAN, NEW name \in {"none", "custom"}, NEW values \in Contents,
               StoreItem([key |-> k, values |-> values], flag, name)
        PROVE  PolicyInv'
    <3>1. PICK item \in Items : item.key = k /\ StoreItem(item, flag, name)
      BY <2>2 DEF Items
    <3>2. /\ DiskKey(k, flag, name) /\ itemCache' = Used(itemCache, item)
          /\ recent' = Booked(recent, item) /\ call' = NoCall
      BY <3>1 DEF StoreItem, DiskItem
    <3>3. IsBook(recent)' /\ MemoryIsRecent'
      BY <1>2, <3>2, StoreStep DEF PolicyInv
    <3> QED
      BY <1>2, <3>2, <3>3, QuietStep, DiskKeyTypes DEF PolicyInv
  <2>3. ASSUME NEW k \in Keys, ReadItem(k)
        PROVE  PolicyInv'
    BY <1>2, <2>3, LookUpStep, QuietStep DEF ReadItem, PolicyInv
  <2>4. CASE UseDatabase
    BY <1>2, <2>4, DbStep DEF UseDatabase
  <2>5. ASSUME NEW k \in Requested, NEW flag \in BOOLEAN, NEW begun \in BOOLEAN, Policy(k, flag, begun)
        PROVE  PolicyInv'
    <3>1. k \in Keys /\ (DiskFlag(k, flag) <=> flag)
      BY DEF Keys, DiskFlag, Union
    <3>2. CASE ~Holds(itemCache, k) /\ DiskFlag(k, flag)
      BY <1>2, <2>5, <3>1, <3>2, DbStep DEF Policy
    <3>3. CASE ~(~Holds(itemCache, k) /\ DiskFlag(k, flag))
      <4> DEFINE result == IF Holds(itemCache, k) /\ begun THEN ItemOf(itemCache, k).values ELSE "server"
      <4>1. /\ LookUp(k) /\ BookLookUp(k) /\ UNCHANGED << keyMapTable, keyCache >>
            /\ call' = Call("policy", k, flag, begun, result)
        BY <2>5, <3>3 DEF Policy
      <4>2. \/ Holds(itemCache, k) /\ result = ItemOf(itemCache, k).values
            \/ result = "server" /\ (begun => ~Holds(itemCache, k))
        OBVIOUS
      <4> HIDE DEF result
      <4> QED
        BY <1>2, <3>1, <4>1, <4>2, AskStep
    <3> QED
      BY <3>2, <3>3
  <2>6. ASSUME NEW asked \in Customs \cup {None}, NEW disk \in BOOLEAN, RequesCustom(asked, disk)
        PROVE  PolicyInv'
    <3> DEFINE k == CustomKey(asked, disk)
    <3>1. k \in Keys \cup {None}
      BY <1>2 DEF CustomKey, PolicyInv, Keys
    <3>2. CASE disk /\ Holds(itemCache, k)
      <4>1. k \in Keys
        <5>1. IsBook(itemCache)
          BY <1>2, NewestIsBook DEF PolicyInv, MemoryIsRecent
        <5> QED
          BY <3>2, <5>1, HeldItem DEF Items
      <4>2. /\ LookUp(k) /\ BookLookUp(k) /\ UNCHANGED << keyMapTable, keyCache >>
            /\ call' = Call("custom", k, disk, TRUE, ItemOf(itemCache, k).values)
        BY <2>6, <3>2 DEF RequesCustom
      <4> HIDE DEF k
      <4> QED
        BY <1>2, <3>2, <4>1, <4>2, AskStep
    <3>3. CASE ~(disk /\ Holds(itemCache, k))
      <4>1. Db("custom", k, disk, TRUE) /\ recent' = recent
        BY <2>6, <3>3 DEF RequesCustom
      <4> HIDE DEF k
      <4> QED
        BY <1>2, <3>1, <3>3, <4>1, DbStep
    <3> QED
      BY <3>2, <3>3
  <2>7. CASE MemoryWarning
    BY <1>2, <2>7, EmptyBookNext, QuietStep DEF MemoryWarning, PolicyInv
  <2>8. CASE Launch
    <3>1. /\ keyMapTable' = None /\ DOMAIN keyCache' = {} /\ itemCache' = << >> /\ recent' = << >>
          /\ call' = NoCall
      BY <2>8 DEF Launch
    <3> QED
      BY <3>1, EmptyBookNext, QuietStep DEF PolicyInv
  <2>9. CASE UNCHANGED vars
    BY <1>2, <2>9 DEF vars, storeVars, PolicyInv, MemoryIsRecent, IsBook, EndsForgotten, AnswersLatest, Alive
  <2> QED
    BY <1>2, <2>1, <2>2, <2>3, <2>4, <2>5, <2>6, <2>7, <2>8, <2>9 DEF Next
<1> QED
  BY <1>1, <1>2

\* What is known of every state.
LEMMA PolicyInvariance == Spec => []PolicyInv
BY PolicyInductive, PTL DEF Spec

-----------------------------------------------------------------------------

\* LRUCache's queue by last use and a client that remembers its own calls agree,
\* whatever the client stores, reads and asks and whenever the memory is emptied.
THEOREM MemoryFollowsTheBook == Spec => []MemoryIsRecent
<1>1. PolicyInv => MemoryIsRecent
  BY DEF PolicyInv
<1> QED
  BY <1>1, PolicyInvariance, PTL

\* No request for one of the items used last ends the process, and no request for
\* a student or teacher does that was asked without the flag cache.
THEOREM OnlyForgottenEnd == Spec => []EndsForgotten
<1>1. PolicyInv => EndsForgotten
  BY DEF PolicyInv
<1> QED
  BY <1>1, PolicyInvariance, PTL

\* An answer from memory is what was stored last under the key, and the server is
\* not asked for what the memory still has, once the term has begun.
THEOREM AnswersAreLatest == Spec => []AnswersLatest
<1>1. PolicyInv => AnswersLatest
  BY DEF PolicyInv
<1> QED
  BY <1>1, PolicyInvariance, PTL

\* The memory never holds two items of a key nor more items than its limit.
THEOREM PolicyTypes == Spec => []TypeOK
<1>1. ASSUME PolicyInv PROVE TypeOK
  <2>1. IsBook(itemCache) /\ Len(itemCache) <= ItemLimit
    BY <1>1, NewestIsBook DEF PolicyInv, MemoryIsRecent
  <2>2. ToSet(itemCache) \subseteq Items
    BY <2>1, ElementOfSeq DEF IsBook, ToSet
  <2> QED
    BY <1>1, <2>1, <2>2 DEF TypeOK, PolicyInv, IsBook
<1> QED
  BY <1>1, PolicyInvariance, PTL
=============================================================================
