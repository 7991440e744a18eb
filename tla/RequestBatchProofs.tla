------------------------- MODULE RequestBatchProofs -------------------------
(***************************************************************************)
(* The dispatch group of a batch is left as often as it was entered but    *)
(* for the second answers of recoveries, for any batches, attributes and   *)
(* limit of errors, and a batch without such an answer is called back with *)
(* one result of each attribute.                                           *)
(***************************************************************************)
EXTENDS RequestBatch, TLAPS, FiniteSetTheorems, SequenceTheorems

ResultOf == [of : Attributes, ok : BOOLEAN, repeated : BOOLEAN]

OfBatch(b)  == {r \in Requests : r[1] = b}
Flights(b)  == {r \in Requests : r[1] = b /\ stage[r] \in InFlight}
Answered(b) == {r \in Requests : r[1] = b /\ stage[r] = "answered"}
Second(b)   == {r \in switched : r[1] = b}

\* A request is queued for recovery at most once, then recovered, then switched,
\* each only after it was answered: it is switched at most once.
Queued(r) == \E i \in DOMAIN barriers : barriers[i] = r

PlacesInv ==
  /\ \A i, j \in DOMAIN barriers : barriers[i] = barriers[j] => i = j
  /\ \A r \in Requests :
       /\ Queued(r) \/ recovery[r] # "none" \/ r \in switched => stage[r] = "answered"
       /\ Queued(r) => recovery[r] = "none" /\ r \notin switched
       /\ recovery[r] # "none" => r \notin switched

\* A batch is sent as a whole.
SentInv == \A r \in Requests : stage[r] = "unsent" <=> notice[r[1]] = "unset"

\* The results are those of the requests answered, and the second answers.
ResultsInv ==
  \A b \in Batches :
    /\ Len(results[b]) = Cardinality(Answered(b)) + Cardinality(Second(b))
    /\ \A r \in Answered(b) : \E i \in DOMAIN results[b] : results[b][i].of = r[2]

\* OpenCountsFlights, in the names above.
OpenCounts ==
  ~crashed => \A b \in Batches : open[b] = Cardinality(Flights(b)) - Cardinality(Second(b))

\* notify has fired only if nothing was in flight, second answers aside.
NoticeInv ==
  \A b \in Batches : notice[b] \in {"posted", "delivered"} /\ Second(b) = {} => Flights(b) = {}

BatchInv ==
  /\ TypeOK /\ PlacesInv /\ SentInv /\ OpenCounts /\ CrashNeedsSwitch
  /\ ResultsInv /\ NoticeInv /\ AnswersComplete

-----------------------------------------------------------------------------

\* A batch has as many requests as there are attributes.
LEMMA BatchSize ==
  ASSUME NEW b \in Batches
  PROVE  /\ IsFiniteSet(OfBatch(b)) /\ Cardinality(OfBatch(b)) = Cardinality(Attributes)
         /\ Cardinality(Attributes) \in Nat \ {0}
<1> DEFINE f == [a \in Attributes |-> << b, a >>]
<1>1. \A r \in OfBatch(b) : r[2] \in Attributes /\ r = << b, r[2] >>
  BY DEF OfBatch, Requests
<1>2. f \in [Attributes -> OfBatch(b)]
  BY DEF OfBatch, Requests
<1>3. f \in Injection(Attributes, OfBatch(b))
  BY <1>2 DEF Injection, IsInjective
<1>4. f \in Surjection(Attributes, OfBatch(b))
  BY <1>1, <1>2 DEF Surjection
<1>5. ExistsBijection(Attributes, OfBatch(b))
  BY <1>3, <1>4 DEF ExistsBijection, Bijection
<1>6. Cardinality(Attributes) \in Nat /\ Cardinality(Attributes) # 0
  BY BatchAssumption, FS_CardinalityType, FS_EmptySet
<1> QED
  BY <1>5, <1>6, FS_Bijection, BatchAssumption

\* Requests of one batch are finitely many.
LEMMA PartSize ==
  ASSUME NEW b \in Batches, NEW S, S \subseteq OfBatch(b)
  PROVE  IsFiniteSet(S) /\ Cardinality(S) \in Nat /\ Cardinality(S) <= Cardinality(Attributes)
BY BatchSize, FS_Subset, FS_CardinalityType

\* Nothing has been sent.
LEMMA BatchInit == Init => BatchInv
<1> SUFFICES ASSUME Init PROVE BatchInv
  OBVIOUS
<1> USE DEF Init
<1>1. TypeOK
  <2>1. open \in [Batches -> 0 .. Cardinality(Attributes)]
    <3>1. \A b \in Batches : 0 \in 0 .. Cardinality(Attributes)
      BY BatchSize
    <3> QED
      BY <3>1
  <2>2. errorCount \in 0 .. ServerErrorRequestLimit - 1
    BY BatchAssumption
  <2>3. baseURL \in InFlight /\ stage \in [Requests -> InFlight \cup {"unsent", "answered"}]
    BY DEF InFlight
  <2>4. barriers \in Seq(Requests)
    BY EmptySeq
  <2>5. recovery \in [Requests -> {"none", "probe", "moved", ""}] /\ switched \subseteq Requests
    OBVIOUS
  <2>6. /\ results \in [Batches -> Seq([of : Attributes, ok : BOOLEAN, repeated : BOOLEAN])]
        /\ received \in [Batches -> Seq([of : Attributes, ok : BOOLEAN, repeated : BOOLEAN])]
    BY EmptySeq
  <2>7. notice \in [Batches -> {"unset", "set", "posted", "delivered"}] /\ crashed \in BOOLEAN
    OBVIOUS
  <2> QED
    BY <2>1, <2>2, <2>3, <2>4, <2>5, <2>6, <2>7 DEF TypeOK
<1>2. PlacesInv /\ SentInv
  BY DEF PlacesInv, SentInv, Queued, Requests
<1>3. \A b \in Batches : Flights(b) = {} /\ Answered(b) = {} /\ Second(b) = {}
  BY DEF Flights, Answered, Second, InFlight, Requests
<1>4. \A b \in Batches : Cardinality(Flights(b)) = 0 /\ Cardinality(Answered(b)) = 0 /\ Cardinality(Second(b)) = 0
  <2>1. Cardinality({}) = 0
    BY FS_EmptySet
  <2> QED
    BY <1>3, <2>1, Zenon
<1>5. OpenCounts /\ CrashNeedsSwitch /\ ResultsInv
  <2>1. \A b \in Batches : open[b] = 0 /\ Len(results[b]) = 0 /\ Answered(b) = {}
    BY <1>3
  <2>2. OpenCounts
    BY <1>4, <2>1 DEF OpenCounts
  <2>3. ResultsInv
    BY <1>4, <2>1 DEF ResultsInv
  <2> QED
    BY <2>2, <2>3 DEF CrashNeedsSwitch
<1>6. NoticeInv /\ AnswersComplete
  BY DEF NoticeInv, AnswersComplete
<1> QED
  BY <1>1, <1>2, <1>5, <1>6 DEF BatchInv

-----------------------------------------------------------------------------

\* Sets of requests of a batch when one request changes its place.
LEMMA LastFlight ==
  ASSUME NEW b \in Batches, TypeOK, OpenCounts, ~crashed, Second(b) = {}
  PROVE  /\ open[b] = Cardinality(Flights(b))
         /\ open[b] = 0 <=> Flights(b) = {}
         /\ \A r \in Flights(b) : open[b] = 1 => Flights(b) \ {r} = {}
<1>1. IsFiniteSet(Flights(b)) /\ Cardinality(Flights(b)) \in Nat
  BY PartSize DEF Flights, OfBatch
<1>2. Cardinality(Second(b)) = 0
  BY FS_EmptySet, Zenon
<1>3. open[b] = Cardinality(Flights(b))
  BY <1>1, <1>2 DEF OpenCounts
<1>4. open[b] = 0 <=> Flights(b) = {}
  BY <1>1, <1>3, FS_EmptySet
<1>5. ASSUME NEW r \in Flights(b), open[b] = 1
      PROVE  Flights(b) \ {r} = {}
  <2>1. Cardinality(Flights(b)) = 1
    BY <1>3, <1>5
  <2>2. PICK x : Flights(b) = {x}
    BY <1>1, <2>1, FS_Singleton
  <2> QED
    BY <2>2
<1> QED
  BY <1>3, <1>4, <1>5

\* The first answer of a request, with or without a server error.
FirstAnswer(r, ok) ==
  /\ ~crashed /\ stage[r] \in InFlight
  /\ stage' = [stage EXCEPT ![r] = "answered"]
  /\ barriers' \in {barriers, Append(barriers, r)}
  /\ UNCHANGED << baseURL, errorCount, recovery, switched >>
  /\ Complete(r[1], Result(r, ok))

\* What a completion does to the group of its batch and to no other.
LEMMA CompleteTypes ==
  ASSUME TypeOK, ~crashed, NEW b \in Batches, NEW result \in ResultOf, Complete(b, result)
  PROVE  /\ open' \in [Batches -> 0 .. Cardinality(Attributes)]
         /\ results' \in [Batches -> Seq(ResultOf)]
         /\ received' = received
         /\ notice' \in [Batches -> {"unset", "set", "posted", "delivered"}]
         /\ crashed' \in BOOLEAN
         /\ results'[b] = Append(results[b], result)
         /\ \A c \in Batches \ {b} : results'[c] = results[c] /\ open'[c] = open[c] /\ notice'[c] = notice[c]
         /\ notice'[b] # notice[b] => notice[b] = "set" /\ notice'[b] = "posted" /\ open[b] = 1 /\ ~crashed'
         /\ crashed' => open[b] = 0
         /\ ~crashed' => open'[b] = open[b] - 1
<1> USE DEF Complete
<1>1. /\ open \in [Batches -> 0 .. Cardinality(Attributes)]
      /\ results \in [Batches -> Seq(ResultOf)]
      /\ notice \in [Batches -> {"unset", "set", "posted", "delivered"}]
      /\ crashed \in BOOLEAN
  BY DEF TypeOK, ResultOf
<1>2. results' \in [Batches -> Seq(ResultOf)]
  <2>1. Append(results[b], result) \in Seq(ResultOf)
    BY <1>1, AppendProperties
  <2> QED
    BY <1>1, <2>1
<1>3. open' \in [Batches -> 0 .. Cardinality(Attributes)] /\ (~crashed' => open'[b] = open[b] - 1)
  <2>1. Cardinality(Attributes) \in Nat /\ open[b] \in 0 .. Cardinality(Attributes)
    BY <1>1, BatchSize
  <2>2. CASE open[b] = 0
    BY <1>1, <2>2
  <2>3. CASE open[b] # 0
    <3>1. open[b] - 1 \in 0 .. Cardinality(Attributes)
      BY <2>1, <2>3
    <3> QED
      BY <1>1, <2>3, <3>1
  <2> QED
    BY <2>2, <2>3
<1>4. notice' \in [Batches -> {"unset", "set", "posted", "delivered"}] /\ crashed' \in BOOLEAN
  BY <1>1
<1>5. results'[b] = Append(results[b], result) /\ received' = received
  BY <1>1
<1>6. \A c \in Batches \ {b} : results'[c] = results[c] /\ open'[c] = open[c] /\ notice'[c] = notice[c]
  BY <1>1
<1>7. notice'[b] # notice[b] => notice[b] = "set" /\ notice'[b] = "posted" /\ open[b] = 1 /\ ~crashed'
  BY <1>1
<1>8. crashed' => open[b] = 0
  OBVIOUS
<1> QED
  BY <1>2, <1>3, <1>4, <1>5, <1>6, <1>7, <1>8

\* Appending a new member to the results of a batch.
LEMMA AppendedResult ==
  ASSUME NEW s \in Seq(ResultOf), NEW x \in ResultOf
  PROVE  /\ Len(Append(s, x)) = Len(s) + 1 /\ Len(s) \in Nat
         /\ \A i \in DOMAIN s : i \in DOMAIN Append(s, x) /\ Append(s, x)[i] = s[i]
         /\ \E i \in DOMAIN Append(s, x) : Append(s, x)[i] = x
<1>1. Append(s, x) \in Seq(ResultOf) /\ Len(Append(s, x)) = Len(s) + 1 /\ Len(s) \in Nat
  BY AppendProperties, LenProperties
<1>2. DOMAIN s = 1 .. Len(s) /\ DOMAIN Append(s, x) = 1 .. Len(s) + 1
  BY <1>1, LenProperties
<1>3. Len(s) + 1 \in DOMAIN Append(s, x) /\ Append(s, x)[Len(s) + 1] = x
  BY <1>1, <1>2, AppendProperties
<1>4. \A i \in DOMAIN s : i \in DOMAIN Append(s, x) /\ Append(s, x)[i] = s[i]
  BY <1>1, <1>2, AppendProperties
<1> QED
  BY <1>1, <1>3, <1>4

\* A request that is answered for the first time goes from the network to at most
\* one place in the queue of the barrier.
LEMMA FirstAnswerPlaces ==
  ASSUME BatchInv, NEW r \in Requests, NEW ok \in BOOLEAN, FirstAnswer(r, ok)
  PROVE  PlacesInv' /\ barriers' \in Seq(Requests)
<1> USE DEF FirstAnswer, BatchInv
<1>1. stage[r] # "answered" /\ ~Queued(r) /\ recovery[r] = "none" /\ r \notin switched
  BY DEF PlacesInv, InFlight
<1>2. barriers \in Seq(Requests) /\ stage \in [Requests -> InFlight \cup {"unsent", "answered"}]
  BY DEF TypeOK
<1>3. barriers' \in Seq(Requests)
  BY <1>2, AppendProperties
<1>4. DOMAIN barriers = 1 .. Len(barriers) /\ Len(barriers) \in Nat
  BY <1>2, LenProperties
<1>5. CASE barriers' = barriers
  BY <1>1, <1>2, <1>5 DEF PlacesInv, Queued
<1>6. CASE barriers' = Append(barriers, r)
  <2>1. DOMAIN barriers' = 1 .. Len(barriers) + 1
    BY <1>2, <1>3, <1>6, LenProperties, AppendProperties
  <2>2. \A i \in 1 .. Len(barriers) : barriers'[i] = barriers[i]
    BY <1>2, <1>6, AppendProperties
  <2>3. barriers'[Len(barriers) + 1] = r
    BY <1>2, <1>6, AppendProperties
  <2>4. \A i \in DOMAIN barriers : barriers[i] # r
    BY <1>1 DEF Queued
  <2>5. \A i, j \in DOMAIN barriers' : barriers'[i] = barriers'[j] => i = j
    BY <1>4, <2>1, <2>2, <2>3, <2>4 DEF PlacesInv
  <2>6. \A q \in Requests : Queued(q)' <=> Queued(q) \/ q = r
    BY <1>4, <2>1, <2>2, <2>3 DEF Queued
  <2> QED
    BY <1>1, <1>2, <2>5, <2>6, <1>3 DEF PlacesInv
<1> QED
  BY <1>3, <1>5, <1>6

\* The first answer of a request leaves its group once, which was entered for it.
LEMMA FirstAnswerStep ==
  ASSUME BatchInv, NEW r \in Requests, NEW ok \in BOOLEAN, FirstAnswer(r, ok)
  PROVE  BatchInv'
<1> DEFINE b == r[1]
           x == Result(r, ok)
<1> USE DEF FirstAnswer, BatchInv
<1>1. b \in Batches /\ r[2] \in Attributes /\ r \in OfBatch(b)
  BY DEF Requests, OfBatch
<1>2. x \in ResultOf /\ x.of = r[2]
  BY <1>1 DEF Result, ResultOf
<1>3. Complete(b, x)
  OBVIOUS
<1> HIDE DEF x
<1>4. /\ open' \in [Batches -> 0 .. Cardinality(Attributes)]
      /\ results' \in [Batches -> Seq(ResultOf)]
      /\ received' = received
      /\ notice' \in [Batches -> {"unset", "set", "posted", "delivered"}]
      /\ crashed' \in BOOLEAN
      /\ results'[b] = Append(results[b], x)
      /\ \A c \in Batches \ {b} : results'[c] = results[c] /\ open'[c] = open[c] /\ notice'[c] = notice[c]
      /\ notice'[b] # notice[b] => notice[b] = "set" /\ notice'[b] = "posted" /\ open[b] = 1 /\ ~crashed'
      /\ crashed' => open[b] = 0
      /\ ~crashed' => open'[b] = open[b] - 1
  BY <1>1, <1>2, <1>3, CompleteTypes
<1>5. PlacesInv' /\ barriers' \in Seq(Requests)
  BY FirstAnswerPlaces
<1>6. /\ stage \in [Requests -> InFlight \cup {"unsent", "answered"}] /\ stage[r] \in InFlight
      /\ stage[r] \notin {"unsent", "answered"} /\ "answered" \notin InFlight
  BY DEF TypeOK, InFlight
<1>7. stage' = [stage EXCEPT ![r] = "answered"] /\ switched' = switched
  OBVIOUS
<1>8. stage' \in [Requests -> InFlight \cup {"unsent", "answered"}]
  BY <1>6, <1>7
<1>9. TypeOK'
  BY <1>4, <1>5, <1>8 DEF TypeOK, ResultOf
<1>10. notice[b] # "unset" /\ SentInv'
  <2>1. notice[b] # "unset"
    BY <1>6 DEF SentInv
  <2>2. \A c \in Batches : notice'[c] = "unset" <=> notice[c] = "unset"
    BY <1>1, <1>4, <2>1
  <2>3. \A q \in Requests : q[1] \in Batches /\ (stage'[q] = "unsent" <=> stage[q] = "unsent")
    BY <1>6, <1>7 DEF Requests
  <2> QED
    BY <2>1, <2>2, <2>3 DEF SentInv
<1>11. /\ \A c \in Batches : Second(c)' = Second(c)
       /\ \A c \in Batches : Flights(c)' = IF c = b THEN Flights(b) \ {r} ELSE Flights(c)
       /\ \A c \in Batches : Answered(c)' = IF c = b THEN Answered(b) \cup {r} ELSE Answered(c)
       /\ r \in Flights(b) /\ r \notin Answered(b)
  BY <1>6, <1>7 DEF Flights, Answered, Second
<1>12. /\ IsFiniteSet(Flights(b)) /\ Cardinality(Flights(b)) \in Nat /\ Cardinality(Flights(b)) # 0
       /\ IsFiniteSet(Answered(b)) /\ Cardinality(Answered(b)) \in Nat
       /\ IsFiniteSet(Second(b)) /\ Cardinality(Second(b)) \in Nat
  <2>1. Flights(b) \subseteq OfBatch(b) /\ Answered(b) \subseteq OfBatch(b) /\ Second(b) \subseteq OfBatch(b)
    BY DEF Flights, Answered, Second, OfBatch, TypeOK
  <2>2. Flights(b) # {}
    BY <1>11
  <2> HIDE DEF b
  <2> QED
    BY <1>1, <2>1, <2>2, PartSize, FS_EmptySet
<1>13. \A c \in Batches :
         /\ Cardinality(Second(c)') = Cardinality(Second(c))
         /\ Cardinality(Flights(c)') =
              IF c = b THEN Cardinality(Flights(b)) - 1 ELSE Cardinality(Flights(c))
         /\ Cardinality(Answered(c)') =
              IF c = b THEN Cardinality(Answered(b)) + 1 ELSE Cardinality(Answered(c))
  <2> SUFFICES ASSUME NEW c \in Batches
               PROVE  /\ Cardinality(Second(c)') = Cardinality(Second(c))
                      /\ Cardinality(Flights(c)') =
                           IF c = b THEN Cardinality(Flights(b)) - 1 ELSE Cardinality(Flights(c))
                      /\ Cardinality(Answered(c)') =
                           IF c = b THEN Cardinality(Answered(b)) + 1 ELSE Cardinality(Answered(c))
    OBVIOUS
  <2>1. /\ Cardinality(Flights(b) \ {r}) = Cardinality(Flights(b)) - 1
        /\ Cardinality(Answered(b) \cup {r}) = Cardinality(Answered(b)) + 1
    BY <1>11, <1>12, FS_AddElement, FS_RemoveElement
  <2> HIDE DEF b
  <2>2. CASE c = b
    BY <1>11, <2>1, <2>2, Zenon
  <2>3. CASE c # b
    BY <1>11, <2>3, Zenon
  <2> QED
    BY <2>2, <2>3
<1>14. open[b] = Cardinality(Flights(b)) - Cardinality(Second(b))
  BY <1>1 DEF OpenCounts
<1>15. OpenCounts'
  <2> SUFFICES ASSUME ~crashed', NEW c \in Batches
               PROVE  open'[c] = Cardinality(Flights(c)') - Cardinality(Second(c)')
    BY DEF OpenCounts
  <2>1. CASE c = b
    BY <1>4, <1>12, <1>13, <1>14, <2>1
  <2>2. CASE c # b
    BY <1>4, <1>13, <2>2 DEF OpenCounts
  <2> QED
    BY <2>1, <2>2
<1>16. CrashNeedsSwitch'
  <2> SUFFICES ASSUME crashed' PROVE switched # {}
    BY DEF CrashNeedsSwitch
  <2>1. Cardinality(Second(b)) # 0
    BY <1>4, <1>12, <1>14
  <2> QED
    BY <1>12, <2>1, FS_EmptySet DEF Second
<1>17. ResultsInv'
  <2> SUFFICES ASSUME NEW c \in Batches
               PROVE  /\ Len(results'[c]) = Cardinality(Answered(c)') + Cardinality(Second(c)')
                      /\ \A q \in Answered(c)' : \E i \in DOMAIN results'[c] : results'[c][i].of = q[2]
    BY DEF ResultsInv
  <2>1. CASE c # b
    <3>1. results'[c] = results[c] /\ Answered(c)' = Answered(c)
      BY <1>4, <1>11, <2>1
    <3>2. Len(results[c]) = Cardinality(Answered(c)') + Cardinality(Second(c)')
      BY <1>13, <2>1 DEF ResultsInv
    <3>3. \A q \in Answered(c) : \E i \in DOMAIN results[c] : results[c][i].of = q[2]
      BY DEF ResultsInv
    <3> QED
      BY <3>1, <3>2, <3>3
  <2>2. CASE c = b
    <3>1. results[b] \in Seq(ResultOf)
      BY <1>1 DEF TypeOK, ResultOf
    <3>2. /\ Len(results[b]) = Cardinality(Answered(b)) + Cardinality(Second(b))
          /\ \A q \in Answered(b) : \E i \in DOMAIN results[b] : results[b][i].of = q[2]
      BY <1>1 DEF ResultsInv
    <3>3. results'[b] = Append(results[b], x)
      BY <1>4
    <3>4. /\ Len(Append(results[b], x)) = Len(results[b]) + 1
          /\ \A i \in DOMAIN results[b] : i \in DOMAIN Append(results[b], x) /\ Append(results[b], x)[i] = results[b][i]
          /\ \E i \in DOMAIN Append(results[b], x) : Append(results[b], x)[i] = x
      BY <1>2, <3>1, AppendedResult
    <3>5. Len(results'[b]) = Len(results[b]) + 1
      BY <3>3, <3>4
    <3>6. \E i \in DOMAIN results'[b] : results'[b][i].of = r[2]
      BY <1>2, <3>3, <3>4
    <3>7. \A q \in Answered(b) : \E i \in DOMAIN results'[b] : results'[b][i].of = q[2]
      BY <3>2, <3>3, <3>4
    <3>8. Len(results'[c]) = Cardinality(Answered(c)') + Cardinality(Second(c)')
      BY <1>1, <1>12, <1>13, <2>2, <3>2, <3>5
    <3> QED
      BY <1>11, <2>2, <3>6, <3>7, <3>8
  <2> QED
    BY <2>1, <2>2
<1>18. NoticeInv'
  <2> SUFFICES ASSUME NEW c \in Batches, notice'[c] \in {"posted", "delivered"}, Second(c)' = {}
               PROVE  Flights(c)' = {}
    BY DEF NoticeInv
  <2>1. CASE c # b
    BY <1>4, <1>11, <2>1 DEF NoticeInv
  <2>2. CASE c = b
    <3>1. Second(b) = {}
      BY <1>11, <2>2
    <3>2. notice[b] \notin {"posted", "delivered"}
      BY <1>1, <1>11, <3>1 DEF NoticeInv
    <3>3. open[b] = 1
      BY <1>4, <2>2, <3>2
    <3> HIDE DEF b
    <3> QED
      BY <1>1, <1>11, <2>2, <3>1, <3>3, LastFlight
  <2> QED
    BY <2>1, <2>2
<1>19. AnswersComplete'
  <2>1. \A c \in Batches : notice'[c] = "delivered" => notice[c] = "delivered"
    BY <1>1, <1>4
  <2> QED
    BY <1>4, <1>7, <2>1 DEF AnswersComplete, SwitchedIn
<1> QED
  BY <1>5, <1>9, <1>10, <1>15, <1>16, <1>17, <1>18, <1>19

\* The second answer makes a member of Second; the batch loses its promise.
LEMMA SecondAnswerStep ==
  ASSUME BatchInv, NEW r \in Requests, NEW ok \in BOOLEAN, GetAnswered(r, ok)
  PROVE  BatchInv'
<1> DEFINE b == r[1]
           x == Result(r, ok)
<1> USE DEF GetAnswered, BatchInv
<1>1. b \in Batches /\ r[2] \in Attributes /\ r \in OfBatch(b)
  BY DEF Requests, OfBatch
<1>2. x \in ResultOf /\ x.of = r[2]
  BY <1>1 DEF Result, ResultOf
<1>3. Complete(b, x)
  OBVIOUS
<1> HIDE DEF x
<1>4. /\ open' \in [Batches -> 0 .. Cardinality(Attributes)]
      /\ results' \in [Batches -> Seq(ResultOf)]
      /\ received' = received
      /\ notice' \in [Batches -> {"unset", "set", "posted", "delivered"}]
      /\ crashed' \in BOOLEAN
      /\ results'[b] = Append(results[b], x)
      /\ \A c \in Batches \ {b} : results'[c] = results[c] /\ open'[c] = open[c] /\ notice'[c] = notice[c]
      /\ notice'[b] # notice[b] => notice[b] = "set" /\ notice'[b] = "posted" /\ open[b] = 1 /\ ~crashed'
      /\ crashed' => open[b] = 0
      /\ ~crashed' => open'[b] = open[b] - 1
  BY <1>1, <1>2, <1>3, CompleteTypes
<1>5. /\ recovery \in [Requests -> {"none", "probe", "moved", ""}]
      /\ switched \subseteq Requests /\ recovery[r] # "none"
  BY DEF TypeOK
<1>6. recovery' = [recovery EXCEPT ![r] = "none"] /\ switched' = switched \cup {r}
  OBVIOUS
<1>7. stage' = stage /\ barriers' = barriers /\ baseURL' = baseURL /\ errorCount' = errorCount
  OBVIOUS
<1>8. stage[r] = "answered" /\ ~Queued(r) /\ r \notin switched
  BY <1>5 DEF PlacesInv
<1>9. TypeOK'
  <2>1. recovery' \in [Requests -> {"none", "probe", "moved", ""}] /\ switched' \subseteq Requests
    BY <1>5, <1>6
  <2> QED
    BY <1>4, <1>7, <2>1 DEF TypeOK, ResultOf
<1>10. PlacesInv'
  <2>1. \A q \in Requests : Queued(q)' <=> Queued(q)
    BY <1>7 DEF Queued
  <2>2. \A q \in Requests : recovery'[q] = IF q = r THEN "none" ELSE recovery[q]
    BY <1>5, <1>6
  <2> QED
    BY <1>6, <1>7, <1>8, <2>1, <2>2 DEF PlacesInv
<1>11. SentInv'
  <2>1. notice[b] # "unset"
    BY <1>1, <1>8 DEF SentInv
  <2>2. \A c \in Batches : notice'[c] = "unset" <=> notice[c] = "unset"
    BY <1>1, <1>4, <2>1
  <2>3. \A q \in Requests : q[1] \in Batches /\ stage'[q] = stage[q]
    BY <1>7 DEF Requests
  <2> QED
    BY <2>2, <2>3 DEF SentInv
<1>12. /\ \A c \in Batches : Flights(c)' = Flights(c) /\ Answered(c)' = Answered(c)
       /\ \A c \in Batches : Second(c)' = IF c = b THEN Second(b) \cup {r} ELSE Second(c)
       /\ r \notin Second(b)
  BY <1>6, <1>7, <1>8 DEF Flights, Answered, Second
<1>13. IsFiniteSet(Second(b)) /\ Cardinality(Second(b)) \in Nat
  <2>1. Second(b) \subseteq OfBatch(b)
    BY DEF Second, OfBatch, TypeOK
  <2> HIDE DEF b
  <2> QED
    BY <1>1, <2>1, PartSize
<1>14. \A c \in Batches :
         /\ Cardinality(Flights(c)') = Cardinality(Flights(c))
         /\ Cardinality(Answered(c)') = Cardinality(Answered(c))
         /\ Cardinality(Second(c)') =
              IF c = b THEN Cardinality(Second(b)) + 1 ELSE Cardinality(Second(c))
  <2> SUFFICES ASSUME NEW c \in Batches
               PROVE  /\ Cardinality(Flights(c)') = Cardinality(Flights(c))
                      /\ Cardinality(Answered(c)') = Cardinality(Answered(c))
                      /\ Cardinality(Second(c)') =
                           IF c = b THEN Cardinality(Second(b)) + 1 ELSE Cardinality(Second(c))
    OBVIOUS
  <2>1. Cardinality(Second(b) \cup {r}) = Cardinality(Second(b)) + 1
    BY <1>12, <1>13, FS_AddElement
  <2> HIDE DEF b
  <2>2. CASE c = b
    BY <1>12, <2>1, <2>2, Zenon
  <2>3. CASE c # b
    BY <1>12, <2>3, Zenon
  <2> QED
    BY <2>2, <2>3
<1>15. /\ Cardinality(Flights(b)) \in Nat /\ Cardinality(Answered(b)) \in Nat
       /\ open[b] = Cardinality(Flights(b)) - Cardinality(Second(b))
  <2>1. Flights(b) \subseteq OfBatch(b) /\ Answered(b) \subseteq OfBatch(b)
    BY DEF Flights, Answered, OfBatch
  <2>2. open[b] = Cardinality(Flights(b)) - Cardinality(Second(b))
    BY <1>1 DEF OpenCounts
  <2> HIDE DEF b
  <2> QED
    BY <1>1, <2>1, <2>2, PartSize
<1>16. OpenCounts'
  <2> SUFFICES ASSUME ~crashed', NEW c \in Batches
               PROVE  open'[c] = Cardinality(Flights(c)') - Cardinality(Second(c)')
    BY DEF OpenCounts
  <2>1. CASE c = b
    <3>1. open'[c] = open[c] - 1 /\ open[c] = Cardinality(Flights(c)) - Cardinality(Second(c))
      BY <1>4, <1>15, <2>1
    <3>2. Cardinality(Flights(c)) \in Nat /\ Cardinality(Second(c)) \in Nat
      BY <1>13, <1>15, <2>1
    <3>3. /\ Cardinality(Flights(c)') = Cardinality(Flights(c))
          /\ Cardinality(Second(c)') = Cardinality(Second(c)) + 1
      BY <1>14, <2>1
    <3> HIDE DEF GetAnswered, BatchInv
    <3> QED
      BY <3>1, <3>2, <3>3
  <2>2. CASE c # b
    <3>1. open[c] = Cardinality(Flights(c)) - Cardinality(Second(c))
      BY DEF OpenCounts
    <3>2. open'[c] = open[c]
      BY <1>4, <2>2
    <3> QED
      BY <1>14, <2>2, <3>1, <3>2
  <2> QED
    BY <2>1, <2>2
<1>17. CrashNeedsSwitch'
  BY <1>6 DEF CrashNeedsSwitch
<1>18. ResultsInv'
  <2> SUFFICES ASSUME NEW c \in Batches
               PROVE  /\ Len(results'[c]) = Cardinality(Answered(c)') + Cardinality(Second(c)')
                      /\ \A q \in Answered(c)' : \E i \in DOMAIN results'[c] : results'[c][i].of = q[2]
    BY DEF ResultsInv
  <2>1. /\ Len(results[c]) = Cardinality(Answered(c)) + Cardinality(Second(c))
        /\ \A q \in Answered(c) : \E i \in DOMAIN results[c] : results[c][i].of = q[2]
    BY DEF ResultsInv
  <2>2. Answered(c)' = Answered(c) /\ Cardinality(Answered(c)') = Cardinality(Answered(c))
    BY <1>12, <1>14
  <2>3. CASE c # b
    <3>1. results'[c] = results[c]
      BY <1>4, <2>3
    <3>2. Cardinality(Second(c)') = Cardinality(Second(c))
      BY <1>14, <2>3
    <3> QED
      BY <2>1, <2>2, <3>1, <3>2
  <2>4. CASE c = b
    <3>1. results[c] \in Seq(ResultOf)
      BY DEF TypeOK, ResultOf
    <3>2. results'[c] = Append(results[c], x)
      BY <1>4, <2>4
    <3>3. /\ Len(Append(results[c], x)) = Len(results[c]) + 1
          /\ \A i \in DOMAIN results[c] :
               i \in DOMAIN Append(results[c], x) /\ Append(results[c], x)[i] = results[c][i]
      BY <1>2, <3>1, AppendedResult
    <3>4. Len(results'[c]) = Cardinality(Answered(c)') + Cardinality(Second(c)')
      <4>1. Cardinality(Second(c)') = Cardinality(Second(c)) + 1 /\ Cardinality(Second(c)) \in Nat
        BY <1>13, <1>14, <2>4
      <4>2. Cardinality(Answered(c)) \in Nat
        BY <1>15, <2>4
      <4>3. Len(results'[c]) = Len(results[c]) + 1
        BY <3>2, <3>3
      <4> HIDE DEF GetAnswered, BatchInv
      <4> QED
        BY <2>1, <2>2, <4>1, <4>2, <4>3
    <3>5. \A q \in Answered(c) : \E i \in DOMAIN results'[c] : results'[c][i].of = q[2]
      <4>1. \A i \in DOMAIN results[c] : i \in DOMAIN results'[c] /\ results'[c][i] = results[c][i]
        BY <3>2, <3>3
      <4> QED
        BY <2>1, <4>1
    <3> QED
      BY <2>2, <3>4, <3>5
  <2> QED
    BY <2>3, <2>4
<1>19. NoticeInv'
  <2> SUFFICES ASSUME NEW c \in Batches, notice'[c] \in {"posted", "delivered"}, Second(c)' = {}
               PROVE  Flights(c)' = {}
    BY DEF NoticeInv
  <2>1. c # b
    BY <1>12
  <2> QED
    BY <1>4, <1>12, <2>1 DEF NoticeInv
<1>20. AnswersComplete'
  <2>1. \A c \in Batches : notice'[c] = "delivered" => notice[c] = "delivered"
    BY <1>1, <1>4
  <2>2. \A c \in Batches : SwitchedIn(c) => SwitchedIn(c)'
    BY <1>6 DEF SwitchedIn
  <2>3. received' = received
    BY <1>4
  <2> QED
    BY <2>1, <2>2, <2>3 DEF AnswersComplete
<1> QED
  BY <1>9, <1>10, <1>11, <1>16, <1>17, <1>18, <1>19, <1>20

\* A batch is sent before anything of it is answered.
LEMMA RequestAllStep ==
  ASSUME BatchInv, NEW b \in Batches, RequestAll(b)
  PROVE  BatchInv'
<1>1. /\ TypeOK /\ PlacesInv /\ SentInv /\ OpenCounts /\ CrashNeedsSwitch /\ ResultsInv
      /\ NoticeInv /\ AnswersComplete /\ ~crashed /\ notice[b] = "unset"
  BY DEF BatchInv, RequestAll
<1>2. /\ stage' = [r \in Requests |-> IF r[1] = b THEN baseURL ELSE stage[r]]
      /\ open' = [open EXCEPT ![b] = Cardinality(Attributes)]
      /\ notice' = [notice EXCEPT ![b] = "set"]
  BY DEF RequestAll
<1>3. UNCHANGED << baseURL, errorCount, barriers, recovery, switched, results, received, crashed >>
  BY DEF RequestAll
<1>4. /\ stage \in [Requests -> InFlight \cup {"unsent", "answered"}] /\ baseURL \in InFlight
      /\ open \in [Batches -> 0 .. Cardinality(Attributes)]
      /\ notice \in [Batches -> {"unset", "set", "posted", "delivered"}]
      /\ "unsent" \notin InFlight /\ "answered" \notin InFlight
  BY <1>1 DEF TypeOK, InFlight
<1>5. TypeOK'
  <2>1. Cardinality(Attributes) \in 0 .. Cardinality(Attributes)
    BY BatchSize
  <2>2. /\ stage' \in [Requests -> InFlight \cup {"unsent", "answered"}]
        /\ notice' \in [Batches -> {"unset", "set", "posted", "delivered"}]
    BY <1>2, <1>4
  <2>3. open' \in [Batches -> 0 .. Cardinality(Attributes)]
    BY <1>2, <1>4, <2>1
  <2> QED
    BY <1>1, <1>3, <2>2, <2>3 DEF TypeOK
<1>6. \A r \in Requests : r[1] = b => stage[r] = "unsent"
  BY <1>1 DEF SentInv
<1>7. PlacesInv'
  <2>1. \A r \in Requests : stage[r] = "answered" => stage'[r] = "answered"
    BY <1>2, <1>6
  <2>2. \A r \in Requests : Queued(r)' <=> Queued(r)
    BY <1>3 DEF Queued
  <2> QED
    BY <1>1, <1>3, <2>1, <2>2 DEF PlacesInv
<1>8. SentInv'
  <2>1. \A r \in Requests : r[1] = b => stage'[r] # "unsent" /\ notice'[r[1]] # "unset"
    BY <1>2, <1>4
  <2>2. \A r \in Requests : r[1] # b => stage'[r] = stage[r] /\ notice'[r[1]] = notice[r[1]]
    BY <1>2, <1>4 DEF Requests
  <2> QED
    BY <1>1, <2>1, <2>2 DEF SentInv
<1>9. /\ \A c \in Batches : Flights(c)' = IF c = b THEN OfBatch(b) ELSE Flights(c)
      /\ \A c \in Batches : Answered(c)' = Answered(c) /\ Second(c)' = Second(c)
  BY <1>2, <1>3, <1>4, <1>6 DEF Flights, Answered, Second, OfBatch
<1>10. Second(b) = {}
  <2>1. \A r \in switched : r \in Requests /\ stage[r] = "answered"
    BY <1>1 DEF TypeOK, PlacesInv
  <2> QED
    BY <1>6, <2>1 DEF Second
<1>11. OpenCounts'
  <2> SUFFICES ASSUME NEW c \in Batches
               PROVE  open'[c] = Cardinality(Flights(c)') - Cardinality(Second(c)')
    BY DEF OpenCounts
  <2>1. CASE c = b
    <3>1. open'[c] = Cardinality(Attributes) /\ Cardinality(Attributes) \in Nat
      BY <1>2, <1>4, <2>1, BatchSize
    <3>2. Flights(c)' = OfBatch(b) /\ Second(c)' = {}
      BY <1>9, <1>10, <2>1
    <3>3. Cardinality(OfBatch(b)) = Cardinality(Attributes) /\ Cardinality({}) = 0
      BY BatchSize, FS_EmptySet
    <3>4. Cardinality(Flights(c)') = Cardinality(Attributes) /\ Cardinality(Second(c)') = 0
      BY <3>2, <3>3, Zenon
    <3> QED
      BY <3>1, <3>4
  <2>2. CASE c # b
    <3>1. open'[c] = open[c] /\ open[c] = Cardinality(Flights(c)) - Cardinality(Second(c))
      BY <1>1, <1>2, <1>4, <2>2 DEF OpenCounts
    <3>2. Flights(c)' = Flights(c) /\ Second(c)' = Second(c)
      BY <1>9, <2>2
    <3> QED
      BY <3>1, <3>2
  <2> QED
    BY <2>1, <2>2
<1>12. CrashNeedsSwitch'
  BY <1>1, <1>3 DEF CrashNeedsSwitch
<1>13. ResultsInv'
  <2>1. \A c \in Batches : results'[c] = results[c]
    BY <1>3
  <2> QED
    BY <1>1, <1>9, <2>1 DEF ResultsInv
<1>14. \A c \in Batches : notice'[c] \in {"posted", "delivered"} => c # b /\ notice'[c] = notice[c]
  BY <1>2, <1>4
<1>15. NoticeInv' /\ AnswersComplete'
  <2>1. NoticeInv'
    BY <1>1, <1>9, <1>14 DEF NoticeInv
  <2>2. \A c \in Batches : notice'[c] = "delivered" => notice[c] = "delivered"
    BY <1>14
  <2>3. AnswersComplete'
    BY <1>1, <1>3, <2>2 DEF AnswersComplete, SwitchedIn
  <2> QED
    BY <2>1, <2>3
<1> QED
  BY <1>5, <1>7, <1>8, <1>11, <1>12, <1>13, <1>15 DEF BatchInv

\* Steps of the recovery before its second answer leave the groups alone.
LEMMA RecoveryStep ==
  ASSUME BatchInv, UNCHANGED << stage, switched, groupVars >>,
         PlacesInv', barriers' \in Seq(Requests), baseURL' \in InFlight,
         errorCount' \in 0 .. ServerErrorRequestLimit - 1,
         recovery' \in [Requests -> {"none", "probe", "moved", ""}]
  PROVE  BatchInv'
<1>1. /\ TypeOK /\ SentInv /\ OpenCounts /\ CrashNeedsSwitch /\ ResultsInv
      /\ NoticeInv /\ AnswersComplete
  BY DEF BatchInv
<1>2. UNCHANGED << stage, switched, open, results, notice, received, crashed >>
  BY DEF groupVars
<1>3. TypeOK'
  BY <1>1, <1>2 DEF TypeOK
<1>4. \A b \in Batches : Flights(b)' = Flights(b) /\ Answered(b)' = Answered(b) /\ Second(b)' = Second(b)
  BY <1>2 DEF Flights, Answered, Second
<1>5. SentInv' /\ CrashNeedsSwitch'
  BY <1>1, <1>2 DEF SentInv, CrashNeedsSwitch
<1>6. OpenCounts'
  BY <1>1, <1>2, <1>4 DEF OpenCounts
<1>7. ResultsInv'
  BY <1>1, <1>2, <1>4 DEF ResultsInv
<1>8. NoticeInv'
  BY <1>1, <1>2, <1>4 DEF NoticeInv
<1>9. AnswersComplete'
  BY <1>1, <1>2 DEF AnswersComplete, SwitchedIn
<1> QED
  BY <1>3, <1>5, <1>6, <1>7, <1>8, <1>9 DEF BatchInv

\* The barrier block takes a request out of the queue, and into the recovery if its
\* error was one too many.
LEMMA CountErrorStep ==
  ASSUME BatchInv, CountError
  PROVE  BatchInv'
<1> DEFINE r == Head(barriers)
<1>1. PlacesInv /\ TypeOK /\ barriers # << >> /\ barriers' = Tail(barriers)
  BY DEF BatchInv, CountError
<1>2. barriers \in Seq(Requests) /\ errorCount \in 0 .. ServerErrorRequestLimit - 1
  BY <1>1 DEF TypeOK
<1>3. recovery \in [Requests -> {"none", "probe", "moved", ""}]
  BY <1>1 DEF TypeOK
<1>4. /\ r \in Requests /\ barriers' \in Seq(Requests) /\ Len(barriers) \in Nat \ {0}
      /\ Len(barriers') = Len(barriers) - 1
      /\ \A i \in 1 .. Len(barriers') : barriers'[i] = barriers[i + 1]
      /\ r = barriers[1]
  BY <1>1, <1>2, HeadTailProperties, EmptySeq, HeadTailOfSubSeq
<1>5. DOMAIN barriers = 1 .. Len(barriers) /\ DOMAIN barriers' = 1 .. Len(barriers) - 1
  BY <1>2, <1>4, LenProperties
<1>6. /\ errorCount' \in 0 .. ServerErrorRequestLimit - 1
      /\ recovery' = [recovery EXCEPT ![r] = "probe"] \/ recovery' = recovery
  BY <1>2, BatchAssumption DEF CountError
<1>7. recovery' \in [Requests -> {"none", "probe", "moved", ""}]
  BY <1>3, <1>6
<1>8. UNCHANGED << baseURL, stage, switched, groupVars >>
  BY DEF CountError
<1>9. PlacesInv'
  <2>1. \A i, j \in DOMAIN barriers' : barriers'[i] = barriers'[j] => i = j
    <3> SUFFICES ASSUME NEW i \in DOMAIN barriers', NEW j \in DOMAIN barriers', barriers'[i] = barriers'[j]
                 PROVE  i = j
      OBVIOUS
    <3>1. i \in 1 .. Len(barriers') /\ j \in 1 .. Len(barriers') /\ i \in Int /\ j \in Int
      BY <1>4, <1>5
    <3>2. i + 1 \in DOMAIN barriers /\ j + 1 \in DOMAIN barriers
      BY <1>4, <1>5, <3>1
    <3>3. barriers[i + 1] = barriers[j + 1]
      BY <1>4, <3>1
    <3>4. i + 1 = j + 1
      BY <1>1, <3>2, <3>3 DEF PlacesInv
    <3> QED
      BY <3>1, <3>4
  <2>2. \A q \in Requests : Queued(q)' => Queued(q) /\ q # r
    <3> SUFFICES ASSUME NEW q \in Requests, NEW i \in DOMAIN barriers', barriers'[i] = q
                 PROVE  Queued(q) /\ q # r
      BY DEF Queued
    <3>1. i \in 1 .. Len(barriers') /\ i \in Int /\ i >= 1
      BY <1>4, <1>5
    <3>2. i + 1 \in DOMAIN barriers /\ 1 \in DOMAIN barriers /\ i + 1 # 1
      BY <1>4, <1>5, <3>1
    <3>3. barriers[i + 1] = q
      BY <1>4, <3>1
    <3> QED
      BY <1>1, <1>4, <3>2, <3>3 DEF PlacesInv, Queued
  <2>3. Queued(r)
    BY <1>4, <1>5 DEF Queued
  <2>4. stage[r] = "answered" /\ r \notin switched
    BY <1>1, <1>4, <2>3 DEF PlacesInv
  <2>5. \A q \in Requests : q # r => recovery'[q] = recovery[q]
    BY <1>3, <1>6
  <2>6. stage' = stage /\ switched' = switched
    BY <1>8
  <2>7. \A q \in Requests : /\ Queued(q)' \/ recovery'[q] # "none" \/ q \in switched' => stage'[q] = "answered"
                            /\ Queued(q)' => recovery'[q] = "none" /\ q \notin switched'
                            /\ recovery'[q] # "none" => q \notin switched'
    BY <1>1, <2>2, <2>4, <2>5, <2>6 DEF PlacesInv
  <2> QED
    BY <2>1, <2>7 DEF PlacesInv
<1>10. baseURL' \in InFlight
  BY <1>1, <1>8 DEF TypeOK
<1> QED
  BY <1>4, <1>6, <1>7, <1>8, <1>9, <1>10, RecoveryStep

\* The second service's answer, or its loss, moves a request within the recovery.
LEMMA ProbeStep ==
  ASSUME BatchInv, NEW r \in Requests, Probe(r)
  PROVE  BatchInv'
<1>1. PlacesInv /\ TypeOK
  BY DEF BatchInv
<1>2. /\ recovery[r] = "probe" /\ baseURL' \in InFlight
      /\ \E x \in {"none", "moved", ""} : recovery' = [recovery EXCEPT ![r] = x]
      /\ UNCHANGED << errorCount, stage, barriers, switched, groupVars >>
  BY <1>1 DEF Probe, ProbeLost, ProbeAnswered, TypeOK, InFlight
<1>3. recovery \in [Requests -> {"none", "probe", "moved", ""}]
  BY <1>1 DEF TypeOK
<1>4. recovery' \in [Requests -> {"none", "probe", "moved", ""}]
  BY <1>2, <1>3
<1>5. \A q \in Requests : q # r => recovery'[q] = recovery[q]
  BY <1>2, <1>3
<1>6. PlacesInv'
  <2>1. \A q \in Requests : Queued(q)' <=> Queued(q)
    BY <1>2 DEF Queued
  <2>2. ~Queued(r) /\ stage[r] = "answered" /\ r \notin switched
    BY <1>1, <1>2 DEF PlacesInv
  <2> QED
    BY <1>1, <1>2, <1>5, <2>1, <2>2 DEF PlacesInv
<1>7. barriers' \in Seq(Requests) /\ errorCount' \in 0 .. ServerErrorRequestLimit - 1
  BY <1>1, <1>2 DEF TypeOK
<1> QED
  BY <1>2, <1>4, <1>6, <1>7, RecoveryStep

\* What is delivered has a result of each request, all of which were answered.
LEMMA DeliverStep ==
  ASSUME BatchInv, NEW b \in Batches, Deliver(b)
  PROVE  BatchInv'
<1>1. /\ TypeOK /\ PlacesInv /\ SentInv /\ OpenCounts /\ CrashNeedsSwitch /\ ResultsInv
      /\ NoticeInv /\ AnswersComplete /\ ~crashed /\ notice[b] = "posted"
  BY DEF BatchInv, Deliver
<1>2. /\ notice' = [notice EXCEPT ![b] = "delivered"]
      /\ received' = [received EXCEPT ![b] = results[b]]
  BY DEF Deliver
<1>3. UNCHANGED << baseURL, errorCount, stage, barriers, recovery, switched, open, results, crashed >>
  BY DEF Deliver, netVars
<1>4. /\ notice \in [Batches -> {"unset", "set", "posted", "delivered"}]
      /\ results \in [Batches -> Seq(ResultOf)] /\ received \in [Batches -> Seq(ResultOf)]
  BY <1>1 DEF TypeOK, ResultOf
<1>5. TypeOK'
  <2>1. /\ notice' \in [Batches -> {"unset", "set", "posted", "delivered"}]
        /\ received' \in [Batches -> Seq(ResultOf)]
    BY <1>2, <1>4
  <2> QED
    BY <1>1, <1>3, <2>1 DEF TypeOK, ResultOf
<1>6. PlacesInv'
  BY <1>1, <1>3 DEF PlacesInv, Queued
<1>7. SentInv'
  <2>1. \A r \in Requests : notice'[r[1]] = "unset" <=> notice[r[1]] = "unset"
    BY <1>1, <1>2, <1>4 DEF Requests
  <2> QED
    BY <1>1, <1>3, <2>1 DEF SentInv
<1>8. \A c \in Batches : Flights(c)' = Flights(c) /\ Answered(c)' = Answered(c) /\ Second(c)' = Second(c)
  BY <1>3 DEF Flights, Answered, Second
<1>9. OpenCounts' /\ CrashNeedsSwitch'
  BY <1>1, <1>3, <1>8 DEF OpenCounts, CrashNeedsSwitch
<1>10. ResultsInv'
  BY <1>1, <1>3, <1>8 DEF ResultsInv
<1>11. NoticeInv'
  <2>1. \A c \in Batches : notice'[c] \in {"posted", "delivered"} => notice[c] \in {"posted", "delivered"}
    BY <1>1, <1>2, <1>4
  <2> QED
    BY <1>1, <1>8, <2>1 DEF NoticeInv
<1>12. ASSUME ~SwitchedIn(b)
       PROVE  /\ Len(results[b]) = Cardinality(Attributes)
              /\ {results[b][i].of : i \in DOMAIN results[b]} = Attributes
  <2>1. Second(b) = {}
    BY <1>12 DEF SwitchedIn, Second
  <2>2. Flights(b) = {}
    BY <1>1, <2>1 DEF NoticeInv
  <2>3. Answered(b) = OfBatch(b)
    <3>1. \A r \in OfBatch(b) : stage[r] # "unsent"
      BY <1>1 DEF OfBatch, SentInv
    <3>2. \A r \in OfBatch(b) : stage[r] \notin InFlight
      BY <2>2 DEF OfBatch, Flights
    <3>3. \A r \in OfBatch(b) : stage[r] \in InFlight \cup {"unsent", "answered"}
      BY <1>1 DEF OfBatch, TypeOK
    <3> QED
      BY <3>1, <3>2, <3>3 DEF Answered, OfBatch
  <2>4. Len(results[b]) = Cardinality(Attributes)
    <3>1. Len(results[b]) = Cardinality(OfBatch(b)) + Cardinality({})
      BY <1>1, <2>1, <2>3 DEF ResultsInv
    <3> QED
      BY <3>1, BatchSize, FS_EmptySet
  <2>5. \A i \in DOMAIN results[b] : results[b][i].of \in Attributes
    <3>1. results[b] \in [1 .. Len(results[b]) -> ResultOf]
      BY <1>4, LenProperties
    <3> QED
      BY <3>1 DEF ResultOf
  <2>6. \A a \in Attributes : \E i \in DOMAIN results[b] : results[b][i].of = a
    <3>1. \A a \in Attributes : << b, a >> \in Answered(b) /\ << b, a >>[2] = a
      BY <2>3 DEF OfBatch, Requests
    <3> QED
      BY <1>1, <3>1 DEF ResultsInv
  <2> QED
    BY <2>4, <2>5, <2>6
<1>13. AnswersComplete'
  <2> SUFFICES ASSUME NEW c \in Batches, notice'[c] = "delivered", ~SwitchedIn(c)
               PROVE  /\ Len(received'[c]) = Cardinality(Attributes)
                      /\ {received'[c][i].of : i \in DOMAIN received'[c]} = Attributes
    BY <1>3 DEF AnswersComplete, SwitchedIn
  <2>1. CASE c = b
    BY <1>2, <1>4, <1>12, <2>1
  <2>2. CASE c # b
    BY <1>1, <1>2, <1>4, <2>2 DEF AnswersComplete
  <2> QED
    BY <2>1, <2>2
<1> QED
  BY <1>5, <1>6, <1>7, <1>9, <1>10, <1>11, <1>13 DEF BatchInv

\* Every step preserves the invariant.
LEMMA BatchNext == BatchInv /\ [Next]_vars => BatchInv'
<1> SUFFICES ASSUME BatchInv, [Next]_vars PROVE BatchInv'
  OBVIOUS
<1>1. ASSUME NEW b \in Batches, RequestAll(b) \/ Deliver(b)
      PROVE  BatchInv'
  BY <1>1, RequestAllStep, DeliverStep
<1>2. ASSUME NEW r \in Requests, Answer(r)
      PROVE  BatchInv'
  <2>1. \E ok \in BOOLEAN : FirstAnswer(r, ok)
    BY <1>2 DEF Answer, Respond, RespondServerError, FirstAnswer
  <2> QED
    BY <2>1, FirstAnswerStep
<1>3. ASSUME NEW r \in Requests, Probe(r)
      PROVE  BatchInv'
  BY <1>3, ProbeStep
<1>4. ASSUME NEW r \in Requests, NEW ok \in BOOLEAN, GetAnswered(r, ok)
      PROVE  BatchInv'
  BY <1>4, SecondAnswerStep
<1>5. CASE CountError
  BY <1>5, CountErrorStep
<1>6. CASE UNCHANGED vars
  <2>1. UNCHANGED << stage, switched, groupVars, barriers, baseURL, errorCount, recovery >>
    BY <1>6 DEF vars, netVars
  <2>2. PlacesInv /\ TypeOK
    BY DEF BatchInv
  <2>3. PlacesInv'
    BY <2>1, <2>2 DEF PlacesInv, Queued
  <2>4. /\ barriers' \in Seq(Requests) /\ baseURL' \in InFlight
        /\ errorCount' \in 0 .. ServerErrorRequestLimit - 1
        /\ recovery' \in [Requests -> {"none", "probe", "moved", ""}]
    BY <2>1, <2>2 DEF TypeOK
  <2> QED
    BY <2>1, <2>3, <2>4, RecoveryStep
<1> QED
  BY <1>1, <1>2, <1>3, <1>4, <1>5, <1>6 DEF Next

-----------------------------------------------------------------------------

\* The inductive invariant holds of every behaviour of batches and recoveries
\* in request(attributes:) and RyNetManager.
THEOREM BatchInvariance == Spec => []BatchInv
<1> QED
  BY BatchInit, BatchNext, PTL DEF Spec

\* The error count of RyNetManager stays below its limit between barrier blocks,
\* and the groups of request(attributes:) hold no more enters than attributes.
THEOREM BatchTypes == Spec => []TypeOK
<1>1. BatchInv => TypeOK
  BY DEF BatchInv
<1> QED
  BY <1>1, BatchInvariance, PTL

\* The DispatchGroup of a batch counts the requests in flight, less the second
\* answers of recoveries.
THEOREM GroupsCount == Spec => []OpenCountsFlights
<1>1. BatchInv => OpenCountsFlights
  BY DEF BatchInv, OpenCounts, OpenCountsFlights, Flights, Second
<1> QED
  BY <1>1, BatchInvariance, PTL

\* Without a recovery that runs to its end, no order of answers makes leave()
\* outnumber enter().
THEOREM CrashesNeedSwitch == Spec => []CrashNeedsSwitch
<1>1. BatchInv => CrashNeedsSwitch
  BY DEF BatchInv
<1> QED
  BY <1>1, BatchInvariance, PTL

\* A batch none of whose requests was answered twice is called back with one
\* result of each attribute.
THEOREM BatchesComplete == Spec => []AnswersComplete
<1>1. BatchInv => AnswersComplete
  BY DEF BatchInv
<1> QED
  BY <1>1, BatchInvariance, PTL

\* Once the base URL is empty and nothing sent before is under way, no step counts
\* an error, asks for a base URL or sends a request to another one.
LEMMA StrandedStep ==
  ASSUME TypeOK, Stranded, [Next]_vars
  PROVE  Stranded'
<1>1. /\ baseURL = "" /\ barriers = << >>
      /\ \A r \in Requests : recovery[r] # "probe" /\ stage[r] \notin {"given", "moved"}
      /\ stage \in [Requests -> InFlight \cup {"unsent", "answered"}]
      /\ recovery \in [Requests -> {"none", "probe", "moved", ""}]
  BY DEF Stranded, TypeOK
<1>2. ASSUME NEW b \in Batches, RequestAll(b)
      PROVE  Stranded'
  BY <1>1, <1>2 DEF RequestAll, Stranded
<1>3. ASSUME NEW b \in Batches, Deliver(b)
      PROVE  Stranded'
  BY <1>1, <1>3 DEF Deliver, netVars, Stranded
<1>4. ASSUME NEW r \in Requests, Answer(r)
      PROVE  Stranded'
  <2>1. stage' = [stage EXCEPT ![r] = "answered"] /\ UNCHANGED << baseURL, barriers, recovery >>
    BY <1>1, <1>4 DEF Answer, Respond, RespondServerError, InFlight
  <2> QED
    BY <1>1, <2>1 DEF Stranded
<1>5. ASSUME NEW r \in Requests, Probe(r)
      PROVE  Stranded'
  BY <1>1, <1>5 DEF Probe, ProbeLost, ProbeAnswered
<1>6. ASSUME NEW r \in Requests, NEW ok \in BOOLEAN, GetAnswered(r, ok)
      PROVE  Stranded'
  <2>1. recovery' = [recovery EXCEPT ![r] = "none"] /\ UNCHANGED << baseURL, barriers, stage >>
    BY <1>6 DEF GetAnswered
  <2> QED
    BY <1>1, <2>1 DEF Stranded
<1>7. CASE CountError
  BY <1>1, <1>7 DEF CountError
<1>8. CASE UNCHANGED vars
  BY <1>1, <1>8 DEF vars, netVars, Stranded
<1> QED
  BY <1>2, <1>3, <1>4, <1>5, <1>6, <1>7, <1>8 DEF Next

\* RyNetManager never leaves an empty base URL, once what was sent before is done.
THEOREM EmptyBaseStays == Spec => EmptyBaseIsFinal
<1>1. TypeOK /\ Stranded /\ [Next]_vars => Stranded'
  BY StrandedStep
<1> QED
  BY <1>1, BatchTypes, PTL DEF Spec, EmptyBaseIsFinal
=============================================================================
