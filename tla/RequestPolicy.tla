--------------------------- MODULE RequestPolicy ----------------------------
(***************************************************************************)
(* Request.policy and requesCustom over Cache, and clients that store keys *)
(* and items and ask for schedules, one call after another. A policy call  *)
(* for several keys is one for each, in any order.                         *)
(***************************************************************************)
EXTENDS CacheStore

VARIABLE
  recent   \* history, the client's own book: one item of each key used since
           \* the start or the last memory warning, the latest at the end

vars == << storeVars, call, recent >>

\* What of the book an LRUCache of ItemLimit items should still hold.
Newest(items) ==
  IF Len(items) > ItemLimit THEN SubSeq(items, Len(items) - ItemLimit + 1, Len(items)) ELSE items

Booked(items, item) == Append(Without(items, item.key), item)

\* The book of a client that asks for k.
BookLookUp(k) ==
  recent' = IF Holds(Newest(recent), k) THEN Booked(recent, ItemOf(Newest(recent), k)) ELSE recent

Init == StoreInit /\ recent = << >>

Alive == call.result # "ended"

-----------------------------------------------------------------------------

\* A client stores a key in memory, under a name or none.
StoreKey(k, flag, name) ==
  /\ Alive
  /\ DiskKey(k, flag, name)
  /\ call' = NoCall
  /\ UNCHANGED << itemCache, recent >>

\* A client stores an item in memory: an answer of the server, or its own.
StoreItem(item, flag, name) ==
  /\ Alive
  /\ DiskItem(item, flag, name)
  /\ recent' = Booked(recent, item)
  /\ call' = NoCall

\* A client calls diskItem(for:) with the key or with a name that is mapped to it.
ReadItem(k) ==
  /\ Alive
  /\ LookUp(k) /\ BookLookUp(k)
  /\ call' = NoCall
  /\ UNCHANGED << keyMapTable, keyCache >>

\* A client calls mem(cache:), memKey or memItem.
UseDatabase ==
  /\ Alive
  /\ Db("mem", None, FALSE, FALSE)
  /\ UNCHANGED recent

\* policy, for a student or a teacher: what is in memory is the answer, if the
\* key that was asked with has a start and that is no more than limited ahead.
\* Else the server is asked, and what it answers is for the client to store.
\* What is not in memory is looked for in the database if the flag says so.
Policy(k, flag, begun) ==
  /\ Alive
  /\ IF ~Holds(itemCache, k) /\ DiskFlag(k, flag)
     THEN Db("policy", k, flag, begun) /\ UNCHANGED recent
     ELSE /\ LookUp(k) /\ BookLookUp(k)
          /\ call' = Call("policy", k, flag, begun,
                          IF Holds(itemCache, k) /\ begun THEN ItemOf(itemCache, k).values ELSE "server")
          /\ UNCHANGED << keyMapTable, keyCache >>

\* The key requesCustom works on: the one given or, with disk, the one named
\* custom. Without one the database is asked.
CustomKey(asked, disk) ==
  IF asked # None THEN asked ELSE IF disk THEN keyMapTable ELSE None

\* requesCustom, and policy for a custom key (with disk): an item in memory is the
\* answer. Else the database is asked, so that nothing is ever made.
RequesCustom(asked, disk) ==
  /\ Alive
  /\ LET k == CustomKey(asked, disk)
     IN  IF disk /\ Holds(itemCache, k)
         THEN /\ LookUp(k) /\ BookLookUp(k)
              /\ call' = Call("custom", k, disk, TRUE, ItemOf(itemCache, k).values)
              /\ UNCHANGED << keyMapTable, keyCache >>
         ELSE Db("custom", k, disk, TRUE) /\ UNCHANGED recent

\* The cache of items hears of it, the keys and names stay.
MemoryWarning ==
  /\ Alive
  /\ itemCache' = << >> /\ recent' = << >>
  /\ call' = NoCall
  /\ UNCHANGED << keyMapTable, keyCache >>

\* The process is started, after it ended or was killed.
Launch ==
  /\ keyMapTable' = None /\ keyCache' = << >> /\ itemCache' = << >>
  /\ recent' = << >>
  /\ call' = NoCall

Next ==
  \/ \E k \in Keys, flag \in BOOLEAN, name \in {"none", "custom"} :
       \/ StoreKey(k, flag, name)
       \/ \E values \in Contents : StoreItem([key |-> k, values |-> values], flag, name)
  \/ \E k \in Keys : ReadItem(k)
  \/ UseDatabase
  \/ \E k \in Requested, flag, begun \in BOOLEAN : Policy(k, flag, begun)
  \/ \E asked \in Customs \cup {None}, disk \in BOOLEAN : RequesCustom(asked, disk)
  \/ MemoryWarning
  \/ Launch

Spec == Init /\ [][Next]_vars

-----------------------------------------------------------------------------

Calls == [by : {"none", "mem", "policy", "custom"}, key : Keys \cup {None}, flag : BOOLEAN,
          begun : BOOLEAN, result : {"none", "server", "ended"} \cup Contents]

\* The memory holds one item of a key and no more items than its limit.
TypeOK ==
  /\ keyMapTable \in Keys \cup {None}
  /\ DOMAIN keyCache \subseteq Keys /\ \A k \in DOMAIN keyCache : keyCache[k] \in BOOLEAN
  /\ Len(itemCache) <= ItemLimit /\ ToSet(itemCache) \subseteq Items
  /\ \A i, j \in DOMAIN itemCache : itemCache[i].key = itemCache[j].key => i = j
  /\ call \in Calls

\* The memory holds the items a client used last and the courses it stored last of
\* each, in whatever order it stored, read and asked, and nothing else: of another
\* key it has to ask the server again.
MemoryIsRecent == itemCache = Newest(recent)

\* A request ends the process only for a schedule that is not among those the
\* client used last: and then either it asked with the flag cache, whatever flags
\* the key was stored with, or for a custom schedule.
EndsForgotten ==
  ~Alive /\ call.by # "mem" =>
    /\ call.by = "policy" => call.flag
    /\ call.flag => ~Holds(Newest(recent), call.key)

\* An answer from memory is what the client stored last under the key, and policy
\* asks the server only for what is not among the items used last, or before the
\* term begins.
AnswersLatest ==
  /\ call.result \in Contents => recent # << >> /\ Last(recent) = [key |-> call.key, values |-> call.result]
  /\ call.result = "server" /\ call.begun => ~Holds(Newest(recent), call.key)

\* The comment on requesCustom: an item that cannot be fetched is created.
CustomIsMade == call.by = "custom" => Alive
=============================================================================
