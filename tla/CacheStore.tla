----------------------------- MODULE CacheStore -----------------------------
(***************************************************************************)
(* struct Cache: what a process keeps of schedules. Its memory (called     *)
(* disk in the code) is a set of keys, a key per name and an LRUCache of   *)
(* items. Its database (called mem) cannot be used: see Db.                *)
(* A key is its identity, the sno and type that == compares. Of what else  *)
(* a Key carries the flag cache is kept; its start is asked of the caller. *)
(***************************************************************************)
EXTENDS Integers, SequencesExt

CONSTANTS
  Requested,   \* keys of students and teachers
  Customs,     \* keys of type custom
  Contents,    \* lists of courses, the empty one too
  ItemLimit,   \* countLimit of itemCache
  None         \* nil

Keys == Requested \cup Customs

Items == [key : Keys, values : Contents]

ASSUME StoreAssumption ==
  /\ Requested \cap Customs = {} /\ None \notin Keys
  /\ {"none", "server", "ended"} \cap Contents = {}
  /\ ItemLimit \in Nat \ {0}

VARIABLES
  keyMapTable,   \* the key cached under the name custom, or None (under the
                 \* other names only clients ask for a key)
  keyCache,      \* each key that was cached, to its flag cache
  itemCache,     \* items, the one used last at the end
  call           \* the latest call, if it was a request or the last of all

storeVars == << keyMapTable, keyCache, itemCache >>

\* Who called for which key, with the flag cache or the argument disk, after the
\* first day of the term or not; and what came of it.
Call(by, k, flag, begun, result) ==
  [by |-> by, key |-> k, flag |-> flag, begun |-> begun, result |-> result]

NoCall == Call("none", None, FALSE, FALSE, "none")

StoreInit ==
  /\ keyMapTable = None
  /\ keyCache = << >>
  /\ itemCache = << >>
  /\ call = NoCall

-----------------------------------------------------------------------------

Holds(items, k) == \E i \in DOMAIN items : items[i].key = k

ItemOf(items, k) == items[CHOOSE i \in DOMAIN items : items[i].key = k]

\* Items without that of key k, of which there is one at most.
Without(items, k) ==
  IF Holds(items, k) THEN RemoveAt(items, CHOOSE i \in DOMAIN items : items[i].key = k)
  ELSE items

\* Seeded fault: no limit.
UsedUnbounded(items, item) == Append(Without(items, item.key), item)

\* Seeded fault: an item that is there stays where it is.
UsedInPlace(items, item) ==
  IF Holds(items, item.key) THEN [i \in DOMAIN items |-> IF items[i].key = item.key THEN item ELSE items[i]]
  ELSE LET s == Append(items, item) IN IF Len(s) > ItemLimit THEN Tail(s) ELSE s

\* Seeded fault: an item that is there is kept, as keyCache keeps a key.
UsedAsBefore(items, item) ==
  LET kept == IF Holds(items, item.key) THEN ItemOf(items, item.key) ELSE item
      s == Append(Without(items, item.key), kept)
  IN  IF Len(s) > ItemLimit THEN Tail(s) ELSE s

\* setValue(item) and, of an item that is there, value(forKey:): it is the
\* newest afterwards, and the oldest goes when there are too many.
Used(items, item) ==
  LET s == Append(Without(items, item.key), item)
  IN  IF Len(s) > ItemLimit THEN Tail(s) ELSE s

\* itemCache.value(forKey: k)
LookUp(k) ==
  itemCache' = IF Holds(itemCache, k) THEN Used(itemCache, ItemOf(itemCache, k)) ELSE itemCache

\* disk(cache key:for:): of equal keys the set keeps the one it has.
DiskKey(k, flag, name) ==
  /\ keyMapTable' = IF name = "custom" THEN k ELSE keyMapTable
  /\ keyCache' = [x \in DOMAIN keyCache \cup {k} |-> IF x \in DOMAIN keyCache THEN keyCache[x] ELSE flag]

\* disk(cache item:for:)
DiskItem(item, flag, name) ==
  /\ DiskKey(item.key, flag, name)
  /\ itemCache' = Used(itemCache, item)

\* Seeded fault: what the name of union(service:) says.
UnionOfBoth(own, given) == own \/ given

\* Key.union(service:) replaces the flags: in service.union(service) both are the
\* parameter, which hides the property.
Union(own, given) == given

\* The flag of diskKey(for: .compare(k))
DiskFlag(k, flag) == IF k \in DOMAIN keyCache THEN Union(keyCache[k], flag) ELSE flag

\* Whoever first needs Cache.db has the table "key" created, for which WCDB casts
\* the type of every column of Key with as! to ColumnDecodable. Kind and Service
\* do not conform: the process ends, and try? does not keep it. So do all of
\* mem(cache:), memKey and memItem, whose further statements are never reached.
Db(by, k, flag, begun) ==
  /\ call' = Call(by, k, flag, begun, "ended")
  /\ UNCHANGED storeVars
=============================================================================
