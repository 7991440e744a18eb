---------------------------- MODULE ScheduleMap -----------------------------
(***************************************************************************)
(* class Map of Map.swift: pointMap files, per grid position, the nodes    *)
(* that want it, best first; nodeMap holds, per node, the positions it is  *)
(* the best of, as one IndexSet of locations per section. insert(course:)  *)
(* calls insert(node:in:) once per position of the course, one step each.  *)
(***************************************************************************)
EXTENDS ScheduleData, SequencesExt

CONSTANT MaxPile     \* bound: nodes piled on one position

ASSUME PileAssumption == MaxPile \in Nat

VARIABLES
  sno,       \* Map.sno
  pointMap,  \* [AnyLocatable: LinkedList<Node>]
  nodeMap,   \* [Node: [IndexSet]], by the identity of the node
  pending,   \* what insert(course:with:) still has to insert
  settled    \* history: sno has not changed since the first insertion

vars == << sno, pointMap, nodeMap, pending, settled >>

\* An entry of nodeMap. A Swift dictionary keeps the key it was first given, so
\* "model" is the node (with its kind) that created the entry; "count" is the
\* length of the array of index sets, "cover" their <<section, location>> pairs.
Entries == [model : Nodes, count : Nat, cover : SUBSET (Nat \X Locations)]

Owners == Snos \cup {NoSno}

Init ==
  /\ sno = NoSno
  /\ pointMap = << >>
  /\ nodeMap = << >>
  /\ pending = {}
  /\ settled = TRUE

-----------------------------------------------------------------------------

Kind(key) ==
  IF sno = NoSno THEN Mine
  ELSE IF sno # key.sno THEN Others
  ELSE IF key.type = "custom" THEN Custom ELSE Mine

\* Seeded fault: length decides across kinds.
BeatsByLength(n, m) == n.kind < m.kind \/ PeriodCount(n.value) >= PeriodCount(m.value)

\* The test of firstIndex: a new node goes before the first node it beats.
Beats(n, m) ==
  \/ n.kind < m.kind
  \/ n.kind = m.kind /\ PeriodCount(n.value) >= PeriodCount(m.value)

ListAt(c) == IF c \in DOMAIN pointMap THEN pointMap[c] ELSE << >>

\* Seeded fault: firstIndex { ... } ?? startIndex
IsPlaceOrStart(list, n, i) ==
  LET beaten == {j \in DOMAIN list : Beats(n, list[j])}
  IN  i = IF beaten = {} THEN 1 ELSE Min(beaten)

\* firstIndex { ... } ?? endIndex
IsPlace(list, n, i) ==
  /\ i \in 1 .. Len(list) + 1
  /\ \A j \in 1 .. i - 1 : ~Beats(n, list[j])
  /\ i <= Len(list) => Beats(n, list[i])

At(c) == << c.section, c.location >>

\* Seeded fault: the old head keeps the position.
UncoverNothing(entries, list, c) == entries

\* nodeMap[head]?[section].remove(location), before the list changes
Uncover(entries, list, c) ==
  IF list # << >> /\ NodeID(Head(list)) \in DOMAIN entries
  THEN [entries EXCEPT ![NodeID(Head(list))].cover = @ \ {At(c)}]
  ELSE entries

\* Seeded fault: "if" for "while" when the array of index sets is grown.
CoverGrownOnce(entries, n, c) ==
  LET id    == NodeID(n)
      known == id \in DOMAIN entries
      old   == IF known THEN entries[id] ELSE [model |-> n, count |-> 0, cover |-> {}]
      grown == IF old.count <= c.section THEN old.count + 1 ELSE old.count
      new   == [model |-> old.model, count |-> grown, cover |-> old.cover \cup {At(c)}]
  IN  [k \in DOMAIN entries \cup {id} |-> IF k = id THEN new ELSE entries[k]]

\* The entry of the node that is first now, created or grown to the section.
Cover(entries, n, c) ==
  LET id    == NodeID(n)
      known == id \in DOMAIN entries
      old   == IF known THEN entries[id] ELSE [model |-> n, count |-> 0, cover |-> {}]
      grown == IF old.count <= c.section THEN c.section + 1 ELSE old.count
      new   == [model |-> old.model, count |-> grown, cover |-> old.cover \cup {At(c)}]
  IN  [k \in DOMAIN entries \cup {id} |-> IF k = id THEN new ELSE entries[k]]

\* insert(node:in:)
InsertNode(n, c) ==
  \E i \in 1 .. Len(ListAt(c)) + 1 :
    /\ IsPlace(ListAt(c), n, i)
    /\ LET list == InsertAt(ListAt(c), i, n)
       IN  /\ pointMap' = [d \in DOMAIN pointMap \cup {c} |->
                             IF d = c THEN list ELSE pointMap[d]]
           /\ nodeMap' = Cover(Uncover(nodeMap, ListAt(c), c), Head(list), c)

Idle == pending = {}

\* insert(course:with:): kind is computed once, here.
InsertCourse(course, key) ==
  /\ Idle
  /\ \A c \in Locates(course) : Len(ListAt(c)) < MaxPile
  /\ pending' = {[key |-> key, value |-> course, kind |-> Kind(key)]} \X Locates(course)
  /\ UNCHANGED << sno, pointMap, nodeMap, settled >>

\* One turn of its loop over course.locates.
InsertNext ==
  \E p \in pending :
    /\ \A q \in pending : ~Before(q[2], p[2])
    /\ InsertNode(p[1], p[2])
    /\ pending' = pending \ {p}
    /\ UNCHANGED << sno, settled >>

\* The public variable sno is assigned by the owner of the map.
SetSno(s) ==
  /\ Idle
  /\ sno' = s
  /\ settled' = (settled /\ (s = sno \/ DOMAIN pointMap = {}))
  /\ UNCHANGED << pointMap, nodeMap, pending >>

Next ==
  \/ \E course \in Courses, key \in Keys : InsertCourse(course, key)
  \/ InsertNext
  \/ \E s \in Owners : SetSno(s)

Spec == Init /\ [][Next]_vars

-----------------------------------------------------------------------------

IsMapOf(f, D, R) == DOMAIN f \subseteq D /\ \A x \in DOMAIN f : f[x] \in R

\* Types of the four variables and of the history.
TypeOK ==
  /\ sno \in Owners
  /\ IsMapOf(pointMap, Cells, Seq(Nodes) \ {<< >>})
  /\ IsMapOf(nodeMap, NodeIDs, Entries)
  /\ pending \subseteq Nodes \X Cells
  /\ settled \in BOOLEAN

\* The first node of every position has an entry in nodeMap that covers the
\* position, at a section its array reaches: the force-indexed removal
\* nodeMap[oldValue]?[locate.section] of the next insertion finds its index.
HeadsCovered ==
  \A c \in DOMAIN pointMap :
    LET id == NodeID(Head(pointMap[c]))
    IN  /\ id \in DOMAIN nodeMap
        /\ At(c) \in nodeMap[id].cover
        /\ c.section < nodeMap[id].count

\* Nothing is covered twice or by a node that lost the position: what nodeMap
\* says a node covers is a position of its day where the node is first.
CoverOwned ==
  \A id \in DOMAIN nodeMap : \A at \in nodeMap[id].cover :
    LET c == [section |-> at[1], week |-> id.course.inDay, location |-> at[2]]
    IN  c \in DOMAIN pointMap /\ NodeID(Head(pointMap[c])) = id

\* Every pile is ordered: own courses, then custom ones, then those of others,
\* and longer before shorter within a kind, whatever the order of insertion.
ListsRanked ==
  \A c \in DOMAIN pointMap :
    \A i, j \in DOMAIN pointMap[c] : i < j => Beats(pointMap[c][i], pointMap[c][j])

\* While sno has kept its value since the first insertion, the kind that the
\* views read from nodeMap's key is the kind of the node that is first.
KindsAgree ==
  settled => \A c \in DOMAIN pointMap :
    LET head == Head(pointMap[c])
    IN  NodeID(head) \in DOMAIN nodeMap => nodeMap[NodeID(head)].model.kind = head.kind

\* The offer a cell shows according to nodeMap (what it covers) and, for its
\* rank, according to pointMap.
Holder ==
  [c \in DOMAIN pointMap |->
     CHOOSE id \in DOMAIN nodeMap : id.course.inDay = c.week /\ At(c) \in nodeMap[id].cover]

Shown == [c \in DOMAIN pointMap |-> [id |-> Holder[c], kind |-> Head(pointMap[c]).kind]]

OfferOutranks(n, m) ==
  \/ n.kind < m.kind
  \/ n.kind = m.kind /\ PeriodCount(n.id.course) >= PeriodCount(m.id.course)

Board == INSTANCE CellBoard WITH
  Cell <- Cells, Offer <- [id : NodeIDs, kind : Kinds],
  Outranks <- OfferOutranks, board <- Shown

\* The dictionaries implement the board: a cell changes hands only to a node
\* that outranks its holder, one cell at a time, and is never vacated.
ImplementsBoard == Board!BoardSpec
=============================================================================
