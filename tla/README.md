# RockSchedule in TLA+

RockSchedule is a Swift library that shows a student's timetable: it requests
timetables from a server, merges those of several people and the user's own
entries into one conflict map, and hands a collection view what to draw, week
by week. This directory holds TLA+ models of the parts of it that keep state
worth reasoning about, the TLC configurations that check them, and proofs that
TLAPS checks. `PROJECT.json` says which lines each definition stands for.

Source paths below are relative to `src/RockSchedule/Classes/`.

## 1. Inventory

| Component | State | Operations | What is hard | What makes it correct |
|---|---|---|---|---|
| `DataSource/Course,Key,Locate` | none (values) | `locates`, `periodCount`, `==`, `setEXP` | two kinds of rows, half-open ranges, an `==` that leaves fields out, two kinds of weeks | positions lie on the grid; identity is what the dictionaries need; the start of the term is found from any day of it |
| `DataSource/Map` | `sno`, `pointMap`, `nodeMap` | `insert(course:with:)`, `insert(node:in:)` | two dictionaries changed in step, forced index, kinds that depend on a mutable `sno` | every occupied cell is covered by exactly the node on top of its pile |
| `DataSource/FinalMap` | `keys`, `sections`, `nowWeek`, `startDate`, `useImmediate`, `finalRange` | `insert(item:)`, `final`, `showWeek` | a cache invalidated by an override, state written after the loop | the cached model is what a rebuild would give; nothing is drawn twice |
| `LinkedList` | nodes on the heap, `headNode`, `tailNode`, `count` | insertions, removals, setter, copies | copies share nodes, weak back references | a list is a value |
| `LRUCache` | dictionary, unsafe linked list, `totalCost`, limits, lock | `setValue`, `value`, `removeValue`, `removeAllValues`, limits, `clean` | threads, a gap between two critical sections, dangling references | list and dictionary agree, limits hold when all is quiet, eviction is by recency |
| `RyNetManager` | `baseURL`, error count, barrier queue | `request`, recovery | answers in any order, a completion called twice, a counter shared by all | see `RequestBatch` |
| `DataSource/Request` | a dispatch group per batch | `request(attributes:)`, `policy`, `requesCustom` | completions in any order, group accounting | every batch is answered once, completely |
| `DataSource/Cache` | `keyCache`, `keyMapTable`, `itemCache`, a database | `disk`, `mem` and their readers | eviction, flags that are replaced, a `try?` that catches no trap | memory holds what was used and stored last; a request needs the database only for what is not there |
| `DataSource/TimeLine` | special times of a day | layouts, rows | rows depend on the set of specials | items stand beside the labels of their periods |
| `Service/DataSourceService`, `InteractiveService` | `map`, start and direction of a drag | request, callbacks of the collection view, `scroll(to:)` | every callback reads `final` again, index tests that are off by one, drags, animations and answers that overlap | no callback indexes past `final`; the view rests on a page that is drawn; the marked day is today |
| `OrderedSet`, `CountedSet` | array and dictionary | set operations | two representations in step | unused by the rest of the package |
| `Layout` | `sections`, `pageCalculation`, caches of attributes | invalidation, attributes, target of a drag | a window of pages around the last drag | every page the view comes to is laid out |
| `Views`, `Extension`, `VCTransitioningDelegate` | frames, gesture state | UIKit callbacks | geometry | not modelled |
| `src/Example`, `src/Example/Pods` | | | | host application and vendored code |

How they interact: the application asks `DataSourceService` (or calls
`FinalMap.insert(item:)` itself); the service calls `Request.request(attributes:)`,
which sends one request per attribute through `RyNetManager.shared` and calls
back on the main queue with all results; each item is inserted into the
`FinalMap`; the collection view's callbacks read `FinalMap.final` and
`Map.pointMap`. `Cache` keeps items in an `LRUCache`; its database cannot be opened, and
whoever asks it for something ends the process.

## 2. Modules

| Module | Models | Checked by | Proved in |
|---|---|---|---|
| `ScheduleData` | courses, keys, positions, nodes and their identity | with the two below | `ScheduleMapProofs` (lemmas) |
| `ScheduleMap` | class `Map` | run `map` | `ScheduleMapProofs` |
| `CellBoard` | abstract: a cell shows one course, taken over only by one that outranks it | run `map` (`ImplementsBoard`) | `Refinement` |
| `TermCalendar` | weeks and days: `Key.setEXP`, `nowWeek`, the dates of sections | with `FinalMap` and `ScheduleView` | `ScheduleViewProofs` |
| `FinalMap` | class `FinalMap`, extends `ScheduleMap` as the class does | run `final` | `FinalMapProofs`, `DataSourceProofs` |
| `MapSections` | abstract: how many sections there are, and when the view sees it | run `final` (`ImplementsSections`) | `SectionsRefinement` |
| `DataSource` | rows and heights of items, the labels of `TimeLine` | run `final` | `DataSourceProofs` |
| `ScheduleView` | the callbacks of `DataSourceService`, `scroll(to:)`, the sections and targets of the layout, a user, the calendar; extends `MapSections` | runs `view`, `view_dates` | `ScheduleViewProofs` |
| `LinkedList` | struct `LinkedList` with its nodes on the heap | runs `list`, `list_*` | `LinkedListProofs` |
| `ValueLists` | abstract: lists are values | run `list` (`ImplementsValues`) | `ListsAreValues` |
| `LRUCache` | class `LRUCache`, threads, heap | runs `lru`, `lru_cost` | `LRUCacheProofs` |
| `RecencyQueue` | abstract: entries in the order of last use | run `lru` (`ImplementsQueue`) | `CacheIsQueue` |
| `RequestBatch` | `RyNetManager` and `Request.request(attributes:)` together | run `batch` | `RequestBatchProofs` |
| `CacheStore` | struct `Cache`: the memory of a process, and what opening the database does | with the one below | `RequestPolicyProofs` (lemmas) |
| `RequestPolicy` | `policy`, `requesCustom`, clients, memory warnings, starts | runs `policy`, `policy_custom` | `RequestPolicyProofs` |
| `MC*` | constants and symmetry for TLC | | |

Operators marked "Seeded fault" are wrong variants of the definition that
follows them (a dropped guard, a missing reset). No specification uses them;
each of them put in place of its original makes a property of a run fail, which
shows that the property depends on that piece of code.

### ScheduleData and ScheduleMap

A course is a record of what `Course.==` compares and of its sections; the
three strings that `==` compares are one `title`. `Locates` is
`Course.locates`: a row per period (a row each is kept free for noon and night)
and per special time, in each section and in section 0, the whole term.
`NodeID` is the identity that `Map.Node.==` and `Course.==` define: neither
`kind` nor the sections are part of it. `pointMap` is a function from positions
to sequences, `nodeMap` one from identities to what the dictionary holds: the
node that created the entry (a Swift dictionary keeps the key it was first
given), the length of the array of index sets, and their contents as pairs of
section and row.

`insert(course:with:)` is `InsertCourse`, which computes the node and the
positions, followed by one `InsertNext` per position, in the order of
`Course.locates` (`Before`). `InsertNode` is the whole of `insert(node:in:)`:
the removal from the old head (`Uncover`), the search and insertion
(`IsPlace`, `Beats`), and the growth and insertion for the new head (`Cover`).
Splitting the loop is sound: `Map` is used from the main thread, so nothing
else happens to the map in between (`Idle` guards the other actions), but every
intermediate state is checked as well. `SetSno` is the assignment to the public
`sno`; `settled` is a history variable that says it has not changed since the
first insertion.

### FinalMap

`insert(item:)` is `BeginInsert` (the entry of `keys`), then `BeginCourse` and
`InsertPosition` in turn, then `EndInsert` (`startDate`, `nowWeek`).
`ReadFinal` is the getter `final` when it rebuilds; when it does not, it
changes nothing. Dates are days, `Today` a constant. `SectionModel.values` is a
set: the code fills it in the order of a dictionary, which is no order.
`bare` is a history variable: an item without positions came after the last
rebuild.

### TermCalendar, MapSections, DataSource

`TermCalendar` counts days from a Monday. `SetEXP` is `Key.setEXP`: from the day it
is and the week of the term the server says it is, the Monday of the first week. The
gregorian weeks in which it counts begin on Sunday, `ServerWeek` on Monday.

`MapSections` is what the view relies on: insertions make the timetable longer, and
`sections` and `final.count` follow at the next read of `final`. The refinement maps
its `grown` to the length of the longest array in `nodeMap`.

`DataSource` puts an item of `final` on a row (`LocationForItem`) over a number of
rows (`LenthLocate`), next to the column of labels (`Layouts`). `specialTime` is
always empty, as no code writes it. `RowsAgree` compares the labels next to an item
with the periods it stands for.

### ScheduleView

One page of the collection view is one section, and offsets are in half pages; of
the height there are two values, enough to tell a vertical movement. `Reload` is
`reloadData()` in the closure that follows an answer: `invalidateLayout` asks
`numberOfSections`, which reads `final`. `BeginDrag`, `EndDrag`, `EndGlide` and
`DidScroll` are the callbacks of the scroll view; `DidScroll`, called with every
offset, is part of each step that moves it. `Targets` is `targetContentOffset`:
whatever the velocity, no further than a page from `pageCalculation`. `Trap` is the
forced index of `viewForSupplementaryElementOfKind`, asked for the sections that are
on the screen and have attributes (`Window`).

`Answer` is what `request(attribute:response:)` makes of any JSON. The server made it on
some day since the batch was sent (`served`), and `Key.setEXP` counts back from the day
on which it is handled (`today`): `NextDay` may come between the two, between the
answers of a batch, before their insertion and before the next look at the view. The
week may be missing, which is week 0, and so may the courses, which is an item without
positions; both are successes. `Answer` and `Respond` keep of a batch the most sections
and the last success, which is all that `insert(item:)` leaves of it here: the last one
decides `start` and `nowWeek`, and only positions reset `useImmediate`. `Reload` builds
the sections again, and with them their dates, only if it was reset (`drawn`).
`RequestBatch` has the batch itself, `FinalMap` the rest of the insertion.

UIKit is external and modelled as the code uses it: a finger moves the offset within
a page of where it began, a deceleration ends at its target, an animation at its
section, a drag may begin at any moment, and the offset stays within the content
(no bouncing). `scroll(to:)` is not called while a finger is on the screen, which is a
bound of the model. `aim`, `gesture`, `asked`, `decisive`, `inserted` and `drawn` are
history variables: what the last `scroll(to:)` asked for, what the last drag was taken
for, when the batch was sent, which answer decided the start, when it was inserted, and
which answer the dates drawn are from.

### LinkedList

Nodes are records on a heap; `next` is strong, `previous` weak, and `Store`
ends every operation with the effect of reference counting: nodes that no
`headNode`, `tailNode` or `next` reaches are gone and weak references to them
are nil. The nodes that stay are the least set that holds every `headNode` and
`tailNode` and the `next` of its members (`Held`). New nodes get addresses that no
node has, some fixed choice of them (`Fresh`): nothing compares addresses but for
equality. `NodesOf` is the walk of the `Iterator`, cut off one step after the last
address there is, so that a cycle is too long to pass for a list. A copy of the struct copies two references. `MapNext` contains what
`Map` does (`LinkedList(arrayLiteral:)` with one element and `insert(_:at:)`),
and the end of the owner; `Next` has all mutating operations. A call that would
trap is no step. `replaceSubrange` is modelled for the ranges its callers in
the type pass: an empty range, and one index replaced by nothing.

### LRUCache

Containers live on a heap of a few addresses, and a freed address may be used
again. Dictionary, `head`, `tail`, `prev` and `next` are as in the code;
`Unlink` is `remove(_:)` and `Link` is `append(_:)`. A call is one step when it
is one critical section. `setValue` and the setters of the limits leave the
thread at `"clean"`: outside the lock, with a call of `clean()` still to make,
and other threads' calls come in between; the setters do not take the lock, so
they also come between two turns of another thread's loop. The loop of
`clean()` is one step per turn. `Walk` is the loop of `allValues`, cut off one step
after the last container, and `CostOf` the sum of the costs along it.

### RequestBatch

A request is one attribute of one batch. Its `stage` holds the base URL it was
sent to. `Complete` is the closure that `request(attributes:)` passes down:
append the result, leave the group; the last leave posts the block that
`notify` registered, and a leave without an enter ends the process (`crashed`),
as libdispatch does. `Respond` and `RespondServerError` are `handleResponse`;
the latter queues the barrier block and completes at once with the failure.
`CountError` is the barrier block, `Probe*` the answer of the second service,
`GetAnswered` the request that follows it, whose completion is the one called
before. Alamofire, the two servers, libdispatch and the main queue are the
environment: answers come in any order. Without response validation Alamofire
reports a failure with a status of 500 to 599 only for a body it cannot
serialise, which the model leaves to chance.

### CacheStore and RequestPolicy

The code says "disk" for the memory of a process and "mem" for the database. A key is
its identity (`sno` and `type`). Of what else it carries `keyCache` keeps the flag
`cache`, which decides whether the database is asked; the start is an argument of
`Policy` (`begun`), because `policy` goes by the key it is asked with.

The database never opens. `Cache.db` creates the table `key` from the type `Key`, for
which WCDB casts the type of each column with `as!` to `ColumnDecodable`
(`ColumnTypeDecoder.swift:151-153`). `Key.Kind` and `Key.Service` (`Key.swift:15, 24`)
are `Codable` only, as are the sections and periods of a `Course` (`Course.swift:41-43`),
and nothing in the repository makes them conform. A failed cast is no error that `try?`
could turn into nil: the process ends. So the model has one action for all that first
needs the database (`Db`), and nothing of what `mem(cache:)`, `memKey` and `memItem` would
do behind it. There is one process, as nothing is shared.

`StoreKey`, `StoreItem`, `ReadItem` and `UseDatabase` are clients of the public calls.
`Policy` is one key of `policy`: `diskKey` with `Union` (which replaces the flags, as the
parameter `service` hides the property of that name), then `diskItem`, then the
database if the flag says so, then the test on the start, then the server. Its answer is
not stored by `policy`, which is why storing is left to clients, with any key and any
courses. `RequesCustom` is `requesCustom` and the custom branch of `policy`. (A name
given to `mem(cache:)` ends the process one line earlier, as `userDefaults` holds
property lists only and no `Key`.) `MemoryWarning` empties `itemCache` and leaves keys
and names; `Launch` begins again. `itemCache` is used by one thread here, so that its calls are the steps of `RecencyQueue` and `Used` is enough.

`call` is the latest request and what came of it, if anything is left to come
(`"ended"`). `recent` is a history variable: the book a client would keep of what it used,
without a limit. It is advanced by its own operators (`Booked`, `BookLookUp`), not by
those of the cache.

## 3. Runs

| Run | Instance | Shows |
|---|---|---|
| `map` | 4 courses, 3 keys of 2 owners, piles of at most 2 | types; the node on top of each pile is the one that covers the cell, and no other (`HeadsCovered`, `CoverOwned`); piles are sorted (`ListsRanked`); kinds agree while `sno` is settled (`KindsAgree`); `Map` implements `CellBoard` |
| `final` | 4 items of 2 owners, mode `double` | the cache is coherent, cells are drawn once and beside their labels, dates are fresh unless a bare item came, `showWeek` exists, `FinalMap` implements `MapSections` |
| `list` | 2 lists, 5 nodes, 2 elements | lists used as `Map` uses them stay linked and are values |
| `list_count`, `list_setter` | the same with all operations | two comments of `LinkedList.swift` that the code does not keep |
| `lru` | 2 threads, 3 keys, 3 addresses, 2 values, costs 0 and 2, limits down to 0 | memory safety, a complete list, costs covered, limits kept when no thread owes a `clean()`, recency order; the loop of `clean()` ends |
| `lru_cost` | 1 thread, 2 keys | `totalCost` is not the cost of the values held |
| `view` | 2 schedules of 2 and 4 sections, padding to 4, one day | drags, `scroll(to:)`, answers and reloads in any order: see below |
| `view_dates` | the same from Saturday to Tuesday, not scrolled | which day is marked: see below |
| `batch` | 2 batches of 2 requests, a limit of 2 errors | see below |
| `policy` | a student, a teacher, 2 custom keys, 2 lists of courses, 2 items in memory | see below |
| `policy_custom` | as `policy` | the item that cannot be fetched is not created |

Bounds. `MaxPile` (2) bounds the nodes on one position: `insert(node:in:)` looks
at the head and at one place, so a pile of two shows every case of head lost,
head kept, and equal rank; the proofs need no bound. The courses are chosen to
collide within a day, to be listed twice with other sections (one identity, two
insertions), to cross the noon row, and to be as long as their rivals. Two owners
and the three types give the three kinds. `Addr` equals the number of keys in
`lru`, so that addresses are reused as early as they can be. `MaxLost` bounds how
far `totalCost` drifts by `removeAllValues`: a drift of 2 makes
entries go early under a limit of 4 and is over a limit of 0 for good. `serverErrorRequestLimit` is 3 in the
code and 2 in `batch`: with four requests this lets a second recovery follow a
first. `batch` may stop: the process ends, or all batches are answered; `view` stops when an
index is out of range. They are the only passing runs without a deadlock check.
`ItemLimit` is 10 in the code: two items of
four keys evict as ten of more would. Two keys of a kind let one be forgotten while
the other is held, a custom key may carry the name `custom` or not, and two lists of
courses tell the latest from the one before.

In `view` a padding to 4 sections stands for one to 24: with the shorter schedule
`final.count` is 3 and one page is padding, with the longer one it is 5 and none is.
Half pages are the coarsest offsets at which a drag can catch the view between two
pages. `view_dates` runs from Saturday to Tuesday: a Sunday, on which the two calendars
are in different weeks, a midnight on either side of it, and a midnight inside a week;
the term opens on the Monday before. Offsets and dates do not touch each other but by
`sections`, so the two runs are apart: `view` keeps to one day, and the constraint
`NotScrolled` keeps `view_dates` from drags and `scroll(to:)`. The proofs are about both
together and need none of these bounds.

What `view` shows. A reader should know five things about the view.
1. A section that pads the view traps: `section <= final.count` lets one through to
   `final[section]`, and the leading view takes `final[section]` exactly when it is
   beyond. Dragging to the page after the last week of a term shorter than 23 weeks
   is enough. `TrapsInPadding` says that nothing else is: `scroll(to:)`, reloads and
   answers never lead out of range where the timetable fills the view.
2. The layout makes attributes for the pages around `pageCalculation`, the page on
   which the last drag began. A drag that is let go ends among them
   (`RestIsLaidOut`); `scroll(to:)` further than a page leaves the screen empty until
   the next drag, which is why the property excepts it.
3. `scroll(to:)` arrives (`ScrollArrives`) but for two cases: an insertion came that
   `final` has not been read after, so that `sections` is too small; or the last drag
   was taken for a vertical one, so that `scrollViewDidScroll` puts the offset back.
4. The view rests on a page (`RestsOnPage`), except when a drag catches it between two
   pages and is taken for a vertical one: then it stays there.
5. The mark is not always right, and `MarkedIsToday` says by how much it is wrong. An
   answer handled on a Sunday, or after the midnight that ends the week the server gave,
   dates the term a week late (`Late`): today is then marked a week of the term too
   early. An item without positions moves the mark and not the dates, which were built
   from the start of an earlier answer: another day is marked if the one was late and the
   other not. And the mark stays in the week of the last insertion when that week ends.
   The days of the other answers of a batch do not matter. It is not said for answers
   without the week, from which `setEXP` takes a Monday one week ahead, for insertions
   before the start, and for weeks after the last section.

`final` adds to these that an item which begins with the eighth period is drawn a row
too high (the exception in `RowsAgree`): location 9 is moved up by the test meant for
the row of noon and by that meant for the row of night, of which only the first lies
before it.

What `batch` shows. As long as no recovery completes, each caller gets exactly one
result of each attribute, after all of them, and the process does not stop
(`AnswersComplete`, `CrashNeedsSwitch`, `OpenCountsFlights`). A recovery that
completes answers a request a second time, and this is fatal in every
order of events (`SwitchIsFatal`): the group is left once more than it was
entered. Once the second service has answered without a URL and what was sent
before has been answered, the base URL is empty for good (`EmptyBaseIsFinal`).
Every batch is answered if the process lives (`BatchAnswered`).

What `policy` shows. Whatever is stored, read and asked in whatever order, the memory
holds what a client's own book has as the latest, courses included (`MemoryIsRecent`):
`policy` moves an item to the end also when the start is too far ahead and it asks the
server all the same, and a key stored again replaces the item but not the key.
`AnswersLatest`: no answer from memory is older than what was stored, and the server
is asked only for what was forgotten or for a term that has not begun. An item of a term
that has begun never expires, one of an answer without courses included. The database
must not be reached at all, so the question is when it is: `EndsForgotten` says only
for an item that is not among those used last, and then only if the request itself has the
flag `cache` or is for a custom schedule. That a key was stored with the flag does not
matter, since `union` replaces it. `policy_custom` shows what this leaves of
`requesCustom`: it answers from memory or not at all. Nothing in these runs is a liveness
property and `Spec` has no fairness: every call ends by itself.

Fairness. `LRUCache!FairSpec`: the thread in the loop of `clean()` goes on; nothing is
asked of threads that wait for the lock, which `NSLock` may starve.
`RequestBatch!FairSpec`: every request is answered, if with a time-out, each of
the recovery's two requests too, and dispatch queues run their blocks.

Findings. Four comments do not describe the code, and runs show how:
`count` of `LinkedList` ("The number of elements in the linked list."; `append` to an
empty list and `prepend` to any lose their element), the setter
("Copy-on-write semantics for nodes"), `totalCost` of `LRUCache`
("The current total cost of values in the cache"), and `requesCustom` ("take the item out
and return it, create it if there is none to take", in Chinese: the item is looked for
in the database, which ends the process before anything is created). `Map` is not affected by the
first two: it uses lists as in run `list`. `itemCache` is created with a limit
on the count only, so the third makes no difference to it. What `view` shows is not
listed as findings, since no comment says otherwise.

## 4. Proofs

TLAPS checks these for every value of the constants, from the named assumptions
`DataAssumption`, `PileAssumption`, `FinalMapAssumption`, `ViewAssumption`,
`CacheAssumption`, `ListAssumption`, `BatchAssumption` and `StoreAssumption`.

`ScheduleMapProofs`. The inductive invariant `IInv` is the conjunction of
`TypeOK`, `HeadsCovered`, `CoverOwned`, `ListsRanked` and two facts that the
properties do not state: `DaysAgree`, nodes are only filed under their own week
day (without it a pair of section and row in `nodeMap` would not name one
position, and uncovering one could uncover another), and `KindsFrozen`, while
`sno` is settled every stored kind is the one `Kind` computes now. `Invariance`
proves `Spec => []IInv` with one lemma per action and, for `insert(node:in:)`,
one per conjunct; the lemmas about `InsertAt` and about the pair `Uncover` and
`Cover` (`NodeMapStep`) carry the weight. The five invariants follow.
`Refinement` proves `Spec => ImplementsBoard`: under `IInv` what `nodeMap` shows is
what `pointMap` has on top (`ShownAreTops`), and an insertion changes the top of
one pile, to a node that outranks the old one (`InsertOffers`, `BoardStep`).

`FinalMapProofs`. `SubclassIsMap` proves `FinalSpec => Spec`: the subclass makes only
calls that `Map` allows, so every theorem about `Map` holds of it
(`SubclassInvariant`). `CacheIsCoherent` and `DatesAreFresh` are inductive by
themselves: all that writes `nodeMap` resets `useImmediate`, and the date is
written by `EndInsert` alone. The number of sections is a maximum over `nodeMap`, which
exists only because some entry is the longest: `LengthsInv` says so and survives
insertions because they grow one array at a time (no finiteness is needed).
`SectionsInv` ties `sections` to the length of `finalRange`; the two give
`ShowWeekIsDrawn` and `SectionsRefinement`, `FinalSpec => ImplementsSections`.

`DataSourceProofs` extends it. The core is `RunsPartition`: the maximal runs of a set
of locations cover each of its members once and nothing else. With `IInv`
(the node on top, and only it, is recorded) and the coherent cache this is
`TimetableIsPartitioned`. `TermInv` and `DrawnInv` complete the types (`FinalTypes`).
`RowsAgreeWithLabels` follows from the types of what is drawn: the rows of an item are
shifted as a whole, by as much as the labels of its periods are.

`ScheduleViewProofs`. `SetEXPOfAnswer` says what `setEXP` finds for a week given on any
day and handled on any other; `SetEXPFindsOpening`, `SetEXPOnSundays` and
`SetEXPAfterMidnight` are its cases. `ViewInv` has four parts next to the types. `SectionsInv`: the
layout has the sections of the last read, padded. `DatesInv`: the starts pending, in
the map and in the sections drawn are what `setEXP` found on the day each answer was
handled, and `nowWeek` is from the day of the insertion. `ScrollInv`: a lock for vertical drags holds the
offset where the drag began, a deceleration leads to a page near `pageCalculation`, an
animation to where `scroll(to:)` should lead. `RestInv`: where a view at rest is. Each
action disturbs one or two of them. The six properties follow from `ViewInv`,
`MarksToday` with `SetEXPOfAnswer`: starts are late by whole weeks (`StartIsLate`), and
so is the mark.

`RequestBatchProofs`. `CrashNeedsSwitch` is not inductive: a group must be known to
balance. `BatchInv` counts requests in flight and second answers
as cardinalities (`OpenCounts`, `ResultsInv`) and says where a request can be
(`PlacesInv`: at most once in the queue of the barrier, then in recovery, then
switched, never two of them); `NoticeInv` says that `notify` has fired only if nothing
is in flight. `BatchesComplete` and `CrashesNeedSwitch` are conjuncts of it.

`EmptyBaseStays` needs only the types: no step leads out of `Stranded`.

`RequestPolicyProofs`. The three properties are inductive together with the types and
with `IsBook(recent)`: the book has one item of each key (`PolicyInv`). The weight is in
`UsedIsNewest`: what `Used` makes of the end of a book is the end of the book carried on.
It has three cases. The item is of a key that the memory holds, and both move it; of a
key that only the book has, which the memory has forgotten and takes in again, dropping
its oldest; or of a new one. They rest on where the items are after one is
removed (`RemoveAtValues`, `BookedAgain`, `BookedNew`) and on two sequences
being equal when they end alike (`EndIsNewest`). From it come the storing, asking and
reading steps (`StoreStep`, `AskStep`, `LookUpStep`); starts and memory warnings empty
both sides (`EmptyBook`).

`LRUCacheProofs`. `NothingEverDangles` proves `Spec => []NothingDangles`. That
references stay inside the heap is not inductive: freeing a container needs to
know that nobody else points to it. The invariant `LInv` says that the list is
well linked as each container sees it (references are mutual, only the ends have
none) and that dictionary and containers name each other. `remove` turns such a
list into one with the container set aside (`UnlinkKeepsLinks`), `append` puts it
back (`LinkKeepsLinks`), freeing drops it (`FreeKeepsLinks`). `CacheTypes` follows
from it and from `CallsInv`, the types of limits, lock and program counters.

`LInv` says nothing of a path from `head`: a second ring of containers beside the list
would satisfy it. For the rest there is a witness, `Order(s, c)`: `s` is the sequence
of all containers from `head` along `next` to `tail` (`Path`), `c` the sums of
their costs from the front (`Sums`). `Ordered` says that there are such `s` and `c`
and that `totalCost` is at least the last sum. Each step changes them in one of five
ways (`StepOrder`: it touches one container, adds one, drops one, empties the list or
leaves it), by three lemmas on paths: taking a container out (`UnlinkPath`), putting
one at the end (`LinkPath`), both (`MoveToEnd`). What the recursive definitions compute
is then what the witness says: a function with a value other than the witness's would
have a first such value, and the one before it is the same (`LeastNat`,
`SameRecursion`). So `Walk` is `s` (`WalkIsPath`) and `CostOf` the last of `c`
(`CostIsSum`). `CacheInv` joins `LInv`, `Ordered`, the types and `LockInv`: a thread in
the loop of `clean()` holds the lock. From it:
- `ListIsComplete` and `CostIsCovered`.
- `LimitsHoldAtRest`: `RestInv` says that a cache over its limits has a thread that is
  on its way to `clean()` or in its loop, or holds nothing. Leaving the loop early is
  what it rests on: `clean()` stops at limits that are kept or at an empty list.
- `CacheIsQueue`, `Spec => ImplementsQueue`: touching, adding and dropping a container
  are `Use` and `Discard` of the queue (`TouchIsUse`, `AddIsUse`, `DropIsRemoval`), what
  `clean()` drops is the first of the path, and the lock is held while it does.

`LinkedListProofs`. The same idea on the lists of `Map`: `ListInv` says that there
are sequences `p[l]` of nodes, one for each list, such that each is a chain from
`headNode` along `next` to `tailNode` and back along `previous`, of `count` nodes
(`ChainOf`), no node is in two of them and every node is in one (`Piles`). `NodesOf` is
that sequence (`NodesOfChain`). A chain is held from its head (`ChainIsHeld`), so that
reference counting frees nothing (`StoreKeeps`), although it would if an insertion lost
a node. `insert(_:at:)` gives the chain with the new node at its place (`SplicedNodes`,
`SplicedChain`) and leaves the nodes of other lists as they were (`OneMore`): this is
where lists that are never empty and never copied are needed, as `Map` uses them. It
proves `MapSpec => []Intact` (`ListsAreIntact`) and, as the values along the chains
change the way the chains do, `MapSpec => ImplementsValues` (`ListsAreValues`). Of the
addresses it is only assumed that they are finitely many.

Left to TLC is liveness under fairness: `CleanEnds`, `BatchAnswered`, `SwitchIsFatal`.
Every other property of a passing run is a theorem. The four that TLC finds violated
(`CountIsLength`, `SetterCopiesOnWrite`, `TotalCostIsCurrent`, `CustomIsMade`) are
claims of comments that the code does not keep.

## 5. Not modelled

- Geometry and drawing: the frames of `CollectionViewLayout`, `Views`, the animations of
  `VCTransitioningDelegate`. They are floating point and UIKit; the phases of an
  interactive transition are UIKit's own state.
- Decoding (`Course(fromJSON:)`, Codable): a sequential conversion without state.
  `CourseAssumption` says what a decoded course is like. That WCDB's decoding traps is
  modelled (`CacheStore!Db`); what `mem(cache:)`, `memKey` and `memItem` would do if it did
  not, transactions and swallowed errors included, is not, as no process gets there.
- `OrderedSet` and `CountedSet`: sequential containers which nothing in the package uses.
- `TimeLine.pesent` and the texts of times: pure, and called by nothing in the package.
- The start that `keyCache` keeps with a key, and the names `mine` and `others`: only
  clients read them.
- Reads that race with writes (`LRUCache.count`, `RyNetManager.baseURL`) and a second
  resume of an unsafe continuation: they have no outcome a model could choose from.
- `replaceSubrange` of several elements by several, which nothing calls.
- `src/Example` and the vendored pods: a host application with one screen, and
  third-party code (Alamofire, SwiftyJSON, WCDB with SQLCipher, R.swift),
  which makes up nearly all of the lines of the repository.

What would come next: the database, once its columns can be decoded: three statements
without a transaction around them, shared with a widget through `Cache.appGroup`;
`ScheduleView` composed with
`RequestBatch`, so that the second answer of a recovery and the closure that follows it
meet the view; the operations of `LinkedList` that `Map` does not use, proved for lists
that share no nodes.
