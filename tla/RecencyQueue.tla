---------------------------- MODULE RecencyQueue ----------------------------
(***************************************************************************)
(* What LRUCache promises its callers: the cached entries in the order of  *)
(* their last use. Storing or fetching a value makes its key the newest;   *)
(* what the cache drops by itself, while it sheds, is the oldest entry,    *)
(* and no call takes effect while it sheds.                                *)
(***************************************************************************)
EXTENDS SequencesExt

CONSTANT Entry      \* records with a field key

VARIABLES
  recency,    \* entries, oldest first
  shedding    \* the cache is dropping entries by itself

queueVars == << recency, shedding >>

QueueInit == recency = << >> /\ shedding = FALSE

\* A call stores or fetches the entry that is the newest afterwards.
Use ==
  \E e \in Entry :
    \/ /\ \A i \in DOMAIN recency : recency[i].key # e.key
       /\ recency' = Append(recency, e)
    \/ \E i \in DOMAIN recency :
         recency[i].key = e.key /\ recency' = Append(RemoveAt(recency, i), e)

Discard == \E i \in DOMAIN recency : recency' = RemoveAt(recency, i)

DiscardAll == recency' = << >>

Call == ~shedding /\ shedding' = FALSE /\ (Use \/ Discard \/ DiscardAll)

Shed ==
  /\ shedding /\ shedding' = TRUE
  /\ recency # << >> /\ recency' = Tail(recency)

Switch == shedding' = ~shedding /\ UNCHANGED recency

QueueNext == Call \/ Shed \/ Switch

QueueSpec == QueueInit /\ [][QueueNext]_queueVars
=============================================================================
