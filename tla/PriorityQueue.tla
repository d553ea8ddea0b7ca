--------------------------- MODULE PriorityQueue ---------------------------
(***************************************************************************)
(* The priority queue of libericstools (priority_queue.c) on its map of    *)
(* priorities (LongMap) and its lists (list.c).  The map leads from a      *)
(* priority to the list of its elements; a string map leads from the hash  *)
(* of an id to the list and the element, and never compares the ids of     *)
(* equal hash; the element that is next is kept apart.                     *)
(*                                                                         *)
(* An element is <<id, copy>>: nothing keeps a caller from pushing an id   *)
(* again while it is queued.                                               *)
(***************************************************************************)
EXTENDS LongMap

CONSTANTS
    Ids,      \* the ids a caller uses
    Hash,     \* sdbm_string_hash of each
    Allowed,  \* bound: the priorities a caller gives each id
    Doubles,  \* bound: ids that are pushed again while they are queued
    MaxMixed  \* bound: elements while one is queued that may move, and where
              \* GetById is called

ASSUME QueueAssumption ==
    /\ Allowed \in [Ids -> SUBSET Keys] /\ Hash \in [Ids -> Nat]
    /\ Doubles \subseteq Ids /\ MaxMixed \in Nat

None == <<>>
Hashes == {Hash[i] : i \in Ids}

VARIABLES
    priorities, \* pq->priorities
    lists,      \* the list filed under each priority
    ids,        \* pq->ids, by hash
    prio,       \* the priority in each element, 0 if it is not in use
    first,      \* pq->first
    length,     \* pq->length
    freed,      \* an element was freed while it is queued
    doubled     \* history: hashes pushed while they were queued

vars == <<priorities, lists, ids, prio, first, length, freed, doubled>>

Elements == Ids \X (1 .. 2)

Init ==
    /\ priorities = EmptyMap /\ lists = [p \in Keys |-> <<>>]
    /\ ids = [h \in Hashes |-> None] /\ prio = [e \in Elements |-> 0]
    /\ first = None /\ length = 0 /\ freed = FALSE /\ doubled = {}

Queued(i) == \E copy \in 1 .. 2 : prio[<<i, copy>>] # 0
QueuedAs(h) == {e \in Elements : prio[e] # 0 /\ Hash[e[1]] = h}

-----------------------------------------------------------------------------
\* Mutant: an element goes in front of those of its priority.
PushedInFront(s, e, p) ==
    [priorities |-> SetElement(s.priorities, p),
     lists |-> [s.lists EXCEPT ![p] =
                  IF Has(s.priorities, p) THEN <<e>> \o @ ELSE <<e>>],
     first |-> IF s.first = None THEN e
               ELSE IF p < prio[s.first] THEN e ELSE s.first]

\* push_priority_queue_node puts element e into the structures s, a record of
\* priorities, lists and first.
Pushed(s, e, p) ==
    [priorities |-> SetElement(s.priorities, p),
     lists |-> [s.lists EXCEPT ![p] =
                  IF Has(s.priorities, p) THEN Append(@, e) ELSE <<e>>],
     first |-> IF s.first = None THEN e
               ELSE IF p < prio[s.first] THEN e ELSE s.first]

\* The head of the list of the smallest priority.
HeadOfSmallest(tree, filed) ==
    IF Root(tree) = Nil THEN None ELSE Head(filed[Smallest(tree)])

Structures(tree, filed, next) ==
    [priorities |-> tree, lists |-> filed, first |-> next]

\* The list of priority p, which e has left, is filed; an element has to be
\* found that is next if e was.
Refiled(tree, filed, e, p) ==
    Structures(tree, filed, IF first = e THEN HeadOfSmallest(tree, filed) ELSE first)

\* Element e of priority p leaves its list; an empty list leaves the map.
Taken(e, p) ==
    LET rest == SelectSeq(lists[p], LAMBDA x : x # e)
    IN  Refiled(IF rest = <<>> THEN RemoveElement(priorities, p) ELSE priorities,
                [lists EXCEPT ![p] = rest], e, p)

Become(s) ==
    /\ priorities' = s.priorities /\ lists' = s.lists /\ first' = s.first

Now == [priorities |-> priorities, lists |-> lists, first |-> first]

Mixes(i) == \E j \in Ids : Hash[j] = Hash[i] /\ Cardinality(Allowed[j]) > 1
Room(i) == (\E j \in Ids : Mixes(j) /\ (j = i \/ Queued(j))) => length < MaxMixed

\* push_priority_queue
Push(i, p) ==
    /\ Room(i) /\ (Queued(i) => i \in Doubles)
    /\ \E copy \in 1 .. 2 :
         LET e == <<i, copy>>
         IN  /\ prio[e] = 0 /\ (copy = 2 => prio[<<i, 1>>] # 0)
             /\ Become(Pushed(Now, e, p))
             /\ prio' = [prio EXCEPT ![e] = p]
             /\ ids' = [ids EXCEPT ![Hash[i]] = e]
    /\ length' = length + 1 /\ UNCHANGED freed
    /\ doubled' = IF QueuedAs(Hash[i]) = {} THEN doubled
                  ELSE doubled \cup {Hash[i]}

\* Mutant: the entry is left to the next push of the id.
ForgetLater(h) == ids

\* The entry of the hash, whichever element it leads to, is removed.
Forget(h) == [ids EXCEPT ![h] = None]

\* After its last element a doubled hash is like a new one.
Single(h) == IF Cardinality(QueuedAs(h)) = 1 THEN doubled \ {h} ELSE doubled

Out(p) == RemoveElement(priorities, p)

Shifted(tree, filed, p) ==
    Structures(tree, filed,
        IF filed[p] # <<>> THEN Head(filed[p]) ELSE HeadOfSmallest(tree, filed))

\* shift_priority_queue: the list of the smallest priority leaves the map and
\* goes back if it is not empty, which changes nothing.
Shift ==
    /\ first # None
    /\ LET p == prio[first]
           e == Head(lists[p])
           rest == Tail(lists[p])
       IN  /\ Become(Shifted(IF rest # <<>> THEN SetElement(Out(p), p) ELSE Out(p),
                             [lists EXCEPT ![p] = rest], p))
           /\ prio' = [prio EXCEPT ![e] = 0]
           /\ ids' = Forget(Hash[e[1]])
           /\ doubled' = Single(Hash[e[1]])
    /\ length' = length - 1 /\ UNCHANGED freed

\* remove_priority_queue_element_with_id of an id with hash h.
RemoveById(h) ==
    /\ ids[h] # None
    /\ Become(Taken(ids[h], prio[ids[h]]))
    /\ prio' = [prio EXCEPT ![ids[h]] = 0]
    /\ ids' = Forget(h)
    /\ length' = length - 1 /\ UNCHANGED freed
    /\ doubled' = Single(h)

\* get_priority_queue_element_with_id frees the element and leaves it where it
\* is.
GetById(h) ==
    /\ ids[h] # None /\ length <= MaxMixed
    /\ freed' = TRUE
    /\ UNCHANGED <<priorities, lists, ids, prio, first, length, doubled>>

\* set_priority_for_id_in_priority_queue; an id that is not in the map would
\* make it write through NULL.
SetPriority(h, p) ==
    /\ ids[h] # None
    /\ Become(Pushed(Taken(ids[h], prio[ids[h]]), ids[h], p))
    /\ prio' = [prio EXCEPT ![ids[h]] = p]
    /\ UNCHANGED <<ids, length, freed, doubled>>

\* What the queue does with a freed element is undefined: the model ends there.
Next ==
    /\ ~freed
    /\ \/ Shift
       \/ \E h \in Hashes : RemoveById(h) \/ GetById(h)
       \/ \E i \in Ids : \E p \in Allowed[i] :
            Push(i, p) \/ (Cardinality(Allowed[i]) > 1 /\ SetPriority(Hash[i], p))

Spec == Init /\ [][Next]_vars

-----------------------------------------------------------------------------
(* Properties.                                                              *)

\* The map of priorities finds exactly the priorities that have elements, by
\* searching, and stays a balanced tree, through any sequence of insertions
\* and removals with their rotations; every link and element is one of the
\* queue's.
TreeHolds ==
    /\ \A k \in Keys \cup {Nil} :
         priorities[k] \in [left : 0 .. MaxKey, right : 0 .. MaxKey,
                            balance : -1 .. 1]
    /\ \A p \in Keys : \A j \in DOMAIN lists[p] : lists[p][j] \in Elements
    /\ KeysOf(priorities) = {p \in Keys : lists[p] # <<>>}
    /\ NoDanglingLinks(priorities)
    /\ WellBalanced(priorities)

\* The caller's view of the queue: the lists in the order of the tree.
Flat ==
    LET Seq2(p) == [j \in DOMAIN lists[p] |-> [node |-> lists[p][j], prio |-> p]]
        Q[p \in 0 .. MaxKey] == IF p = 0 THEN <<>> ELSE Q[p - 1] \o Seq2(p)
    IN  Q[MaxKey]

\* The map of ids leads to the elements in the queue, each under its hash, never
\* to one that has left it, whose memory has been freed; and every element is
\* found unless another was pushed with its id, or with one of its hash.  Who
\* asks for the element of an id without removing it has it freed all the same.
FoundById ==
    ~freed =>
        \A h \in Hashes :
            IF ids[h] # None THEN ids[h] \in QueuedAs(h)
            ELSE h \in doubled \/ QueuedAs(h) = {}

Abstract == INSTANCE StableQueue WITH Priorities <- Keys, queue <- Flat, byId <- ids

\* The queue does what a stable priority queue does.
Stable == Abstract!Spec
=============================================================================
