---------------------------- MODULE StableQueue ----------------------------
(***************************************************************************)
(* What a priority queue promises: its elements come out in the order of   *)
(* their priorities, those of equal priority in the order they were put    *)
(* in, and an element can be removed or given another priority by its id.  *)
(***************************************************************************)
EXTENDS Integers, Sequences, SequencesExt

CONSTANTS
    Ids, Priorities,
    Hash,  \* what an id is known by; those of equal hash are not told apart
    None   \* no element

VARIABLES
    queue,   \* the elements with their priorities, the next one first
    byId     \* the element a hash stands for, or None

Hashes == {Hash[i] : i \in Ids}
Element(e, p) == [node |-> e, prio |-> p]

\* e goes behind all elements of its priority or a smaller one.
Inserted(q, e) ==
    SelectSeq(q, LAMBDA x : x.prio <= e.prio) \o <<e>> \o
    SelectSeq(q, LAMBDA x : x.prio > e.prio)

Without(q, node) == SelectSeq(q, LAMBDA x : x.node # node)

Init == queue = <<>> /\ byId = [h \in Hashes |-> None]

Push(i, node, p) ==
    /\ byId' = [byId EXCEPT ![Hash[i]] = node]
    /\ \A j \in DOMAIN queue : queue[j].node # node
    /\ queue' = Inserted(queue, Element(node, p))

Shift ==
    /\ queue # <<>>
    /\ queue' = Tail(queue)
    /\ byId' = [byId EXCEPT ![Hash[Head(queue).node[1]]] = None]

RemoveById(h) ==
    /\ byId[h] # None
    /\ byId' = [byId EXCEPT ![h] = None]
    /\ queue' = Without(queue, byId[h])

SetPriority(h, p) ==
    /\ byId[h] # None
    /\ UNCHANGED byId
    /\ queue' = Inserted(Without(queue, byId[h]), Element(byId[h], p))

Next ==
    \/ Shift
    \/ \E h \in Hashes : RemoveById(h)
    \/ \E h \in Hashes, p \in Priorities : SetPriority(h, p)
    \/ \E i \in Ids, copy \in 1 .. 2, p \in Priorities : Push(i, <<i, copy>>, p)

Spec == Init /\ [][Next]_<<queue, byId>>
=============================================================================
