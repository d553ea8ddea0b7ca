------------------------------ MODULE LongMap ------------------------------
(***************************************************************************)
(* The long_map of libericstools (tree_map.c): an AVL tree with parent     *)
(* stacks.  A map is the memory of its nodes: m[k] is the node with key k, *)
(* Nil the NULL pointer; map->root is the left field of m[Nil].  A place   *)
(* <<k, side>> is the address of a field (the code's node_ptr), a stack a  *)
(* sequence of places with the direction taken from each, the root first.  *)
(* Setting, finding and removing an element and finding the smallest one   *)
(* are here, what the priority queue calls; iterating, the arrays of keys  *)
(* and values and destroying a map are not.  The values are not part of a  *)
(* map; the caller files them by key.                                      *)
(***************************************************************************)
EXTENDS Integers, Sequences, SequencesExt

CONSTANT MaxKey   \* bound: keys are 1 .. MaxKey

ASSUME MapAssumption == MaxKey \in Nat

Nil == 0
Keys == 1 .. MaxKey
FreeNode == [left |-> Nil, right |-> Nil, balance |-> 0]

\* initialize_long_map
EmptyMap == [k \in Keys \cup {Nil} |-> FreeNode]

RootPlace == <<Nil, "left">>
At(m, p) == m[p[1]][p[2]]
Root(m) == At(m, RootPlace)
Link(m, p, n) == [m EXCEPT ![p[1]][p[2]] = n]

Sign(side) == IF side = "left" THEN -1 ELSE 1
Opposite(side) == IF side = "left" THEN "right" ELSE "left"
Toward(k, n) == IF k < n THEN "left" ELSE "right"

-----------------------------------------------------------------------------
\* The nodes from start on in the direction next, as long as there are any.
Walk(start, next(_)) ==
    LET Path[i \in 0 .. MaxKey] ==
          IF i = 0 THEN IF start = Nil THEN <<>> ELSE <<start>>
          ELSE LET path == Path[i - 1]
                   n == IF path = <<>> THEN Nil ELSE next(Last(path))
               IN  IF Len(path) < i \/ n = Nil THEN path ELSE Append(path, n)
    IN  Path[MaxKey]

\* The nodes met looking for k, the last is k if the map has it.
Search(m, k) ==
    Walk(Root(m), LAMBDA n : IF n = k THEN Nil ELSE m[n][Toward(k, n)])

Has(m, k) == Root(m) # Nil /\ Last(Search(m, k)) = k

\* get_smallest_long_map_element
Smallest(m) == Last(Walk(Root(m), LAMBDA n : m[n].left))

-----------------------------------------------------------------------------
\* rotate_left and rotate_right
Rotate(m, p, side) ==
    LET parent == At(m, p)
        pivot == m[parent][Opposite(side)]
    IN  [m EXCEPT ![parent][Opposite(side)] = m[pivot][side],
                  ![pivot][side] = parent,
                  ![p[1]][p[2]] = pivot]

SetBalance(m, n, b) == [m EXCEPT ![n].balance = b]

\* After one rotation n and the node above it share the lean b.
OneTurn(m, p, n, b) == [m EXCEPT ![n].balance = b, ![At(m, p)].balance = -b]

\* After two rotations the node at the top passes its lean on to one side.
TwoTurns(m, top) ==
    [m EXCEPT
       ![m[top].left].balance = IF m[top].balance > 0 THEN -1 ELSE 0,
       ![m[top].right].balance = IF m[top].balance < 0 THEN 1 ELSE 0,
       ![top].balance = 0]

RotatedTwice(m, p, n, s) ==
    Rotate(Rotate(m, <<n, s>>, s), p, Opposite(s))

\* Mutant: a child that leans to neither side is taken for one that leans out.
RestoreEvenly(m, p, s) ==
    LET n == At(m, p)
        lean == m[m[n][s]].balance * Sign(s)
    IN  IF lean >= 0 THEN OneTurn(Rotate(m, p, Opposite(s)), p, n, 0)
        ELSE TwoTurns(RotatedTwice(m, p, n, s), m[m[n][s]][Opposite(s)])

\* The subtree at p is too high on side s.
Restore(m, p, s) ==
    LET n == At(m, p)
        lean == m[m[n][s]].balance * Sign(s)
    IN  IF lean >= 0
        THEN OneTurn(Rotate(m, p, Opposite(s)), p, n,
                    IF lean = 0 THEN Sign(s) ELSE 0)
        ELSE TwoTurns(RotatedTwice(m, p, n, s), m[m[n][s]][Opposite(s)])

\* The node at p has come to lean by b.
Leaning(m, p, b) ==
    IF b \in -1 .. 1 THEN m ELSE Restore(m, p, IF b < 0 THEN "left" ELSE "right")

\* rebalance: side was changed by op, 1 for an insertion, -1 for a removal.
Rebalance(m, p, side, op) ==
    LET n == At(m, p)
        b == m[n].balance + op * Sign(side)
    IN  Leaning(SetBalance(m, n, b), p, b)

\* An insertion is through when the subtree at p is balanced, a removal when
\* it is not.
Through(m, p, op) == (m[At(m, p)].balance = 0) = (op = 1)
Rung(m, p, op) == [map |-> m, through |-> Through(m, p, op)]

\* The loops over the stack, from its end.
Climb(m, stack, op) ==
    LET Up(acc, e) ==
          IF acc.through THEN acc
          ELSE Rung(Rebalance(acc.map, e.place, e.side, op), e.place, op)
    IN  FoldLeft(Up, [map |-> m, through |-> FALSE], Reverse(stack)).map

\* The places of the nodes of a search path, with the ways taken.
Stack(path, k) ==
    [i \in DOMAIN path |->
       [place |-> IF i = 1 THEN RootPlace
                  ELSE <<path[i - 1], Toward(k, path[i - 1])>>,
        side |-> Toward(k, path[i])]]

\* set_long_map_element; the element of a key the map has is only replaced.
Attached(m, k, path) ==
    IF path = <<>> THEN Link(m, RootPlace, k)
    ELSE IF Last(path) = k THEN m
    ELSE Climb(Link(m, <<Last(path), Toward(k, Last(path))>>, k),
               Stack(path, k), 1)

SetElement(m, k) == Attached(m, k, Search(m, k))

\* The replacement r takes the left subtree and the balance of node k.
TakesPlace(m, r, k) ==
    [m EXCEPT ![r].left = m[k].left, ![r].balance = m[k].balance]

Leftward(place) == [place |-> place, side |-> "left"]
Rightward(place) == [place |-> place, side |-> "right"]

\* The node k at place is replaced by its left child, by its right child, or by
\* the smallest node of its right subtree, at the end of chain; what has to be
\* rebalanced below the place.
Replaced(m, k, place, chain) ==
    LET r == Last(chain)
        low == Len(chain)
    IN  CASE low = 0 -> [map |-> Link(m, place, m[k].left), below |-> <<>>]
          [] low = 1 -> [map |-> Link(TakesPlace(m, r, k), place, r),
                         below |-> <<Rightward(place)>>]
          [] OTHER ->
               [map |-> Link([TakesPlace(m, r, k) EXCEPT
                                 ![r].right = m[k].right,
                                 ![chain[low - 1]].left = m[r].right], place, r),
                below |-> <<Rightward(place), Leftward(<<r, "right">>)>> \o
                          [i \in 1 .. low - 2 |-> Leftward(<<chain[i], "left">>)]]

Detached(cut, stack, k) ==
    [Climb(cut.map, Front(stack) \o cut.below, -1) EXCEPT ![k] = FreeNode]

\* remove_long_map_element
RemoveElement(m, k) ==
    LET stack == Stack(Search(m, k), k)
        chain == Walk(m[k].right, LAMBDA n : m[n].left)
    IN  IF ~Has(m, k) THEN m
        ELSE Detached(Replaced(m, k, Last(stack).place, chain), stack, k)

-----------------------------------------------------------------------------
(* What a map should be, as far as searches show it: a node that no search  *)
(* finds is not looked at.                                                  *)

\* The keys that a search finds.
KeysOf(m) == {k \in Keys : Has(m, k)}

\* The height of the tree below each node (deep enough for MaxKey nodes).
Heights(m) ==
    LET H[d \in 0 .. MaxKey] ==
          [n \in Keys \cup {Nil} |->
             IF n = Nil \/ d = 0 THEN 0
             ELSE LET l == H[d - 1][m[n].left]
                      r == H[d - 1][m[n].right]
                  IN  1 + (IF l > r THEN l ELSE r)]
    IN  H[MaxKey]

\* The balance field of each key found is the difference of the heights of its
\* two subtrees, and at most one.
WellBalanced(m) ==
    LET h == Heights(m)
    IN  \A k \in KeysOf(m) :
            /\ m[k].balance = h[m[k].right] - h[m[k].left]
            /\ m[k].balance \in -1 .. 1

\* The root and the links of the keys found lead to keys found, or nowhere.
NoDanglingLinks(m) ==
    /\ Root(m) \in KeysOf(m) \cup {Nil}
    /\ \A k \in KeysOf(m) :
         {m[k].left, m[k].right} \subseteq KeysOf(m) \cup {Nil}
=============================================================================
