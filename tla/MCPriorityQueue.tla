-------------------------- MODULE MCPriorityQueue --------------------------
\* PriorityQueue with an id for each priority, so that every AVL tree over the
\* keys occurs, one id that moves between priorities and may be doubled, and one
\* of its hash.
EXTENDS PriorityQueue

Own == 1 .. MaxKey
Mover == 0
Mate == MaxKey + 1
MCIds == Own \cup {Mover, Mate}
MCAllowed ==
    [i \in MCIds |-> CASE i = Mover -> {2, MaxKey - 1}
                       [] i = Mate -> {2} [] OTHER -> {i}]
MCHash == [i \in MCIds |-> IF i = Mate THEN Mover ELSE i]
MCDoubles == {Mover}
=============================================================================
