--------------------------- MODULE CpuLimitProofs ---------------------------
(***************************************************************************)
(* What cpulimit leaves behind when it ends, for any number of pids.  The  *)
(* stopped processes that it still has to continue (Left) are members of   *)
(* the family all the time, and each phase knows where they are: in the    *)
(* list, or still ahead of the scan.                                       *)
(***************************************************************************)
EXTENDS CpuLimit, NaturalSets, TLAPS

-----------------------------------------------------------------------------
(* The way up that Descends follows.                                        *)

\* f is the way from p upwards when the parents are par, n steps long.
Way(par, p, f, n) ==
    f = [k \in 0 .. n |-> IF k = 0 THEN p
                          ELSE IF f[k - 1] \in {0, Target} THEN f[k - 1]
                          ELSE par[f[k - 1]]]

\* The recursive definition of the way has a solution of every length.
LEMMA WayExists ==
  ASSUME NEW par, NEW p
  PROVE  \A n \in Nat : \E f : Way(par, p, f, n)
<1> DEFINE S == {n \in Nat : \E f : Way(par, p, f, n)}
<1>1. 0 \in S
  <2> DEFINE f == [k \in 0 .. 0 |-> p]
  <2>1. Way(par, p, f, 0)
    BY DEF Way
  <2> QED  BY <2>1
<1>2. ASSUME NEW n \in Nat, n \in S PROVE n + 1 \in S
  <2>1. PICK g : Way(par, p, g, n)
    BY <1>2
  <2>2. \A k \in 0 .. n : g[k] = IF k = 0 THEN p
                                 ELSE IF g[k - 1] \in {0, Target}
                                 THEN g[k - 1] ELSE par[g[k - 1]]
    BY <2>1 DEF Way
  <2> DEFINE last == IF g[n] \in {0, Target} THEN g[n] ELSE par[g[n]]
             f == [k \in 0 .. n + 1 |-> IF k = n + 1 THEN last ELSE g[k]]
  <2>3. \A k \in 0 .. n + 1 : f[k] = IF k = 0 THEN p
                                     ELSE IF f[k - 1] \in {0, Target}
                                     THEN f[k - 1] ELSE par[f[k - 1]]
    BY <2>2
  <2>4. Way(par, p, f, n + 1)
    <3> DEFINE h == [k \in 0 .. n + 1 |-> IF k = 0 THEN p
                                     ELSE IF f[k - 1] \in {0, Target}
                                     THEN f[k - 1] ELSE par[f[k - 1]]]
    <3>1. DOMAIN f = 0 .. n + 1 /\ f = [k \in 0 .. n + 1 |-> f[k]]
      OBVIOUS
    <3> HIDE DEF f
    <3>2. f = h
      BY <2>3, <3>1
    <3> QED  BY <3>2 DEF Way
  <2> QED  BY <2>4
<1> HIDE DEF S
<1>3. \A n \in Nat : n \in S
  BY <1>1, <1>2, Induction
<1> QED  BY <1>3 DEF S

\* Descends asks where the way ends.
LEMMA DescendsWay ==
  ASSUME NEW p
  PROVE  \E f : Way(parent, p, f, N) /\ (Descends(p) <=> f[N] = Target)
<1> DEFINE up == CHOOSE f : Way(parent, p, f, N)
<1>1. Way(parent, p, up, N)
  BY WayExists, LimitAssumption
<1>2. Descends(p) <=> up[N] = Target
  BY DEF Descends, Way
<1> QED  BY <1>1, <1>2

\* The same after a step.
LEMMA DescendsWayNext ==
  ASSUME NEW CONSTANT p
  PROVE  \E f : Way(parent', p, f, N) /\ (Descends(p)' <=> f[N] = Target)
<1> DEFINE up == CHOOSE f : Way(parent', p, f, N)
<1>1. Way(parent', p, up, N)
  BY WayExists, LimitAssumption
<1>2. Descends(p)' <=> up[N] = Target
  BY DEF Descends, Way
<1> QED  BY <1>1, <1>2

-----------------------------------------------------------------------------
(* The inductive invariant.                                                 *)

TypeOK ==
    /\ state \in [Pids -> {"none", "run", "stopped"}]
    /\ parent \in [Pids -> 0 .. N]
    /\ start \in [Pids -> 0 .. MaxTime] /\ now \in 0 .. MaxTime
    /\ include_children \in BOOLEAN
    /\ pc \in {"search", "scan", "cont", "work", "stop", "sleep", "done",
               "aborted", "crashed"}
    /\ pos \in 1 .. N + 1
    /\ proclist \subseteq Pids
    /\ proctable \in [Pids -> Int]
    /\ tmp \in Int
    /\ strays \subseteq Pids
    /\ confused \in BOOLEAN /\ midscan \in BOOLEAN

\* What the limiter has to continue.
Left == Stopped \ strays

ParentsLive == \A p \in Pids : parent[p] # 0 => Alive(parent[p])

LeftInFamily == \A p \in Left : Family(p)

LeftListed ==
    /\ pc \in {"search", "work"} => Left = {}
    /\ pc = "scan" => \A p \in Left : p < pos => p \in proclist
    /\ pc = "cont" => \A p \in Left : p \in proclist /\ pos <= p
    /\ pc \in {"stop", "sleep"} => Left \subseteq proclist
    /\ pc = "done" /\ ~midscan => Left = {}

\* As long as nothing confused the limiter its table has the start times of
\* the processes that are there.
TableTrue ==
    ~confused =>
        /\ \A p \in Pids : proctable[p] \in {NoEntry, start[p]}
        /\ pc # "aborted"

IInv == TypeOK /\ ParentsLive /\ LeftInFamily /\ LeftListed /\ TableTrue

-----------------------------------------------------------------------------
(* The family.                                                              *)

\* Who belongs to the family depends on the parents only.
LEMMA FamilyKept ==
  ASSUME UNCHANGED <<parent, include_children>>, NEW CONSTANT p
  PROVE  Family(p)' <=> Family(p)
<1>1. Descends(p)' <=> Descends(p)
  BY DEF Descends
<1> QED  BY <1>1 DEF Family

\* A birth changes nobody else's way up: no living process has the new one's
\* pid for its parent.
LEMMA ForkKeepsFamily ==
  ASSUME TypeOK, ParentsLive, NEW CONSTANT from \in Pids \cup {0},
         NEW CONSTANT p \in Pids, Fork(from, p),
         NEW CONSTANT q \in Pids, q # p
  PROVE  Family(q)' <=> Family(q)
<1>1. PICK f : Way(parent, q, f, N) /\ (Descends(q) <=> f[N] = Target)
  BY DescendsWay
<1>2. PICK g : Way(parent', q, g, N) /\ (Descends(q)' <=> g[N] = Target)
  BY DescendsWayNext
<1>3. /\ parent \in [Pids -> 0 .. N] /\ ~Alive(p)
      /\ parent' = [parent EXCEPT ![p] = from]
      /\ \A x \in Pids : parent[x] # p
  BY DEF Fork, TypeOK, ParentsLive, Pids
<1> DEFINE S == {n \in Nat : n <= N => /\ f[n] = g[n] /\ f[n] # p
                                       /\ f[n] \in 0 .. N}
<1>4. N \in Nat
  BY LimitAssumption
<1>5. /\ \A k \in 0 .. N : f[k] = IF k = 0 THEN q
                                  ELSE IF f[k - 1] \in {0, Target}
                                  THEN f[k - 1] ELSE parent[f[k - 1]]
      /\ \A k \in 0 .. N : g[k] = IF k = 0 THEN q
                                  ELSE IF g[k - 1] \in {0, Target}
                                  THEN g[k - 1] ELSE parent'[g[k - 1]]
  BY <1>1, <1>2 DEF Way
<1>6. 0 \in S
  BY <1>4, <1>5 DEF Pids
<1>7. ASSUME NEW n \in Nat, n \in S PROVE n + 1 \in S
  <2>1. SUFFICES ASSUME n + 1 <= N
                 PROVE  /\ f[n + 1] = g[n + 1] /\ f[n + 1] # p
                        /\ f[n + 1] \in 0 .. N
    OBVIOUS
  <2>2. f[n] = g[n] /\ f[n] # p /\ f[n] \in 0 .. N
    BY <1>4, <1>7, <2>1
  <2>3. /\ f[n + 1] = IF f[n] \in {0, Target} THEN f[n] ELSE parent[f[n]]
        /\ g[n + 1] = IF g[n] \in {0, Target} THEN g[n] ELSE parent'[g[n]]
    BY <1>4, <1>5, <2>1
  <2>4. CASE f[n] \in {0, Target}
    BY <2>2, <2>3, <2>4
  <2>5. CASE f[n] \notin {0, Target}
    <3>1. f[n] \in Pids
      BY <1>4, <2>2, <2>5 DEF Pids
    <3>2. parent'[f[n]] = parent[f[n]] /\ parent[f[n]] # p
      BY <1>3, <2>2, <3>1
    <3> QED  BY <1>3, <2>2, <2>3, <2>5, <3>1, <3>2
  <2> QED  BY <2>4, <2>5
<1> HIDE DEF S
<1>8. \A n \in Nat : n \in S
  BY <1>6, <1>7, Induction
<1>9. f[N] = g[N]
  BY <1>4, <1>8 DEF S
<1>10. UNCHANGED include_children
  BY DEF Fork, options
<1> QED  BY <1>1, <1>2, <1>9, <1>10 DEF Family

\* A death makes strays of those who leave the family, and frees no pid that
\* is still somebody's parent.
LEMMA DeathKeepsFamily ==
  ASSUME TypeOK, ParentsLive, LeftInFamily, NEW CONSTANT p \in Pids, Dies(p),
         UNCHANGED include_children
  PROVE  /\ state' \in [Pids -> {"none", "run", "stopped"}]
         /\ parent' \in [Pids -> 0 .. N] /\ strays' \subseteq Pids
         /\ ParentsLive' /\ LeftInFamily' /\ Left' \subseteq Left
<1>1. /\ state' = [state EXCEPT ![p] = "none"]
      /\ parent' = [q \in Pids |-> IF parent[q] = p THEN 0 ELSE parent[q]]
      /\ strays' = (strays \ {p}) \cup
                   {q \in Pids \ {p} : state[q] = "stopped" /\ Descends(q)
                                       /\ ~Descends(q)'}
  BY DEF Dies
<1>2. /\ state' \in [Pids -> {"none", "run", "stopped"}]
      /\ parent' \in [Pids -> 0 .. N] /\ strays' \subseteq Pids
  <2>1. 0 \in 0 .. N
    BY LimitAssumption
  <2> QED  BY <1>1, <2>1 DEF TypeOK
<1>3. ParentsLive'
  <2>1. SUFFICES ASSUME NEW q \in Pids, parent'[q] # 0
                 PROVE  Alive(parent[q])'
    BY DEF ParentsLive
  <2>2. parent'[q] = parent[q] /\ parent[q] # p /\ parent[q] # 0
    BY <1>1, <2>1
  <2>3. Alive(parent[q]) /\ parent[q] \in Pids
    BY <2>2 DEF ParentsLive, TypeOK, Pids
  <2> QED  BY <1>1, <2>2, <2>3 DEF Alive, TypeOK
<1>4. ASSUME NEW q \in Left' PROVE q \in Left /\ Family(q)'
  <2>1. q \in Pids /\ q # p /\ state[q] = "stopped"
    BY <1>1, <1>4 DEF Left, Stopped, TypeOK
  <2>2. q \in Left /\ ~(Descends(q) /\ ~Descends(q)')
    BY <1>1, <1>4, <2>1 DEF Left, Stopped
  <2>3. Family(q)
    BY <2>2 DEF LeftInFamily
  <2> QED  BY <2>2, <2>3 DEF Family
<1> QED  BY <1>2, <1>3, <1>4 DEF LeftInFamily

\* What only moves the limiter on leaves everybody where he was.
LEMMA WorldKept ==
  ASSUME IInv, UNCHANGED <<state, parent, include_children, strays>>
  PROVE  ParentsLive' /\ LeftInFamily' /\ Left' = Left
<1>1. ParentsLive' /\ Left' = Left
  BY DEF IInv, ParentsLive, Alive, Left, Stopped
<1>2. \A p \in Left : Family(p)'
  BY FamilyKept DEF IInv, LeftInFamily
<1> QED  BY <1>1, <1>2 DEF LeftInFamily

-----------------------------------------------------------------------------
(* Every step keeps the invariant.                                          *)

\* A process that was read with the starttime the table may have for it.
LEMMA EnterInv ==
  ASSUME IInv, pc = "scan", pos <= N, NEW CONSTANT s \in Int, Enter(pos, s),
         pc' # "aborted" \/ confused'
  PROVE  /\ pc' \in {"scan", "aborted"} /\ pos' \in 1 .. N + 1
         /\ proclist' \subseteq Pids /\ proctable' \in [Pids -> Int]
         /\ pc' = "scan" => /\ proclist' = proclist \cup {pos}
                            /\ pos' = pos + 1
                            /\ proctable' = [proctable EXCEPT ![pos] = s]
<1>1. pos \in Pids /\ N \in Nat
  BY LimitAssumption DEF IInv, TypeOK, Pids
<1>2. CASE proctable[pos] \in {NoEntry, s}
  <2>1. /\ proctable' = [proctable EXCEPT ![pos] = s]
        /\ proclist' = proclist \cup {pos} /\ pos' = pos + 1 /\ pc' = pc
    BY <1>2 DEF Enter
  <2>2. proctable' \in [Pids -> Int]
    BY <2>1 DEF IInv, TypeOK
  <2> QED  BY <1>1, <2>1, <2>2 DEF IInv, TypeOK
<1>3. CASE proctable[pos] \notin {NoEntry, s}
  BY <1>1, <1>3 DEF Enter, IInv, TypeOK
<1> QED  BY <1>2, <1>3

\* The limiter and the clock.
LEMMA MovesInv ==
  ASSUME IInv, Found \/ NotFound \/ ScanOther \/ ScanAgain \/ ScanEnds
               \/ GroupGone \/ SleepEnds \/ Tick
               \/ \E tsleep \in BOOLEAN : WorkEnds(tsleep)
  PROVE  IInv'
<1> USE LimitAssumption DEF IInv, TypeOK
<1>1. UNCHANGED <<state, parent, start, include_children, strays, confused>>
  BY DEF Found, NotFound, ScanOther, ScanAgain, ScanEnds, GroupGone,
         SleepEnds, Tick, WorkEnds, world, options, hist
<1>2. ParentsLive' /\ LeftInFamily' /\ Left' = Left
  BY <1>1, WorldKept
<1>3. Left \subseteq Pids
  BY DEF Left, Stopped
<1>4. CASE Found
  <2>1. /\ proctable' = [p \in Pids |-> NoEntry] /\ tmp' = NoEntry
        /\ pc' = "scan" /\ pos' = 1 /\ proclist' = {}
        /\ UNCHANGED <<now, midscan>>
    BY <1>4 DEF Found, StartScan, world, hist
  <2>2. TypeOK'
    BY <1>1, <2>1 DEF NoEntry
  <2>3. LeftListed' /\ TableTrue'
    BY <1>1, <1>2, <1>3, <2>1 DEF LeftListed, TableTrue, Pids
  <2> QED  BY <1>2, <2>2, <2>3
<1>5. CASE NotFound
  BY <1>1, <1>2, <1>5 DEF NotFound, LeftListed, TableTrue, world, options, hist
<1>6. CASE ScanOther
  <2>1. pos \notin Left
    BY <1>6 DEF ScanOther, Left, Stopped, Alive, LeftInFamily
  <2>2. /\ pc = "scan" /\ pc' = pc /\ pos <= N /\ pos' = pos + 1
        /\ UNCHANGED <<proclist, proctable, tmp, now, midscan>>
    BY <1>6 DEF ScanOther, world, options, hist
  <2>3. TypeOK'
    BY <1>1, <2>2 DEF Pids
  <2>4. LeftListed'
    BY <1>2, <1>3, <2>1, <2>2 DEF LeftListed, Pids
  <2>5. TableTrue'
    BY <1>1, <2>2 DEF TableTrue
  <2> QED  BY <1>2, <2>3, <2>4, <2>5
<1>7. CASE ScanAgain
  BY <1>1, <1>2, <1>3, <1>7
     DEF ScanAgain, StartScan, LeftListed, TableTrue, NoEntry, world, options,
         hist, Pids
<1>8. CASE ScanEnds
  BY <1>1, <1>2, <1>3, <1>8
     DEF ScanEnds, LeftListed, TableTrue, world, options, hist, Pids
<1>9. CASE GroupGone
  BY <1>1, <1>2, <1>3, <1>9
     DEF GroupGone, LeftListed, TableTrue, world, options, hist, Pids
<1>10. CASE SleepEnds
  BY <1>1, <1>2, <1>3, <1>10
     DEF SleepEnds, StartScan, LeftListed, TableTrue, NoEntry, world, options,
         hist, Pids
<1>11. CASE Tick
  BY <1>1, <1>2, <1>11 DEF Tick, LeftListed, TableTrue, options, hist
<1>12. ASSUME NEW tsleep \in BOOLEAN, WorkEnds(tsleep) PROVE IInv'
  <2>1. CASE tsleep
    <3>1. /\ pc = "work" /\ pc' = "stop" /\ pos' = 1
          /\ UNCHANGED <<proclist, proctable, tmp, now, midscan>>
      BY <1>12, <2>1 DEF WorkEnds, world, hist
    <3>2. TypeOK'
      BY <1>1, <3>1
    <3>3. LeftListed'
      BY <1>2, <1>3, <3>1 DEF LeftListed, Pids
    <3>4. TableTrue'
      BY <1>1, <3>1 DEF TableTrue
    <3> QED  BY <1>2, <3>2, <3>3, <3>4
  <2>2. CASE ~tsleep
    <3>1. /\ pc = "work" /\ pc' = "scan" /\ pos' = 1 /\ proclist' = {}
          /\ tmp' = NoEntry /\ UNCHANGED <<proctable, now, midscan>>
      BY <1>12, <2>2 DEF WorkEnds, StartScan, world, hist
    <3>2. TypeOK'
      BY <1>1, <3>1 DEF NoEntry
    <3>3. LeftListed'
      BY <1>2, <1>3, <3>1 DEF LeftListed, Pids
    <3>4. TableTrue'
      BY <1>1, <3>1 DEF TableTrue
    <3> QED  BY <1>2, <3>2, <3>3, <3>4
  <2> QED  BY <2>1, <2>2
<1> QED
  BY <1>4, <1>5, <1>6, <1>7, <1>8, <1>9, <1>10, <1>11, <1>12

\* A member of the family enters the list as it is.
LEMMA ScanMemberInv == ASSUME IInv, ScanMember PROVE IInv'
<1> USE LimitAssumption DEF IInv, TypeOK
<1>1. UNCHANGED <<world, options, hist>> /\ pc = "scan" /\ pos <= N
  BY DEF ScanMember
<1>2. ParentsLive' /\ LeftInFamily' /\ Left' = Left
  BY <1>1, WorldKept DEF world, options, hist
<1>3. pos \in Pids /\ start[pos] \in Int
  BY <1>1 DEF Pids
<1>4. Enter(pos, start[pos]) /\ tmp' = start[pos]
  BY DEF ScanMember
<1>5. pc' = "aborted" => confused
  BY <1>1, <1>3, <1>4 DEF Enter, TableTrue
<1>6. /\ pc' \in {"scan", "aborted"} /\ pos' \in 1 .. N + 1
      /\ proclist' \subseteq Pids /\ proctable' \in [Pids -> Int]
      /\ pc' = "scan" => /\ proclist' = proclist \cup {pos}
                         /\ pos' = pos + 1
                         /\ proctable' = [proctable EXCEPT ![pos] = start[pos]]
  BY <1>1, <1>3, <1>4, <1>5, EnterInv DEF hist
<1>7. TypeOK'
  BY <1>1, <1>3, <1>4, <1>6 DEF world, options, hist
<1>8. LeftListed'
  <2>1. CASE pc' = "scan"
    <3>1. \A p \in Left : p < pos => p \in proclist
      BY <1>1 DEF LeftListed
    <3>2. Left \subseteq Pids
      BY DEF Left, Stopped
    <3> QED  BY <1>2, <1>3, <1>6, <2>1, <3>1, <3>2 DEF LeftListed, Pids
  <2>2. CASE pc' = "aborted"
    BY <2>2 DEF LeftListed
  <2> QED  BY <1>6, <2>1, <2>2
<1>9. TableTrue'
  BY <1>1, <1>3, <1>5, <1>6 DEF TableTrue, world, hist
<1> QED  BY <1>2, <1>7, <1>8, <1>9

\* A member dies before it is read.
LEMMA ScanVanishedInv == ASSUME IInv, ScanVanished PROVE IInv'
<1> USE LimitAssumption DEF IInv, TypeOK
<1>1. /\ pc = "scan" /\ pos <= N /\ pos \in Pids /\ Dies(pos)
      /\ UNCHANGED <<start, now, include_children, tmp, midscan>>
  BY DEF ScanVanished, Pids, options
<1>2. /\ state' \in [Pids -> {"none", "run", "stopped"}]
      /\ parent' \in [Pids -> 0 .. N] /\ strays' \subseteq Pids
      /\ ParentsLive' /\ LeftInFamily' /\ Left' \subseteq Left
  BY <1>1, DeathKeepsFamily
<1>3. pos \notin Left' /\ Left \subseteq Pids
  BY <1>1 DEF Dies, Left, Stopped
<1>4. \A p \in Left : p < pos => p \in proclist
  BY <1>1 DEF LeftListed
<1>5. CASE include_children
  <2>1. PICK s \in Int : Enter(pos, s)
    BY <1>1, <1>5 DEF ScanVanished
  <2>2. confused'
    BY <1>5 DEF ScanVanished
  <2>3. /\ pc' \in {"scan", "aborted"} /\ pos' \in 1 .. N + 1
        /\ proclist' \subseteq Pids /\ proctable' \in [Pids -> Int]
        /\ pc' = "scan" => proclist' = proclist \cup {pos} /\ pos' = pos + 1
    BY <1>1, <2>1, <2>2, EnterInv
  <2>4. TypeOK'
    BY <1>1, <1>2, <1>5, <2>3 DEF ScanVanished
  <2>5. LeftListed'
    <3>1. CASE pc' = "scan"
      BY <1>1, <1>2, <1>3, <1>4, <2>3, <3>1 DEF LeftListed, Pids
    <3>2. CASE pc' = "aborted"
      BY <3>2 DEF LeftListed
    <3> QED  BY <2>3, <3>1, <3>2
  <2> QED  BY <1>2, <2>2, <2>4, <2>5 DEF TableTrue
<1>6. CASE ~include_children
  <2>1. pos' = pos + 1 /\ UNCHANGED <<pc, proclist, proctable, confused>>
    BY <1>6 DEF ScanVanished
  <2>2. LeftListed'
    BY <1>1, <1>2, <1>3, <1>4, <2>1 DEF LeftListed, Pids
  <2>3. TypeOK' /\ TableTrue'
    BY <1>1, <1>2, <2>1 DEF TableTrue
  <2> QED  BY <1>2, <2>2, <2>3
<1> QED  BY <1>5, <1>6

\* A member dies before all of it is read.
LEMMA ScanHalfReadInv == ASSUME IInv, ScanHalfRead PROVE IInv'
<1> USE LimitAssumption DEF IInv, TypeOK
<1>1. /\ pc = "scan" /\ pos <= N /\ pos \in Pids /\ Dies(pos)
      /\ UNCHANGED <<start, now, include_children, confused, midscan>>
  BY DEF ScanHalfRead, Pids, options
<1>2. /\ state' \in [Pids -> {"none", "run", "stopped"}]
      /\ parent' \in [Pids -> 0 .. N] /\ strays' \subseteq Pids
      /\ ParentsLive' /\ LeftInFamily' /\ Left' \subseteq Left
  BY <1>1, DeathKeepsFamily
<1>3. pos \notin Left' /\ Left \subseteq Pids
  BY <1>1 DEF Dies, Left, Stopped
<1>4. \A p \in Left : p < pos => p \in proclist
  BY <1>1 DEF LeftListed
<1>5. CASE tmp' = start[pos] /\ Enter(pos, start[pos])
  <2>1. start[pos] \in Int
    BY <1>1
  <2>2. pc' = "aborted" => confused
    BY <1>1, <1>5, <2>1 DEF Enter, TableTrue
  <2>3. /\ pc' \in {"scan", "aborted"} /\ pos' \in 1 .. N + 1
        /\ proclist' \subseteq Pids /\ proctable' \in [Pids -> Int]
        /\ pc' = "scan" =>
              /\ proclist' = proclist \cup {pos} /\ pos' = pos + 1
              /\ proctable' = [proctable EXCEPT ![pos] = start[pos]]
    BY <1>1, <1>5, <2>1, <2>2, EnterInv
  <2>4. TypeOK'
    BY <1>1, <1>2, <1>5, <2>1, <2>3
  <2>5. LeftListed'
    <3>1. CASE pc' = "scan"
      BY <1>1, <1>2, <1>3, <1>4, <2>3, <3>1 DEF LeftListed, Pids
    <3>2. CASE pc' = "aborted"
      BY <3>2 DEF LeftListed
    <3> QED  BY <2>3, <3>1, <3>2
  <2>6. TableTrue'
    BY <1>1, <2>1, <2>2, <2>3 DEF TableTrue
  <2> QED  BY <1>2, <2>4, <2>5, <2>6
<1>6. CASE pos' = pos + 1 /\ UNCHANGED <<pc, proclist, proctable, tmp>>
  <2>1. LeftListed'
    BY <1>1, <1>2, <1>3, <1>4, <1>6 DEF LeftListed, Pids
  <2>2. TypeOK' /\ TableTrue'
    BY <1>1, <1>2, <1>6 DEF TableTrue
  <2> QED  BY <1>2, <2>1, <2>2
<1>7. CASE pc' = "crashed" /\ UNCHANGED <<pos, proclist, proctable, tmp>>
  <2>1. LeftListed'
    BY <1>7 DEF LeftListed
  <2>2. TypeOK' /\ TableTrue'
    BY <1>1, <1>2, <1>7 DEF TableTrue
  <2> QED  BY <1>2, <2>1, <2>2
<1> QED  BY <1>5, <1>6, <1>7 DEF ScanHalfRead

\* One step through the list, to continue its members or to stop them.
LEMMA WalkInv ==
  ASSUME IInv, NEW CONSTANT phase, NEW CONSTANT next, NEW CONSTANT s,
         \/ phase = "cont" /\ next = "work" /\ s = "run"
         \/ phase = "stop" /\ next = "sleep" /\ s = "stopped",
         Walk(phase, next, s)
  PROVE  IInv'
<1> USE LimitAssumption DEF IInv, TypeOK
<1>1. /\ pc = phase /\ s \in {"run", "stopped"}
      /\ UNCHANGED <<parent, start, now, include_children, tmp, confused,
                     midscan>>
  BY DEF Walk, options
<1>2. Left \subseteq Pids
  BY DEF Left, Stopped
<1>3. CASE pos \notin proclist
  <2>1. UNCHANGED <<state, strays, proclist, proctable>>
    BY <1>3 DEF Walk
  <2>2. ParentsLive' /\ LeftInFamily' /\ Left' = Left
    BY <1>1, <2>1, WorldKept
  <2>3. CASE pos <= N
    <3>1. pos' = pos + 1 /\ pc' = pc
      BY <1>3, <2>3 DEF Walk
    <3>2. TypeOK'
      BY <1>1, <2>1, <2>3, <3>1
    <3>3. LeftListed'
      BY <1>1, <1>2, <1>3, <2>1, <2>2, <3>1 DEF LeftListed, Pids
    <3>4. TableTrue'
      BY <1>1, <2>1, <3>1 DEF TableTrue
    <3> QED  BY <2>2, <3>2, <3>3, <3>4
  <2>4. CASE ~(pos <= N)
    <3>1. pos' = 1 /\ pc' = next
      BY <1>3, <2>4 DEF Walk
    <3>2. TypeOK'
      BY <1>1, <2>1, <3>1
    <3>3. \A q \in Left : q \in Pids /\ ~(pos <= q)
      BY <1>2, <2>4 DEF Pids
    <3>4. LeftListed'
      BY <1>1, <1>2, <2>1, <2>2, <3>1, <3>3 DEF LeftListed, Pids
    <3>5. TableTrue'
      BY <1>1, <2>1, <3>1 DEF TableTrue
    <3> QED  BY <2>2, <3>2, <3>4, <3>5
  <2> QED  BY <2>3, <2>4
<1>4. CASE pos \in proclist /\ Alive(pos)
  <2>1. /\ Hit(s) /\ pos' = pos + 1 /\ pc' = pc /\ pos \in Pids
        /\ UNCHANGED <<proclist, proctable>>
    BY <1>4 DEF Walk, Hit
  <2>2. state' = [state EXCEPT ![pos] = s] /\ strays' \subseteq Pids
    BY <2>1 DEF Hit
  <2>3. TypeOK' /\ TableTrue' /\ ParentsLive'
    <3>1. state' \in [Pids -> {"none", "run", "stopped"}]
      BY <1>1, <2>1, <2>2
    <3>2. pos' \in 1 .. N + 1
      BY <2>1 DEF Pids
    <3>3. TypeOK'
      BY <1>1, <2>1, <2>2, <3>1, <3>2
    <3>4. ParentsLive'
      BY <1>1, <2>1, <2>2 DEF ParentsLive, Alive
    <3> QED  BY <1>1, <2>1, <3>3, <3>4 DEF TableTrue
  <2>4. CASE s = "run"
    <3>1. Left' = Left \ {pos}
      BY <2>1, <2>2, <2>4 DEF Hit, Left, Stopped
    <3>2. LeftInFamily'
      BY <1>1, <3>1, FamilyKept DEF LeftInFamily
    <3>3. LeftListed'
      BY <1>1, <1>2, <2>1, <2>4, <3>1 DEF LeftListed, Pids
    <3> QED  BY <2>3, <3>2, <3>3
  <2>5. CASE s = "stopped"
    <3>1. Left' \subseteq Left \cup {pos} /\ (pos \in Left' => Family(pos))
      BY <2>1, <2>2, <2>5 DEF Hit, Left, Stopped
    <3>2. LeftInFamily'
      BY <1>1, <3>1, FamilyKept DEF LeftInFamily
    <3>3. LeftListed'
      BY <1>1, <1>4, <2>1, <2>5, <3>1 DEF LeftListed
    <3> QED  BY <2>3, <3>2, <3>3
  <2> QED  BY <1>1, <2>4, <2>5
<1>5. CASE pos \in proclist /\ ~Alive(pos)
  <2>1. /\ pos' = pos + 1 /\ pc' = pc /\ pos \in Pids
        /\ proclist' = proclist \ {pos}
        /\ proctable' = [proctable EXCEPT ![pos] = NoEntry]
        /\ UNCHANGED <<state, strays>>
    BY <1>5 DEF Walk, DropDead
  <2>2. ParentsLive' /\ LeftInFamily' /\ Left' = Left /\ pos \notin Left
    BY <1>1, <1>5, <2>1, WorldKept DEF Alive, Left, Stopped
  <2>3. TypeOK' /\ TableTrue'
    <3>1. proctable' \in [Pids -> Int] /\ pos' \in 1 .. N + 1
      BY <2>1 DEF NoEntry, Pids
    <3>2. TypeOK'
      BY <1>1, <2>1, <3>1
    <3> QED  BY <1>1, <2>1, <3>2 DEF TableTrue
  <2>4. LeftListed'
    BY <1>1, <1>2, <2>1, <2>2 DEF LeftListed, Pids
  <2> QED  BY <2>2, <2>3, <2>4
<1> QED  BY <1>3, <1>4, <1>5

\* Whoever is in the list is continued.
LEMMA QuitInv == ASSUME IInv, Quit PROVE IInv'
<1> USE LimitAssumption DEF IInv, TypeOK
<1>1. /\ pc \notin {"done", "aborted", "crashed"} /\ pc' = "done"
      /\ midscan' = (pc = "scan")
      /\ state' = [p \in Pids |-> IF p \in proclist /\ Alive(p) THEN "run"
                                  ELSE state[p]]
      /\ strays' = strays \ proclist
      /\ UNCHANGED <<parent, start, now, include_children, pos, proclist,
                     proctable, tmp, confused>>
  BY DEF Quit, Ended, options
<1>2. TypeOK' /\ TableTrue' /\ ParentsLive'
  BY <1>1 DEF TableTrue, ParentsLive, Alive, Pids
<1>3. Left' = Left \ proclist
  <2>1. \A p \in Pids : p \in Left' <=> p \in Left \ proclist
    BY <1>1 DEF Left, Stopped, Alive
  <2> QED  BY <2>1 DEF Left, Stopped
<1>4. LeftInFamily'
  BY <1>1, <1>3, FamilyKept DEF LeftInFamily
<1>5. LeftListed'
  BY <1>1, <1>3 DEF LeftListed
<1> QED  BY <1>2, <1>4, <1>5

\* A death outside the scan, or anywhere else in it.
LEMMA DeathInv ==
  ASSUME IInv, NEW CONSTANT p \in Pids, Death(p) PROVE IInv'
<1> USE DEF IInv, TypeOK
<1>1. /\ Dies(p)
      /\ UNCHANGED <<start, now, include_children, pc, pos, proclist,
                     proctable, tmp, confused, midscan>>
  BY DEF Death, options
<1>2. /\ state' \in [Pids -> {"none", "run", "stopped"}]
      /\ parent' \in [Pids -> 0 .. N] /\ strays' \subseteq Pids
      /\ ParentsLive' /\ LeftInFamily' /\ Left' \subseteq Left
  BY <1>1, DeathKeepsFamily
<1>3. TypeOK' /\ TableTrue'
  BY <1>1, <1>2 DEF TableTrue
<1>4. LeftListed'
  BY <1>1, <1>2 DEF LeftListed
<1> QED  BY <1>2, <1>3, <1>4

\* A birth: a pid that is used again while it is in the table confuses.
LEMMA ForkInv ==
  ASSUME IInv, NEW CONSTANT from \in Pids \cup {0}, NEW CONSTANT p \in Pids,
         Fork(from, p)
  PROVE  IInv'
<1> USE LimitAssumption DEF IInv, TypeOK
<1>1. /\ ~Alive(p) /\ (from # 0 => state[from] = "run")
      /\ state' = [state EXCEPT ![p] = "run"]
      /\ parent' = [parent EXCEPT ![p] = from]
      /\ start' = [start EXCEPT ![p] = now]
      /\ confused' = (confused \/ (proctable[p] # NoEntry))
      /\ UNCHANGED <<now, include_children, pc, pos, proclist, proctable,
                     tmp, strays, midscan>>
  BY DEF Fork, options
<1>2. TypeOK'
  <2>1. from \in 0 .. N /\ confused' \in BOOLEAN
    BY <1>1 DEF Pids
  <2> QED  BY <1>1, <2>1
<1>3. ParentsLive'
  <2>1. ASSUME NEW q \in Pids, parent'[q] # 0
        PROVE  state'[parent'[q]] # "none"
    <3>1. CASE q = p
      <4>1. parent'[q] = from /\ from # 0 /\ state[from] = "run" /\ from # p
        BY <1>1, <2>1, <3>1 DEF Alive
      <4> QED  BY <1>1, <4>1
    <3>2. CASE q # p
      <4>1. parent'[q] = parent[q] /\ state[parent[q]] # "none" /\ parent[q] # p
        BY <1>1, <2>1, <3>2 DEF ParentsLive, Alive
      <4>2. parent[q] \in Pids
        BY <2>1, <3>2, <4>1 DEF Pids
      <4> QED  BY <1>1, <4>1, <4>2
    <3> QED  BY <3>1, <3>2
  <2> QED  BY <2>1 DEF ParentsLive, Alive
<1>4. Left' = Left /\ p \notin Left /\ Left \subseteq Pids
  <2>1. \A q \in Pids : q \in Left' <=> q \in Left
    BY <1>1 DEF Left, Stopped, Alive
  <2> QED  BY <1>1, <2>1 DEF Left, Stopped, Alive
<1>5. LeftInFamily'
  BY <1>4, ForkKeepsFamily DEF LeftInFamily
<1>6. LeftListed'
  BY <1>1, <1>4 DEF LeftListed
<1>7. TableTrue'
  BY <1>1 DEF TableTrue
<1> QED  BY <1>2, <1>3, <1>5, <1>6, <1>7

LEMMA NextInv == IInv /\ [Next]_vars => IInv'
<1> SUFFICES ASSUME IInv, [Next]_vars PROVE IInv'
  OBVIOUS
<1>1. CASE Limiter
  <2>1. CASE Resume
    BY <2>1, WalkInv DEF Resume
  <2>2. CASE Stop
    BY <2>2, WalkInv DEF Stop
  <2> QED  BY <1>1, <2>1, <2>2, MovesInv, ScanMemberInv DEF Limiter
<1>2. CASE ScanVanished \/ ScanHalfRead \/ Quit \/ Tick
  BY <1>2, ScanVanishedInv, ScanHalfReadInv, QuitInv, MovesInv
<1>3. ASSUME NEW p \in Pids, Death(p) PROVE IInv'
  BY <1>3, DeathInv
<1>4. ASSUME NEW p \in Pids, NEW from \in Pids \cup {0}, Fork(from, p)
      PROVE  IInv'
  BY <1>4, ForkInv
<1>5. CASE UNCHANGED vars
  <2>1. ParentsLive' /\ LeftInFamily' /\ Left' = Left
    BY <1>5, WorldKept DEF vars, world, options, hist
  <2>2. TypeOK' /\ LeftListed' /\ TableTrue'
    BY <1>5, <2>1 DEF IInv, TypeOK, LeftListed, TableTrue, vars, world,
                      options, hist
  <2> QED  BY <2>1, <2>2 DEF IInv
<1> QED  BY <1>1, <1>2, <1>3, <1>4, <1>5 DEF Next

\* The invariant holds of every run of the limiter.
THEOREM Invariance == Spec => []IInv
<1>1. Init => IInv
  <2> SUFFICES ASSUME Init PROVE IInv
    OBVIOUS
  <2> USE LimitAssumption DEF Init
  <2>1. TypeOK
    <3>1. 0 \in 0 .. N /\ 0 \in 0 .. MaxTime /\ 1 \in 1 .. N + 1
      OBVIOUS
    <3>2. /\ state \in [Pids -> {"none", "run", "stopped"}]
          /\ parent \in [Pids -> 0 .. N] /\ start \in [Pids -> 0 .. MaxTime]
          /\ proctable \in [Pids -> Int] /\ tmp \in Int
      BY <3>1 DEF NoEntry
    <3> QED  BY <3>1, <3>2 DEF TypeOK
  <2>2. Stopped = {}
    BY DEF Stopped
  <2>3. LeftInFamily /\ LeftListed
    BY <2>2 DEF LeftInFamily, LeftListed, Left
  <2>4. ParentsLive /\ TableTrue
    BY DEF ParentsLive, TableTrue, Pids
  <2> QED  BY <2>1, <2>3, <2>4 DEF IInv
<1> QED  BY <1>1, NextInv, PTL DEF Spec

\* The only processes left stopped are those that had left the family, unless
\* the signal came while the list was being rebuilt.
THEOREM NobodyElseStopped == Spec => []OnlyStraysLeft
<1>1. IInv => OnlyStraysLeft
  BY DEF IInv, LeftListed, Left, OnlyStraysLeft
<1> QED  BY <1>1, Invariance, PTL

\* The assertion on starttime fails only for a pid that was used again or a
\* process that vanished while it was read.
THEOREM NoFalseAlarm == Spec => []AssertionHolds
<1>1. IInv => AssertionHolds
  BY DEF IInv, TableTrue, AssertionHolds
<1> QED  BY <1>1, Invariance, PTL
=============================================================================
