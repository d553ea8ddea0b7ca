--------------------------- MODULE ShellSyncProofs --------------------------
(***************************************************************************)
(* Nobody passes the barrier of shellsync before everybody has arrived.    *)
(***************************************************************************)
EXTENDS ShellSync, FiniteSetTheorems, TLAPS

\* A run that has posted its count and still stands in sync_wait or main.
Counted(p) ==
    \/ pc[p] \in {"get", "release", "wait"}
    \/ pc[p] \in {"unlinkCount", "unlinkBlock"} /\ mine[p]["count"] # 0

\* p has arrived on c in a run that is over.
Left(p, c) == p \in arrived[c] /\ mine[p]["count"] # c

\* A name leads to the newest object made under it, or to none.
NewestNamed == \A n \in Names : named[n] \in {0, made[n]}

\* What a run has opened, and what has been made.
OpenedMade ==
    /\ \A p \in Procs : \A n \in Names : mine[p][n] <= made[n]
    /\ \A p \in Procs : (mine[p]["block"] = 0) <=> (pc[p] = "out")
    /\ \A p \in Procs : pc[p] \in {"out", "openCount"} => mine[p]["count"] = 0
    /\ \A p \in Procs : pc[p] \in {"post", "get", "release", "wait"}
                            => mine[p]["count"] # 0

\* The value of a count is the number of scripts that arrived on it, and
\* nothing has happened to what has not been made.
CountsArrivals ==
    /\ \A c \in Objects : count[c] = Cardinality(arrived[c])
    /\ \A c \in Objects : c > made["count"] => arrived[c] = {}
    /\ \A b \in Objects : b > made["block"] => block[b] = 0

\* A script arrives on an object once.
ArrivesOnce ==
    \A p \in Procs :
        /\ pc[p] = "post" => p \notin arrived[mine[p]["count"]]
        /\ Counted(p) => p \in arrived[mine[p]["count"]]

\* Whoever has left a count unlinked it, or is about to have ...
LeftUnnamed ==
    /\ \A p \in Procs : \A c \in Objects : Left(p, c) => named["count"] # c
    /\ \A p \in Procs : pc[p] = "unlinkBlock" /\ mine[p]["count"] # 0
                            => named["count"] # mine[p]["count"]

\* ... and he holds another block than those who still hold that count, and
\* will not be given theirs.
LeftApart ==
    \A p, q \in Procs : \A c \in Objects :
        Left(p, c) /\ mine[q]["count"] = c
            => /\ mine[p]["block"] # mine[q]["block"]
               /\ (pc[p] = "out" => named["block"] # mine[q]["block"])

\* Who posts for everybody, and who has passed, holds a full count.
FullCount ==
    /\ \A p \in Procs : pc[p] = "release" => arrived[mine[p]["count"]] = Procs
    /\ \A p \in Procs : ok[p] => /\ pc[p] \in {"unlinkCount", "unlinkBlock"}
                                 /\ mine[p]["count"] # 0
                                 /\ arrived[mine[p]["count"]] = Procs

\* Who holds a block that was posted holds a full count, and nobody is left
\* to be given that block.
FullBlock ==
    /\ \A p \in Procs : \A b \in Objects :
            block[b] > 0 /\ mine[p]["block"] = b
                => /\ mine[p]["count"] # 0
                   /\ arrived[mine[p]["count"]] = Procs
    /\ \A p \in Procs : \A b \in Objects :
            block[b] > 0 /\ named["block"] = b => pc[p] # "out"

\* Strengthening of NobodyAhead: as long as no run was killed, an object's
\* number, its arrivals and its holders tell who belongs to which round.
Rounds ==
    killed = 0 => /\ NewestNamed /\ OpenedMade /\ CountsArrivals
                  /\ ArrivesOnce /\ LeftUnnamed /\ LeftApart
                  /\ FullCount /\ FullBlock

IInv == TypeOK /\ Rounds

-----------------------------------------------------------------------------
\* Arrivals are scripts, so they are finitely many; who is the N-th is last.
LEMMA AllArrived ==
    ASSUME NEW A \in SUBSET Procs
    PROVE /\ Cardinality(A) \in Nat
          /\ Cardinality(A) >= N => A = Procs
          /\ \A p \in Procs \ A : Cardinality(A \cup {p}) = Cardinality(A) + 1
  <1>1. IsFiniteSet(A)
    BY NAssumption, FS_Subset
  <1>2. Cardinality(A) \in Nat
    BY <1>1, FS_CardinalityType
  <1>3. Cardinality(A) >= N => A = Procs
    BY <1>2, NAssumption, FS_Subset
  <1>4. \A p \in Procs \ A : Cardinality(A \cup {p}) = Cardinality(A) + 1
    BY <1>1, FS_AddElement
  <1> QED BY <1>2, <1>3, <1>4

\* An empty count has the value 0.
LEMMA NoneArrived == Cardinality({}) = 0
  BY FS_EmptySet

LEMMA TypeInit == Init => TypeOK
  <1> SUFFICES ASSUME Init PROVE TypeOK
    OBVIOUS
  <1>1. 0 \in 0 .. MaxObjects /\ 0 \in 0 .. N - 1 /\ 0 \in 0 .. MaxRuns
    BY NAssumption
  <1>2. mine \in [Procs -> [Names -> 0 .. MaxObjects]]
    BY <1>1 DEF Init, Nothing
  <1> QED BY <1>1, <1>2 DEF Init, TypeOK

\* sem_post and sem_timedwait leave every semaphore a natural number.
LEMMA PostedValue ==
    ASSUME NEW f \in [Objects -> Nat], NEW s
    PROVE /\ [f EXCEPT ![s] = @ + 1] \in [Objects -> Nat]
          /\ f[s] > 0 => [f EXCEPT ![s] = @ - 1] \in [Objects -> Nat]
  <1>1. CASE s \in Objects
    BY <1>1
  <1>2. CASE s \notin Objects
    BY <1>2
  <1> QED BY <1>1, <1>2

\* One step of a script keeps the types.
LEMMA TypeNext == TypeOK /\ [Next]_vars => TypeOK'
  <1> SUFFICES ASSUME TypeOK, [Next]_vars PROVE TypeOK'
    OBVIOUS
  <1> USE NAssumption DEF TypeOK
  <1>1. CASE UNCHANGED vars
    BY <1>1 DEF vars, history
  <1>2. ASSUME NEW p \in Procs, OpenBlock(p) \/ Run(p) \/ Mishap(p)
        PROVE TypeOK'
    <2>1. CASE OpenBlock(p)
      BY <2>1 DEF OpenBlock, Open, history, Names
    <2>2. CASE OpenCount(p)
      BY <2>2 DEF OpenCount, Open, history, Names
    <2>3. CASE PostCount(p)
      <3>1. count' \in [Objects -> Nat]
        BY <2>3, PostedValue DEF PostCount
      <3>2. arrived' \in [Objects -> SUBSET Procs]
        BY <2>3 DEF PostCount
      <3> QED BY <2>3, <3>1, <3>2 DEF PostCount, history
    <2>4. CASE GetValue(p)
      <3>1. N - 1 \in 0 .. N - 1
        OBVIOUS
      <3>2. left' \in [Procs -> 0 .. N - 1]
        BY <2>4, <3>1 DEF GetValue
      <3> QED BY <2>4, <3>2 DEF GetValue, history
    <2>5. CASE PostBlock(p)
      <3>1. block' \in [Objects -> Nat]
        BY <2>5, PostedValue DEF PostBlock
      <3>2. left' \in [Procs -> 0 .. N - 1]
        BY <2>5 DEF PostBlock
      <3> QED BY <2>5, <3>1, <3>2 DEF PostBlock, history
    <2>6. CASE Released(p)
      BY <2>6 DEF Released, Succeed, history
    <2>7. CASE Woken(p)
      <3>1. block' \in [Objects -> Nat]
        BY <2>7, PostedValue DEF Woken
      <3> QED BY <2>7, <3>1 DEF Woken, Succeed, history
    <2>8. CASE UnlinkCount(p)
      BY <2>8 DEF UnlinkCount, history, Names
    <2>9. CASE UnlinkBlock(p)
      BY <2>9 DEF UnlinkBlock, Ended, Nothing, history, Names
    <2>10. CASE OpenFails(p)
      BY <2>10 DEF OpenFails, Fail
    <2>11. CASE TimeOut(p)
      BY <2>11 DEF TimeOut, Fail
    <2>12. CASE Kill(p)
      BY <2>12 DEF Kill, Ended, Nothing, Names
    <2> QED BY <1>2, <2>1, <2>2, <2>3, <2>4, <2>5, <2>6, <2>7, <2>8, <2>9,
               <2>10, <2>11, <2>12 DEF Run, Mishap
  <1> QED BY <1>1, <1>2 DEF Next
\* The strengthening holds at the start ...
LEMMA RoundsInit == Init => Rounds
  <1> SUFFICES ASSUME Init PROVE Rounds
    OBVIOUS
  <1>1. NewestNamed
    BY NoneArrived DEF Init, Names, Objects, Nothing, NewestNamed
  <1>2. OpenedMade
    BY NoneArrived DEF Init, Names, Objects, Nothing, OpenedMade
  <1>3. CountsArrivals
    BY NoneArrived DEF Init, Names, Objects, Nothing, CountsArrivals
  <1>4. ArrivesOnce
    BY NoneArrived DEF Init, Names, Objects, Nothing, ArrivesOnce, Counted
  <1>5. LeftUnnamed
    BY NoneArrived DEF Init, Names, Objects, Nothing, LeftUnnamed, Left
  <1>6. LeftApart
    BY NoneArrived DEF Init, Names, Objects, Nothing, LeftApart, Left
  <1>7. FullCount
    BY NoneArrived DEF Init, Names, Objects, Nothing, FullCount
  <1>8. FullBlock
    BY NoneArrived DEF Init, Names, Objects, Nothing, FullBlock
  <1> QED BY <1>1, <1>2, <1>3, <1>4, <1>5, <1>6, <1>7, <1>8 DEF Rounds

\* ... and every step keeps it.
LEMMA RoundsNext == IInv /\ [Next]_vars => Rounds'
  <1> SUFFICES ASSUME IInv, [Next]_vars, killed' = 0 PROVE Rounds'
    BY DEF Rounds
  <1>t. TypeOK /\ TypeOK'
    BY TypeNext DEF IInv
  <1> USE <1>t DEF TypeOK
  <1>k. CASE UNCHANGED vars
    BY <1>k DEF IInv, Rounds, NewestNamed, OpenedMade, CountsArrivals,
         ArrivesOnce, Counted, LeftUnnamed, LeftApart, Left, FullCount,
         FullBlock, vars, history
  <1>p. ASSUME NEW p \in Procs, OpenBlock(p) \/ Run(p) \/ Mishap(p)
        PROVE Rounds'
    <2>1. CASE OpenBlock(p)
      <3>k. NewestNamed /\ OpenedMade /\ CountsArrivals /\ ArrivesOnce
              /\ LeftUnnamed /\ LeftApart /\ FullCount /\ FullBlock
        BY <2>1 DEF IInv, Rounds, OpenBlock, Open, history
      <3>1. NewestNamed'
        BY <2>1, <3>k DEF OpenBlock, Open, history, Names, Objects,
             NewestNamed
      <3>2. OpenedMade'
        BY <2>1, <3>k DEF OpenBlock, Open, history, Names, Objects,
             NewestNamed, OpenedMade
      <3>3. CountsArrivals'
        BY <2>1, <3>k DEF OpenBlock, Open, history, Names, Objects,
             CountsArrivals, OpenedMade, ArrivesOnce
      <3>4. ArrivesOnce'
        BY <2>1, <3>k DEF OpenBlock, Open, history, Names, Objects,
             ArrivesOnce, Counted, OpenedMade, CountsArrivals, LeftUnnamed, Left
      <3>5. LeftUnnamed'
        BY <2>1, <3>k DEF OpenBlock, Open, history, Names, Objects,
             LeftUnnamed, Left, NewestNamed, OpenedMade, CountsArrivals
      <3>6. LeftApart'
        BY <2>1, <3>k DEF OpenBlock, Open, history, Names, Objects,
             LeftApart, LeftUnnamed, Left, NewestNamed, OpenedMade, CountsArrivals
      <3>7. FullCount'
        BY <2>1, <3>k DEF OpenBlock, Open, history, Names, Objects,
             FullCount, FullBlock, OpenedMade, CountsArrivals
      <3>8. FullBlock'
        <4> DEFINE s == IF named["block"] = 0 THEN made["block"] + 1
                        ELSE named["block"]
        <4>1. /\ s \in Objects /\ named'["block"] = s /\ mine'[p]["block"] = s
              /\ \A q \in Procs \ {p} : mine'[q] = mine[q]
          BY <2>1 DEF OpenBlock, Open, Names, Objects
        <4>2. block[s] = 0
          BY <2>1, <3>k, <4>1 DEF OpenBlock, CountsArrivals, FullBlock, Names,
               Objects
        <4>3. /\ pc' = [pc EXCEPT ![p] = "openCount"]
              /\ block' = block /\ arrived' = arrived
          BY <2>1 DEF OpenBlock
        <4> HIDE DEF s
        <4>4. ASSUME NEW q \in Procs, NEW b \in Objects,
                     block'[b] > 0, mine'[q]["block"] = b
              PROVE q # p /\ block[b] > 0 /\ mine[q]["block"] = b
          BY <4>1, <4>2, <4>3, <4>4
        <4>5. ASSUME NEW q \in Procs, NEW b \in Objects,
                     block'[b] > 0, named'["block"] = b
              PROVE FALSE
          BY <4>1, <4>2, <4>3, <4>5
        <4> QED BY <3>k, <4>1, <4>3, <4>4, <4>5 DEF FullBlock
      <3> QED BY <3>1, <3>2, <3>3, <3>4, <3>5, <3>6, <3>7, <3>8 DEF Rounds
    <2>2. CASE OpenCount(p)
      <3>k. NewestNamed /\ OpenedMade /\ CountsArrivals /\ ArrivesOnce
              /\ LeftUnnamed /\ LeftApart /\ FullCount /\ FullBlock
        BY <2>2 DEF IInv, Rounds, OpenCount, Open, history
      <3>1. NewestNamed'
        BY <2>2, <3>k DEF OpenCount, Open, history, Names, Objects,
             NewestNamed
      <3>2. OpenedMade'
        BY <2>2, <3>k DEF OpenCount, Open, history, Names, Objects,
             NewestNamed, OpenedMade
      <3>3. CountsArrivals'
        BY <2>2, <3>k DEF OpenCount, Open, history, Names, Objects,
             CountsArrivals, OpenedMade, ArrivesOnce
      <3>4. ArrivesOnce'
        <4>1. PICK s \in Objects :
                  /\ named["count"] = 0 => s = made["count"] + 1
                  /\ named["count"] # 0 => s = named["count"]
                  /\ named'["count"] = s /\ mine'[p]["count"] = s
                  /\ named'["block"] = named["block"]
                  /\ mine'[p]["block"] = mine[p]["block"]
                  /\ \A q \in Procs \ {p} : mine'[q] = mine[q]
          BY <2>2 DEF OpenCount, Open, Names, Objects
        <4>2. /\ pc[p] = "openCount" /\ pc' = [pc EXCEPT ![p] = "post"]
              /\ arrived' = arrived
          BY <2>2 DEF OpenCount
        <4>3. \A q \in Procs : q \in arrived[s] => mine[q]["count"] = s
          <5>1. CASE named["count"] = 0
            <6>1. made["count"] \in Nat
              BY DEF Names
            <6>2. s > made["count"]
              BY <4>1, <5>1, <6>1
            <6>3. arrived[s] = {}
              BY <3>k, <6>2 DEF CountsArrivals
            <6> QED BY <6>3
          <5>2. CASE named["count"] # 0
            BY <3>k, <4>1, <5>2 DEF LeftUnnamed, Left
          <5> QED BY <5>1, <5>2
        <4>4. mine[p]["count"] = 0 /\ s # 0
          BY <3>k, <4>1, <4>2 DEF OpenedMade, Objects
        <4> QED BY <3>k, <4>1, <4>2, <4>3, <4>4 DEF ArrivesOnce, Counted
      <3>5. LeftUnnamed'
        BY <2>2, <3>k DEF OpenCount, Open, history, Names, Objects,
             LeftUnnamed, Left, NewestNamed, OpenedMade, CountsArrivals
      <3>6. LeftApart'
        <4>1. PICK s \in Objects :
                  /\ named["count"] = 0 => s = made["count"] + 1
                  /\ named["count"] # 0 => s = named["count"]
                  /\ named'["count"] = s /\ mine'[p]["count"] = s
                  /\ named'["block"] = named["block"]
                  /\ mine'[p]["block"] = mine[p]["block"]
                  /\ \A q \in Procs \ {p} : mine'[q] = mine[q]
          BY <2>2 DEF OpenCount, Open, Names, Objects
        <4>2. /\ pc[p] = "openCount" /\ pc' = [pc EXCEPT ![p] = "post"]
              /\ arrived' = arrived
          BY <2>2 DEF OpenCount
        <4>3. \A q \in Procs : q \in arrived[s] => mine[q]["count"] = s
          <5>1. CASE named["count"] = 0
            <6>1. made["count"] \in Nat
              BY DEF Names
            <6>2. s > made["count"]
              BY <4>1, <5>1, <6>1
            <6>3. arrived[s] = {}
              BY <3>k, <6>2 DEF CountsArrivals
            <6> QED BY <6>3
          <5>2. CASE named["count"] # 0
            BY <3>k, <4>1, <5>2 DEF LeftUnnamed, Left
          <5> QED BY <5>1, <5>2
        <4>4. mine[p]["count"] = 0 /\ s # 0
          BY <3>k, <4>1, <4>2 DEF OpenedMade, Objects
        <4>5. ASSUME NEW x \in Procs, NEW q \in Procs, NEW c \in Objects,
                     Left(x, c)', mine'[q]["count"] = c
              PROVE Left(x, c) /\ mine[q]["count"] = c
          <5>1. c # 0 /\ x \in arrived[c]
            BY <4>2, <4>5 DEF Left, Objects
          <5>2. q # p
            BY <4>1, <4>3, <4>4, <4>5, <5>1 DEF Left
          <5>3. mine[x]["count"] # c
            BY <4>1, <4>4, <4>5, <5>1 DEF Left
          <5> QED BY <4>1, <4>5, <5>1, <5>2, <5>3 DEF Left
        <4>6. \A x \in Procs : mine'[x]["block"] = mine[x]["block"]
          BY <4>1
        <4>7. \A x \in Procs : pc'[x] = "out" => pc[x] = "out"
          <5> SUFFICES ASSUME NEW x \in Procs PROVE pc'[x] = "out" => pc[x] = "out"
            OBVIOUS
          <5> QED BY <4>2
        <4>8. named'["block"] = named["block"]
          BY <4>1
        <4>9. LeftApart
          BY <3>k
        <4> SUFFICES ASSUME NEW x \in Procs, NEW q \in Procs, NEW c \in Objects,
                            Left(x, c)', mine'[q]["count"] = c
                     PROVE /\ mine'[x]["block"] # mine'[q]["block"]
                           /\ (pc'[x] = "out"
                                 => named'["block"] # mine'[q]["block"])
          BY DEF LeftApart
        <4>a. Left(x, c) /\ mine[q]["count"] = c
          BY <4>5
        <4>b. /\ mine[x]["block"] # mine[q]["block"]
              /\ (pc[x] = "out" => named["block"] # mine[q]["block"])
          BY ONLY <4>9, <4>a DEF LeftApart
        <4> QED BY <4>6, <4>7, <4>8, <4>b
      <3>7. FullCount'
        BY <2>2, <3>k DEF OpenCount, Open, history, Names, Objects,
             FullCount, FullBlock, OpenedMade, CountsArrivals
      <3>8. FullBlock'
        BY <2>2, <3>k DEF OpenCount, Open, history, Names, Objects,
             FullBlock, FullCount, NewestNamed, OpenedMade, CountsArrivals, LeftApart, Left
      <3> QED BY <3>1, <3>2, <3>3, <3>4, <3>5, <3>6, <3>7, <3>8 DEF Rounds
    <2>3. CASE PostCount(p)
      <3>k. NewestNamed /\ OpenedMade /\ CountsArrivals /\ ArrivesOnce
              /\ LeftUnnamed /\ LeftApart /\ FullCount /\ FullBlock
        BY <2>3 DEF IInv, Rounds, PostCount, history
      <3>1. NewestNamed'
        BY <2>3, <3>k DEF PostCount, history, Names, Objects,
             NewestNamed
      <3>2. OpenedMade'
        BY <2>3, <3>k DEF PostCount, history, Names, Objects,
             NewestNamed, OpenedMade
      <3>3. CountsArrivals'
        <4> DEFINE c == mine[p]["count"]
        <4>1. /\ pc[p] = "post" /\ c \in Objects /\ p \notin arrived[c]
          BY <2>3, <3>k DEF PostCount, OpenedMade, ArrivesOnce, Names, Objects
        <4>2. /\ arrived' = [arrived EXCEPT ![c] = @ \cup {p}]
              /\ count' = [count EXCEPT ![c] = @ + 1]
              /\ pc' = [pc EXCEPT ![p] = "get"]
              /\ made' = made /\ block' = block /\ mine' = mine
              /\ named' = named
          BY <2>3 DEF PostCount
        <4>3. Cardinality(arrived[c] \cup {p}) = Cardinality(arrived[c]) + 1
          BY <4>1, AllArrived
        <4>4. c <= made["count"]
          BY <3>k DEF OpenedMade, Names
        <4> HIDE DEF c
        <4> QED BY <3>k, <4>1, <4>2, <4>3, <4>4 DEF CountsArrivals, Objects, Names
      <3>4. ArrivesOnce'
        BY <2>3, <3>k DEF PostCount, history, Names, Objects,
             ArrivesOnce, Counted, OpenedMade, CountsArrivals, LeftUnnamed, Left
      <3>5. LeftUnnamed'
        BY <2>3, <3>k DEF PostCount, history, Names, Objects,
             LeftUnnamed, Left, NewestNamed, OpenedMade, CountsArrivals
      <3>6. LeftApart'
        BY <2>3, <3>k DEF PostCount, history, Names, Objects,
             LeftApart, LeftUnnamed, Left, NewestNamed, OpenedMade, CountsArrivals
      <3>7. FullCount'
        BY <2>3, <3>k DEF PostCount, history, Names, Objects,
             FullCount, FullBlock, OpenedMade, CountsArrivals
      <3>8. FullBlock'
        <4> DEFINE c == mine[p]["count"]
        <4>1. /\ pc[p] = "post" /\ c \in Objects /\ p \notin arrived[c]
          BY <2>3, <3>k DEF PostCount, OpenedMade, ArrivesOnce, Names, Objects
        <4>2. /\ arrived' = [arrived EXCEPT ![c] = @ \cup {p}]
              /\ count' = [count EXCEPT ![c] = @ + 1]
              /\ pc' = [pc EXCEPT ![p] = "get"]
              /\ made' = made /\ block' = block /\ mine' = mine
              /\ named' = named
          BY <2>3 DEF PostCount
        <4>3. \A x \in Objects : arrived[x] = Procs => arrived'[x] = Procs
          BY <4>1, <4>2
        <4>4. \A q \in Procs : /\ mine[q]["count"] # 0 => mine[q]["count"] \in Objects
                               /\ pc'[q] = "out" => pc[q] = "out"
          BY <4>1, <4>2 DEF Objects, Names
        <4> QED BY <3>k, <4>2, <4>3, <4>4 DEF FullBlock
      <3> QED BY <3>1, <3>2, <3>3, <3>4, <3>5, <3>6, <3>7, <3>8 DEF Rounds
    <2>4. CASE GetValue(p)
      <3>k. NewestNamed /\ OpenedMade /\ CountsArrivals /\ ArrivesOnce
              /\ LeftUnnamed /\ LeftApart /\ FullCount /\ FullBlock
        BY <2>4 DEF IInv, Rounds, GetValue, history
      <3>1. NewestNamed'
        BY <2>4, <3>k DEF GetValue, history, Names, Objects,
             NewestNamed
      <3>2. OpenedMade'
        BY <2>4, <3>k DEF GetValue, history, Names, Objects,
             NewestNamed, OpenedMade
      <3>3. CountsArrivals'
        BY <2>4, <3>k DEF GetValue, history, Names, Objects,
             CountsArrivals, OpenedMade, ArrivesOnce
      <3>4. ArrivesOnce'
        BY <2>4, <3>k DEF GetValue, history, Names, Objects,
             ArrivesOnce, Counted, OpenedMade, CountsArrivals, LeftUnnamed, Left
      <3>5. LeftUnnamed'
        BY <2>4, <3>k DEF GetValue, history, Names, Objects,
             LeftUnnamed, Left, NewestNamed, OpenedMade, CountsArrivals
      <3>6. LeftApart'
        <4>1. /\ pc[p] = "get" /\ pc'[p] \in {"release", "wait"}
              /\ \A q \in Procs \ {p} : pc'[q] = pc[q]
              /\ named' = named /\ mine' = mine /\ arrived' = arrived
          BY <2>4 DEF GetValue
        <4> QED BY <3>k, <4>1 DEF LeftApart, Left
      <3>7. FullCount'
        <4>1. mine[p]["count"] \in Objects
          BY <2>4, <3>k DEF GetValue, OpenedMade, Names, Objects
        <4>2. count[mine[p]["count"]] >= N => arrived[mine[p]["count"]] = Procs
          BY <3>k, <4>1, AllArrived DEF CountsArrivals
        <4>3. /\ pc[p] = "get" /\ pc'[p] \in {"release", "wait"}
              /\ pc'[p] = "release" => count[mine[p]["count"]] >= N
              /\ \A q \in Procs \ {p} : pc'[q] = pc[q]
              /\ ok' = ok /\ mine' = mine /\ arrived' = arrived
          BY <2>4 DEF GetValue
        <4> QED BY <3>k, <4>2, <4>3 DEF FullCount
      <3>8. FullBlock'
        BY <2>4, <3>k DEF GetValue, history, Names, Objects,
             FullBlock, FullCount, NewestNamed, OpenedMade, CountsArrivals, LeftApart, Left
      <3> QED BY <3>1, <3>2, <3>3, <3>4, <3>5, <3>6, <3>7, <3>8 DEF Rounds
    <2>5. CASE PostBlock(p)
      <3>k. NewestNamed /\ OpenedMade /\ CountsArrivals /\ ArrivesOnce
              /\ LeftUnnamed /\ LeftApart /\ FullCount /\ FullBlock
        BY <2>5 DEF IInv, Rounds, PostBlock, history
      <3>1. NewestNamed'
        BY <2>5, <3>k DEF PostBlock, history, Names, Objects,
             NewestNamed
      <3>2. OpenedMade'
        BY <2>5, <3>k DEF PostBlock, history, Names, Objects,
             NewestNamed, OpenedMade
      <3>3. CountsArrivals'
        BY <2>5, <3>k DEF PostBlock, history, Names, Objects,
             CountsArrivals, OpenedMade, ArrivesOnce
      <3>4. ArrivesOnce'
        BY <2>5, <3>k DEF PostBlock, history, Names, Objects,
             ArrivesOnce, Counted, OpenedMade, CountsArrivals, LeftUnnamed, Left
      <3>5. LeftUnnamed'
        BY <2>5, <3>k DEF PostBlock, history, Names, Objects,
             LeftUnnamed, Left, NewestNamed, OpenedMade, CountsArrivals
      <3>6. LeftApart'
        BY <2>5, <3>k DEF PostBlock, history, Names, Objects,
             LeftApart, LeftUnnamed, Left, NewestNamed, OpenedMade, CountsArrivals
      <3>7. FullCount'
        BY <2>5, <3>k DEF PostBlock, history, Names, Objects,
             FullCount, FullBlock, OpenedMade, CountsArrivals
      <3>8. FullBlock'
        <4> DEFINE b == mine[p]["block"]
                   c == mine[p]["count"]
        <4>1. /\ pc[p] = "release" /\ block' = [block EXCEPT ![b] = @ + 1]
              /\ pc' = pc /\ mine' = mine /\ named' = named
              /\ arrived' = arrived
          BY <2>5 DEF PostBlock
        <4>2. b \in Objects /\ c \in Objects
          BY <3>k, <4>1 DEF OpenedMade, Names, Objects
        <4>3. arrived[c] = Procs
          BY <3>k, <4>1 DEF FullCount
        <4>4. \A q \in Procs : mine[q]["block"] = b => mine[q]["count"] = c
          BY <3>k, <4>2, <4>3 DEF LeftApart, Left
        <4>5. \A q \in Procs : named["block"] = b => pc[q] # "out"
          <5> SUFFICES ASSUME NEW q \in Procs, pc[q] = "out"
                       PROVE named["block"] # b
            OBVIOUS
          <5>1. Left(q, c)
            BY <3>k, <4>2, <4>3 DEF OpenedMade, Left, Objects
          <5> QED BY <3>k, <4>2, <5>1 DEF LeftApart
        <4>6. c # 0
          BY <4>2 DEF Objects
        <4> HIDE DEF b, c
        <4>7. \A x \in Objects \ {b} : block'[x] = block[x]
          BY <4>1
        <4> QED BY <3>k, <4>1, <4>3, <4>4, <4>5, <4>6, <4>7 DEF FullBlock, b, c
      <3> QED BY <3>1, <3>2, <3>3, <3>4, <3>5, <3>6, <3>7, <3>8 DEF Rounds
    <2>6. CASE Released(p)
      <3>k. NewestNamed /\ OpenedMade /\ CountsArrivals /\ ArrivesOnce
              /\ LeftUnnamed /\ LeftApart /\ FullCount /\ FullBlock
        BY <2>6 DEF IInv, Rounds, Released, Succeed, history
      <3>1. NewestNamed'
        BY <2>6, <3>k DEF Released, Succeed, history, Names, Objects,
             NewestNamed
      <3>2. OpenedMade'
        BY <2>6, <3>k DEF Released, Succeed, history, Names, Objects,
             NewestNamed, OpenedMade
      <3>3. CountsArrivals'
        BY <2>6, <3>k DEF Released, Succeed, history, Names, Objects,
             CountsArrivals, OpenedMade, ArrivesOnce
      <3>4. ArrivesOnce'
        BY <2>6, <3>k DEF Released, Succeed, history, Names, Objects,
             ArrivesOnce, Counted, OpenedMade, CountsArrivals, LeftUnnamed, Left
      <3>5. LeftUnnamed'
        BY <2>6, <3>k DEF Released, Succeed, history, Names, Objects,
             LeftUnnamed, Left, NewestNamed, OpenedMade, CountsArrivals
      <3>6. LeftApart'
        BY <2>6, <3>k DEF Released, Succeed, history, Names, Objects,
             LeftApart, LeftUnnamed, Left, NewestNamed, OpenedMade, CountsArrivals
      <3>7. FullCount'
        BY <2>6, <3>k DEF Released, Succeed, history, Names, Objects,
             FullCount, FullBlock, OpenedMade, CountsArrivals
      <3>8. FullBlock'
        BY <2>6, <3>k DEF Released, Succeed, history, Names, Objects,
             FullBlock, FullCount, NewestNamed, OpenedMade, CountsArrivals, LeftApart, Left
      <3> QED BY <3>1, <3>2, <3>3, <3>4, <3>5, <3>6, <3>7, <3>8 DEF Rounds
    <2>7. CASE Woken(p)
      <3>k. NewestNamed /\ OpenedMade /\ CountsArrivals /\ ArrivesOnce
              /\ LeftUnnamed /\ LeftApart /\ FullCount /\ FullBlock
        BY <2>7 DEF IInv, Rounds, Woken, Succeed, history
      <3>1. NewestNamed'
        BY <2>7, <3>k DEF Woken, Succeed, history, Names, Objects,
             NewestNamed
      <3>2. OpenedMade'
        BY <2>7, <3>k DEF Woken, Succeed, history, Names, Objects,
             NewestNamed, OpenedMade
      <3>3. CountsArrivals'
        BY <2>7, <3>k DEF Woken, Succeed, history, Names, Objects,
             CountsArrivals, OpenedMade, ArrivesOnce
      <3>4. ArrivesOnce'
        BY <2>7, <3>k DEF Woken, Succeed, history, Names, Objects,
             ArrivesOnce, Counted, OpenedMade, CountsArrivals, LeftUnnamed, Left
      <3>5. LeftUnnamed'
        BY <2>7, <3>k DEF Woken, Succeed, history, Names, Objects,
             LeftUnnamed, Left, NewestNamed, OpenedMade, CountsArrivals
      <3>6. LeftApart'
        BY <2>7, <3>k DEF Woken, Succeed, history, Names, Objects,
             LeftApart, LeftUnnamed, Left, NewestNamed, OpenedMade, CountsArrivals
      <3>7. FullCount'
        BY <2>7, <3>k DEF Woken, Succeed, history, Names, Objects,
             FullCount, FullBlock, OpenedMade, CountsArrivals
      <3>8. FullBlock'
        <4>1. /\ \A b \in Objects : block'[b] > 0 => block[b] > 0
              /\ mine' = mine /\ named' = named /\ arrived' = arrived
              /\ \A q \in Procs : pc'[q] = "out" => pc[q] = "out"
          BY <2>7 DEF Woken, Succeed
        <4> QED BY <3>k, <4>1 DEF FullBlock
      <3> QED BY <3>1, <3>2, <3>3, <3>4, <3>5, <3>6, <3>7, <3>8 DEF Rounds
    <2>8. CASE UnlinkCount(p)
      <3>k. NewestNamed /\ OpenedMade /\ CountsArrivals /\ ArrivesOnce
              /\ LeftUnnamed /\ LeftApart /\ FullCount /\ FullBlock
        BY <2>8 DEF IInv, Rounds, UnlinkCount, history
      <3>1. NewestNamed'
        BY <2>8, <3>k DEF UnlinkCount, history, Names, Objects,
             NewestNamed
      <3>2. OpenedMade'
        BY <2>8, <3>k DEF UnlinkCount, history, Names, Objects,
             NewestNamed, OpenedMade
      <3>3. CountsArrivals'
        BY <2>8, <3>k DEF UnlinkCount, history, Names, Objects,
             CountsArrivals, OpenedMade, ArrivesOnce
      <3>4. ArrivesOnce'
        BY <2>8, <3>k DEF UnlinkCount, history, Names, Objects,
             ArrivesOnce, Counted, OpenedMade, CountsArrivals, LeftUnnamed, Left
      <3>5. LeftUnnamed'
        BY <2>8, <3>k DEF UnlinkCount, history, Names, Objects,
             LeftUnnamed, Left, NewestNamed, OpenedMade, CountsArrivals
      <3>6. LeftApart'
        BY <2>8, <3>k DEF UnlinkCount, history, Names, Objects,
             LeftApart, LeftUnnamed, Left, NewestNamed, OpenedMade, CountsArrivals
      <3>7. FullCount'
        BY <2>8, <3>k DEF UnlinkCount, history, Names, Objects,
             FullCount, FullBlock, OpenedMade, CountsArrivals
      <3>8. FullBlock'
        BY <2>8, <3>k DEF UnlinkCount, history, Names, Objects,
             FullBlock, FullCount, NewestNamed, OpenedMade, CountsArrivals, LeftApart, Left
      <3> QED BY <3>1, <3>2, <3>3, <3>4, <3>5, <3>6, <3>7, <3>8 DEF Rounds
    <2>9. CASE UnlinkBlock(p)
      <3>k. NewestNamed /\ OpenedMade /\ CountsArrivals /\ ArrivesOnce
              /\ LeftUnnamed /\ LeftApart /\ FullCount /\ FullBlock
        BY <2>9 DEF IInv, Rounds, UnlinkBlock, Ended, Nothing, history
      <3>1. NewestNamed'
        BY <2>9, <3>k DEF UnlinkBlock, Ended, Nothing, history, Names, Objects,
             NewestNamed
      <3>2. OpenedMade'
        BY <2>9, <3>k DEF UnlinkBlock, Ended, Nothing, history, Names, Objects,
             NewestNamed, OpenedMade
      <3>3. CountsArrivals'
        BY <2>9, <3>k DEF UnlinkBlock, Ended, Nothing, history, Names, Objects,
             CountsArrivals, OpenedMade, ArrivesOnce
      <3>4. ArrivesOnce'
        BY <2>9, <3>k DEF UnlinkBlock, Ended, Nothing, history, Names, Objects,
             ArrivesOnce, Counted, OpenedMade, CountsArrivals, LeftUnnamed, Left
      <3>5. LeftUnnamed'
        BY <2>9, <3>k DEF UnlinkBlock, Ended, Nothing, history, Names, Objects,
             LeftUnnamed, Left, NewestNamed, OpenedMade, CountsArrivals
      <3>6. LeftApart'
        BY <2>9, <3>k DEF UnlinkBlock, Ended, Nothing, history, Names, Objects,
             LeftApart, LeftUnnamed, Left, NewestNamed, OpenedMade, CountsArrivals
      <3>7. FullCount'
        BY <2>9, <3>k DEF UnlinkBlock, Ended, Nothing, history, Names, Objects,
             FullCount, FullBlock, OpenedMade, CountsArrivals
      <3>8. FullBlock'
        BY <2>9, <3>k DEF UnlinkBlock, Ended, Nothing, history, Names, Objects,
             FullBlock, FullCount, NewestNamed, OpenedMade, CountsArrivals, LeftApart, Left
      <3> QED BY <3>1, <3>2, <3>3, <3>4, <3>5, <3>6, <3>7, <3>8 DEF Rounds
    <2>10. CASE OpenFails(p)
      <3>k. NewestNamed /\ OpenedMade /\ CountsArrivals /\ ArrivesOnce
              /\ LeftUnnamed /\ LeftApart /\ FullCount /\ FullBlock
        BY <2>10 DEF IInv, Rounds, OpenFails, Fail
      <3>1. NewestNamed'
        BY <2>10, <3>k DEF OpenFails, Fail, Names, Objects,
             NewestNamed
      <3>2. OpenedMade'
        BY <2>10, <3>k DEF OpenFails, Fail, Names, Objects,
             NewestNamed, OpenedMade
      <3>3. CountsArrivals'
        BY <2>10, <3>k DEF OpenFails, Fail, Names, Objects,
             CountsArrivals, OpenedMade, ArrivesOnce
      <3>4. ArrivesOnce'
        BY <2>10, <3>k DEF OpenFails, Fail, Names, Objects,
             ArrivesOnce, Counted, OpenedMade, CountsArrivals, LeftUnnamed, Left
      <3>5. LeftUnnamed'
        BY <2>10, <3>k DEF OpenFails, Fail, Names, Objects,
             LeftUnnamed, Left, NewestNamed, OpenedMade, CountsArrivals
      <3>6. LeftApart'
        BY <2>10, <3>k DEF OpenFails, Fail, Names, Objects,
             LeftApart, LeftUnnamed, Left, NewestNamed, OpenedMade, CountsArrivals
      <3>7. FullCount'
        BY <2>10, <3>k DEF OpenFails, Fail, Names, Objects,
             FullCount, FullBlock, OpenedMade, CountsArrivals
      <3>8. FullBlock'
        BY <2>10, <3>k DEF OpenFails, Fail, Names, Objects,
             FullBlock, FullCount, NewestNamed, OpenedMade, CountsArrivals, LeftApart, Left
      <3> QED BY <3>1, <3>2, <3>3, <3>4, <3>5, <3>6, <3>7, <3>8 DEF Rounds
    <2>11. CASE TimeOut(p)
      <3>k. NewestNamed /\ OpenedMade /\ CountsArrivals /\ ArrivesOnce
              /\ LeftUnnamed /\ LeftApart /\ FullCount /\ FullBlock
        BY <2>11 DEF IInv, Rounds, TimeOut, Fail
      <3>1. NewestNamed'
        BY <2>11, <3>k DEF TimeOut, Fail, Names, Objects,
             NewestNamed
      <3>2. OpenedMade'
        BY <2>11, <3>k DEF TimeOut, Fail, Names, Objects,
             NewestNamed, OpenedMade
      <3>3. CountsArrivals'
        BY <2>11, <3>k DEF TimeOut, Fail, Names, Objects,
             CountsArrivals, OpenedMade, ArrivesOnce
      <3>4. ArrivesOnce'
        BY <2>11, <3>k DEF TimeOut, Fail, Names, Objects,
             ArrivesOnce, Counted, OpenedMade, CountsArrivals, LeftUnnamed, Left
      <3>5. LeftUnnamed'
        BY <2>11, <3>k DEF TimeOut, Fail, Names, Objects,
             LeftUnnamed, Left, NewestNamed, OpenedMade, CountsArrivals
      <3>6. LeftApart'
        BY <2>11, <3>k DEF TimeOut, Fail, Names, Objects,
             LeftApart, LeftUnnamed, Left, NewestNamed, OpenedMade, CountsArrivals
      <3>7. FullCount'
        BY <2>11, <3>k DEF TimeOut, Fail, Names, Objects,
             FullCount, FullBlock, OpenedMade, CountsArrivals
      <3>8. FullBlock'
        BY <2>11, <3>k DEF TimeOut, Fail, Names, Objects,
             FullBlock, FullCount, NewestNamed, OpenedMade, CountsArrivals, LeftApart, Left
      <3> QED BY <3>1, <3>2, <3>3, <3>4, <3>5, <3>6, <3>7, <3>8 DEF Rounds
    <2>12. CASE Kill(p)
      BY <2>12 DEF Kill
    <2> QED BY <1>p, <2>1, <2>2, <2>3, <2>4, <2>5, <2>6,
               <2>7, <2>8, <2>9, <2>10, <2>11, <2>12 DEF Run, Mishap
  <1> QED BY <1>k, <1>p DEF Next

LEMMA Inductive == Spec => []IInv
  <1>1. Init => IInv
    BY TypeInit, RoundsInit DEF IInv
  <1>2. IInv /\ [Next]_vars => IInv'
    BY TypeNext, RoundsNext DEF IInv
  <1> QED BY <1>1, <1>2, PTL DEF Spec

\* Type correctness, for any number of scripts, calls and mishaps.
THEOREM TypeCorrect == Spec => []TypeOK
  BY Inductive, PTL DEF IInv

\* As long as no run is killed, whoever returns 0 from sync_wait returns after
\* all N scripts have arrived on the semaphore he counted himself on, however
\* many scripts there are, however often they meet and whatever fails.
THEOREM Barrier == Spec => []NobodyAhead
  <1>1. IInv => NobodyAhead
    BY DEF IInv, TypeOK, Rounds, FullCount, NobodyAhead, Passed
  <1> QED BY Inductive, <1>1, PTL
=============================================================================
