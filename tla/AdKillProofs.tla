---------------------------- MODULE AdKillProofs ----------------------------
(***************************************************************************)
(* adkill for any CPUs, writers, packets and rules: the mutex is with whom *)
(* it should be, the rules a CPU works with are there until it is done,    *)
(* a line of the proc file is a rule in force or one known not to be, and  *)
(* a packet whose buffers nobody else has touched is treated as the newest *)
(* line for its host says.                                                 *)
(***************************************************************************)
EXTENDS AdKill, NaturalSets, TLAPS

\* What is kept by actor.
Typed == DOMAIN pc = Actors /\ DOMAIN node = Actors

\* Packets are judged while the hook is registered only.
HookLoaded == \A p \in Cpus : pc[p] # "idle" => module = "loaded"

-----------------------------------------------------------------------------
(* The steps of a CPU.                                                      *)

\* What a step of actor a does to the mutex: nothing, taking it or giving it
\* back, as the places before and after say.
Passes(a) ==
    \/ mutex' = mutex /\ (pc[a] \in Holding <=> pc'[a] \in Holding)
    \/ /\ mutex = None /\ mutex' = a /\ pc'[a] \in Holding
    \/ /\ pc[a] \in Holding /\ mutex' = None /\ pc'[a] \notin Holding

\* An actor leaves the others where they are.
OnlyFor(a) ==
    /\ \A b \in Actors \ {a} : pc'[b] = pc[b] /\ node'[b] = node[b]
    /\ DOMAIN pc' = Actors /\ DOMAIN node' = Actors

\* A step of a CPU changes no rule and no text and moves the mutex as it moves
\* itself.
LEMMA CpuSteps ==
  ASSUME Typed, NEW p \in Cpus, Receive(p) \/ Hook(p)
  PROVE  /\ UNCHANGED <<module, table, added, write>>
         /\ OnlyFor(p) /\ Passes(p)
         /\ pc[p] = "idle" => module = "loaded"
<1> USE DEF Typed, Actors, Go
<1> DEFINE Goal == /\ UNCHANGED <<module, table, added, write>>
                   /\ OnlyFor(p) /\ Passes(p)
                   /\ pc[p] = "idle" => module = "loaded"
<1>1. CASE Receive(p)
  BY <1>1 DEF Receive, OnlyFor, Passes, Holding
<1>2. CASE CopyHost(p) \/ CopyUrl(p) \/ CopyReferer(p)
  BY <1>2 DEF CopyHost, CopyUrl, CopyReferer, Copy, OnlyFor, Passes, Holding
<1>3. CASE RegroupHost(p)
  BY <1>3 DEF RegroupHost, OnlyFor, Passes, Holding
<1>4. CASE LockTable(p)
  BY <1>4 DEF LockTable, Lock, hook, OnlyFor, Passes, Holding
<1>5. CASE FindHost(p)
  BY <1>5 DEF FindHost, OnlyFor, Passes, Holding
<1>6. CASE FindUrl(p)
  BY <1>6 DEF FindUrl, OnlyFor, Passes, Holding
<1>7. CASE UnlockAccept(p)
  BY <1>7 DEF UnlockAccept, Unlock, hook, OnlyFor, Passes, Holding
<1>8. CASE Locate(p)
  BY <1>8 DEF Locate, OnlyFor, Passes, Holding
<1>9. CASE UnlockTable(p)
  BY <1>9 DEF UnlockTable, Unlock, hook, OnlyFor, Passes, Holding
<1>10. CASE AskException(p)
  BY <1>10 DEF AskException, OnlyFor, Passes, Holding
<1>11. CASE Modify(p)
  BY <1>11 DEF Modify, OnlyFor, Passes, Holding
<1>12. CASE Send(p)
  BY <1>12 DEF Send, OnlyFor, Passes, Holding
<1>13. CASE SendFails(p)
  BY <1>13 DEF SendFails, OnlyFor, Passes, Holding
<1>14. CASE Overrun(p) \/ NoAnswer(p)
  BY <1>14 DEF Overrun, NoAnswer, Oops, hook, OnlyFor, Passes, Holding
<1>15. CASE Return(p)
  BY <1>15 DEF Return, OnlyFor, Passes, Holding
<1> QED
  BY <1>1, <1>2, <1>3, <1>4, <1>5, <1>6, <1>7, <1>8, <1>9, <1>10, <1>11, <1>12,
     <1>13, <1>14, <1>15 DEF Hook

-----------------------------------------------------------------------------
(* The mutex.                                                               *)

\* A step of a writer moves the mutex as it moves itself.
LEMMA WriterSteps ==
  ASSUME Typed, NEW w \in Writers, BeginWrite(w) \/ Write(w)
  PROVE  /\ UNCHANGED module
         /\ OnlyFor(w) /\ Passes(w)
<1> USE DEF Typed, Actors, Go, OnlyFor, Passes, Holding
<1>1. CASE BeginWrite(w)
  BY <1>1 DEF BeginWrite, hook
<1>2. CASE CopyLines(w) \/ CopyFails(w)
  BY <1>2 DEF CopyLines, CopyFails, Finish, hook
<1>3. CASE ParseFails(w)
  BY <1>3 DEF ParseFails, hook
<1>4. CASE ParseLine(w)
  BY <1>4 DEF ParseLine
<1>5. CASE LockToAdd(w)
  BY <1>5 DEF LockToAdd, Lock, hook
<1>6. CASE AddRule(w)
  BY <1>6 DEF AddRule, Unlock
<1>7. CASE Advance(w)
  BY <1>7 DEF Advance, Finish, hook
<1> QED  BY <1>1, <1>2, <1>3, <1>4, <1>5, <1>6, <1>7 DEF Write

\* Loading and unloading wait for the others and touch nothing of them.
LEMMA ModuleSteps ==
  ASSUME Module
  PROVE  /\ UNCHANGED <<mutex, pc, node, script, unused, further, clash>>
         /\ \/ UNCHANGED <<table, added, text, index>>
            \/ /\ module = "unhooked" /\ \A w \in Writers : pc[w] = "idle"
               /\ table' = NoRules /\ added' = <<>> /\ index' = 0
               /\ text' = NoText
         /\ \/ module \in {"out", "proc"}
            \/ module' # "loaded" /\ module # "loaded"
            \/ \A p \in Cpus : pc[p] = "idle"
  BY DEF Module, CreateProc, Load, Unregister, Unload, FreeRules, hook, write

\* Whoever moves the mutex with itself leaves it where it belongs.
LEMMA PassesKeeps ==
  ASSUME Typed, MutexHeld, NEW a \in Actors, OnlyFor(a), Passes(a)
  PROVE  Typed' /\ MutexHeld'
<1>1. None \notin Actors
  BY RulesAssumption DEF Actors
<1>2. Typed'
  BY DEF OnlyFor, Typed
<1>3. mutex' \in Actors \cup {None}
  BY DEF MutexHeld, Passes
<1>4. ASSUME NEW b \in Actors PROVE mutex' = b <=> pc'[b] \in Holding
  <2>1. CASE b = a
    BY <1>1, <2>1 DEF MutexHeld, Passes
  <2>2. CASE b # a
    <3>1. pc'[b] = pc[b]
      BY <2>2 DEF OnlyFor
    <3>2. mutex = b <=> pc[b] \in Holding
      BY DEF MutexHeld
    <3>3. pc[a] \in Holding <=> mutex = a
      BY DEF MutexHeld
    <3> QED  BY <1>1, <2>2, <3>1, <3>2, <3>3 DEF Passes
  <2> QED  BY <2>1, <2>2
<1> QED  BY <1>2, <1>3, <1>4 DEF MutexHeld

LInv == Typed /\ MutexHeld /\ HookLoaded

\* Every step keeps the mutex with whom it belongs.
LEMMA LNext == LInv /\ [Next]_vars => LInv'
<1> SUFFICES ASSUME LInv, [Next]_vars PROVE LInv'
  OBVIOUS
<1>1. ASSUME NEW p \in Cpus, Receive(p) \/ Hook(p) PROVE LInv'
  <2>1. /\ module' = module /\ OnlyFor(p) /\ Passes(p)
        /\ pc[p] = "idle" => module = "loaded"
    BY <1>1, CpuSteps DEF LInv
  <2>2. Typed' /\ MutexHeld'
    BY <2>1, PassesKeeps DEF LInv, Actors
  <2>3. HookLoaded'
    BY <2>1 DEF LInv, HookLoaded, OnlyFor, Actors
  <2> QED  BY <2>2, <2>3 DEF LInv
<1>2. ASSUME NEW w \in Writers, BeginWrite(w) \/ Write(w) PROVE LInv'
  <2>1. /\ module' = module /\ OnlyFor(w) /\ Passes(w)
    BY <1>2, WriterSteps DEF LInv
  <2>2. Typed' /\ MutexHeld'
    BY <2>1, PassesKeeps DEF LInv, Actors
  <2>3. \A p \in Cpus : pc'[p] = pc[p]
    BY <2>1, RulesAssumption DEF OnlyFor, Actors
  <2> QED  BY <2>1, <2>2, <2>3 DEF LInv, HookLoaded
<1>3. CASE Module
  <2>1. UNCHANGED <<mutex, pc, node>>
    BY <1>3, ModuleSteps
  <2>2. HookLoaded'
    BY <1>3, <2>1 DEF LInv, HookLoaded, Module, CreateProc, Load, Unregister,
       Unload
  <2> QED  BY <2>1, <2>2 DEF LInv, Typed, MutexHeld
<1>4. CASE UNCHANGED vars
  BY <1>4 DEF vars, hook, LInv, Typed, MutexHeld, HookLoaded
<1> QED  BY <1>1, <1>2, <1>3, <1>4 DEF Next

LEMMA LInit == Init => LInv
<1> SUFFICES ASSUME Init PROVE LInv
  OBVIOUS
<1>1. Typed
  BY DEF Init, Typed
<1>2. None \notin Actors
  BY RulesAssumption DEF Actors
<1>3. \A a \in Actors : pc[a] \notin Holding
  BY DEF Init, Holding
<1> QED  BY <1>1, <1>2, <1>3 DEF Init, LInv, MutexHeld, HookLoaded, Actors

\* Packets find only a hook that is loaded, and the mutex where it should be.
LEMMA LAlways == Spec => []LInv
<1> QED  BY LInit, LNext, PTL DEF Spec

\* The mutex is with the one actor that searches the table or adds to it, and
\* every way out of the hook and of the write call has given it back.
THEOREM LockInvariance == Spec => []MutexHeld
<1>1. LInv => MutexHeld
  BY DEF LInv
<1> QED  BY <1>1, LAlways, PTL

\* At most one actor works with the table of rules.
THEOREM OneAtATime ==
  Spec => [](\A a, b \in Actors :
               pc[a] \in Holding /\ pc[b] \in Holding => a = b)
<1>1. LInv => \A a, b \in Actors :
                 pc[a] \in Holding /\ pc[b] \in Holding => a = b
  BY DEF LInv, MutexHeld
<1> QED  BY <1>1, LAlways, PTL

\* The table stays as it is while a CPU searches it.
SearchUndisturbed ==
    \A p \in Cpus : pc[p] \in Holding => table' = table /\ added' = added

\* Nobody adds a rule or clears the table during the search of a CPU.
THEOREM NobodyAddsMeanwhile == Spec => [][SearchUndisturbed]_vars
<1>1. LInv /\ [Next]_vars => [SearchUndisturbed]_vars
  <2> SUFFICES ASSUME LInv, Next, NEW p \in Cpus, pc[p] \in Holding
               PROVE  table' = table /\ added' = added
    BY DEF SearchUndisturbed
  <2>1. module = "loaded" /\ mutex = p
    BY DEF LInv, HookLoaded, MutexHeld, Actors, Holding
  <2>2. ASSUME NEW q \in Cpus, Receive(q) \/ Hook(q)
        PROVE  table' = table /\ added' = added
    BY <2>2, CpuSteps DEF LInv
  <2>3. ASSUME NEW w \in Writers, BeginWrite(w) \/ Write(w)
        PROVE  table' = table /\ added' = added
    <3>1. pc[w] # "link"
      <4>1. mutex # w
        BY <2>1, RulesAssumption
      <4> QED  BY <4>1 DEF LInv, MutexHeld, Actors, Holding
    <3>2. ~AddRule(w)
      BY <3>1 DEF AddRule
    <3> QED
      BY <2>3, <3>2 DEF Write, BeginWrite, CopyLines, CopyFails, ParseFails,
         ParseLine, LockToAdd, Advance, hook
  <2>4. CASE Module
    BY <2>1, <2>4, ModuleSteps
  <2> QED  BY <2>2, <2>3, <2>4 DEF Next
<1> QED  BY <1>1, LAlways, PTL DEF Spec

-----------------------------------------------------------------------------
(* The rules a CPU works with.                                              *)

\* What is found is an element, and nothing else is found.
LEMMA FoundByHost ==
  ASSUME Typed, NEW host, NEW referer, NEW b \in Buckets,
         host \in Hosts => b = Hash[host],
         NEW S, table[b] \in Seq(S),
         FindByHost(table, host, referer) # <<>>
  PROVE  \E i \in DOMAIN table[b] :
            FindByHost(table, host, referer) = <<table[b][i]>>
<1> DEFINE found == {i \in DOMAIN table[b] :
                        HostMatches(table[b][i], host, referer)}
<1>1. host \in Hosts
  BY DEF FindByHost
<1>2. FindByHost(table, host, referer) =
        IF found = {} THEN <<>> ELSE <<table[b][Min(found)]>>
  BY <1>1 DEF FindByHost, FirstOf
<1>3. found # {} /\ found \subseteq Nat
  BY <1>2
<1>4. Min(found) \in found
  <2> HIDE DEF found
  <2> QED  BY <1>3, Smallest DEF Min
<1> QED  BY <1>2, <1>3, <1>4

\* A pair is found or not.
LEMMA FoundByUrl ==
  ASSUME NEW rule, NEW url
  PROVE  \/ FindByUrl(rule, url) = <<>>
         \/ \E pair : FindByUrl(rule, url) = <<pair>>
  BY DEF FindByUrl, FirstOf

\* The buckets hold sequences of rules.
Chained ==
    /\ DOMAIN table = Buckets
    /\ \A b \in Buckets : \E S : table[b] \in Seq(S)

\* A rule of the table, or one with its pair.
Found(n) == \E b \in Buckets : \E i \in DOMAIN table[b] : n = <<table[b][i]>>
FoundPair(n) ==
    \E b \in Buckets : \E i \in DOMAIN table[b] : \E pair :
        n = <<table[b][i]>> \o <<pair>>

\* What a CPU has found, alone or with a pair, is in the table.
Kept ==
    \A p \in Cpus : node[p] # <<>> => Found(node[p]) \/ FoundPair(node[p])

UInv ==
    /\ LInv /\ Chained /\ Kept
    /\ \A p \in Cpus : /\ pc[p] = "idle" => node[p] = <<>>
                       /\ pc[p] = "map" => Found(node[p])

\* A rule that is added leaves the others in their buckets.
LEMMA AddKeeps ==
  ASSUME Chained, NEW rule, table' = Add(table, rule)
  PROVE  /\ Chained'
         /\ \A n : Found(n) => Found(n)'
         /\ \A n : FoundPair(n) => FoundPair(n)'
<1>1. DOMAIN table' = Buckets
  BY DEF Add, Chained
<1>2. ASSUME NEW b \in Buckets
      PROVE  table'[b] = table[b] \/ table'[b] = <<rule>> \o table[b]
  BY DEF Add, Chained
<1>3. ASSUME NEW b \in Buckets
      PROVE  /\ \E S : table'[b] \in Seq(S)
             /\ \A i \in DOMAIN table[b] : \E j \in DOMAIN table'[b] :
                   table'[b][j] = table[b][i]
  <2> DEFINE s == table[b]   t == <<rule>> \o table[b]
  <2>1. PICK S : s \in Seq(S)
    BY DEF Chained
  <2> DEFINE T == S \cup {rule}
  <2>2. s \in Seq(T) /\ rule \in T
    BY <2>1
  <2> HIDE DEF T
  <2>3. /\ t \in Seq(T)
        /\ \A i \in DOMAIN s : i + 1 \in DOMAIN t /\ t[i + 1] = s[i]
    BY <2>2
  <2>4. table'[b] = s \/ table'[b] = t
    BY <1>2
  <2> HIDE DEF s, t
  <2>5. \E U : table'[b] \in Seq(U)
    BY <2>2, <2>3, <2>4
  <2>6. ASSUME NEW i \in DOMAIN s
        PROVE  \E j \in DOMAIN table'[b] : table'[b][j] = s[i]
    BY <2>3, <2>4, <2>6
  <2> QED  BY <2>5, <2>6 DEF s
<1>4. Chained'
  BY <1>1, <1>3 DEF Chained
<1>5. ASSUME NEW n, Found(n) PROVE Found(n)'
  <2>1. PICK b \in Buckets : \E i \in DOMAIN table[b] : n = <<table[b][i]>>
    BY <1>5 DEF Found
  <2>2. \E i \in DOMAIN table'[b] : n = <<table'[b][i]>>
    BY <1>3, <2>1
  <2> QED  BY <2>2 DEF Found
<1>6. ASSUME NEW n, FoundPair(n) PROVE FoundPair(n)'
  <2>1. PICK b \in Buckets :
          \E i \in DOMAIN table[b] : \E pair : n = <<table[b][i]>> \o <<pair>>
    BY <1>6 DEF FoundPair
  <2>6. PICK i \in DOMAIN table[b] : \E pair : n = <<table[b][i]>> \o <<pair>>
    BY <2>1
  <2>3. PICK pair : n = <<table[b][i]>> \o <<pair>>
    BY <2>6
  <2>4. PICK j \in DOMAIN table'[b] : table'[b][j] = table[b][i]
    BY <1>3
  <2>5. n = <<table'[b][j]>> \o <<pair>>
    BY <2>3, <2>4
  <2>2. \E k \in DOMAIN table'[b] : \E q : n = <<table'[b][k]>> \o <<q>>
    BY <2>5
  <2> QED  BY <2>2 DEF FoundPair
<1> QED  BY <1>4, <1>5, <1>6

\* What a step of a CPU does to what it has found: it keeps it, forgets it at
\* its end, looks for a rule, or looks for a pair of the rule.
LEMMA CpuLooks ==
  ASSUME Typed, NEW p \in Cpus, Receive(p) \/ Hook(p)
  PROVE  \/ node'[p] = node[p] /\ pc'[p] \notin {"idle", "map"}
         \/ node'[p] = <<>> /\ pc'[p] = "idle"
         \/ \E host, referer :
               /\ node'[p] = FindByHost(table, host, referer)
               /\ pc'[p] = IF node'[p] = <<>> THEN "accept" ELSE "map"
         \/ \E rule, url :
               /\ node'[p] = node[p] \o FindByUrl(rule, url)
               /\ pc[p] = "map" /\ pc'[p] \notin {"idle", "map"}
<1> USE DEF Typed, Actors, Go
<1>1. CASE Receive(p)
  BY <1>1 DEF Receive
<1>2. CASE CopyHost(p) \/ CopyUrl(p) \/ CopyReferer(p)
  BY <1>2 DEF CopyHost, CopyUrl, CopyReferer, Copy
<1>3. CASE RegroupHost(p)
  BY <1>3 DEF RegroupHost
<1>4. CASE LockTable(p)
  BY <1>4 DEF LockTable, Lock, hook
<1>5. CASE FindHost(p)
  <2> DEFINE host == cell["host"].text
             referer == IF pkt[p].referer = None THEN None
                        ELSE cell["referer"].text
  <2>1. /\ node' = [node EXCEPT ![p] = FindByHost(table, host, referer)]
        /\ pc' = [pc EXCEPT ![p] = IF node'[p] = <<>> THEN "accept" ELSE "map"]
    BY <1>5 DEF FindHost
  <2> HIDE DEF host, referer
  <2>2. /\ node'[p] = FindByHost(table, host, referer)
        /\ pc'[p] = IF node'[p] = <<>> THEN "accept" ELSE "map"
    BY <2>1
  <2> QED  BY <2>2
<1>6. CASE FindUrl(p)
  <2> DEFINE rule == node[p][1]   url == cell["url"].text
             pair == FindByUrl(rule, url)
  <2>1. /\ node' = [node EXCEPT ![p] = @ \o pair]
        /\ pc[p] = "map"
        /\ pc' = [pc EXCEPT ![p] = IF pair = <<>> THEN "accept" ELSE
                                   IF node[p][1].type = "R" THEN "locate"
                                   ELSE "unlock"]
    BY <1>6 DEF FindUrl
  <2> HIDE DEF pair
  <2>2. /\ node'[p] = node[p] \o pair /\ pc[p] = "map"
        /\ pc'[p] \notin {"idle", "map"}
    BY <2>1
  <2> QED  BY <2>2 DEF pair
<1>7. CASE UnlockAccept(p)
  BY <1>7 DEF UnlockAccept, Unlock, hook
<1>8. CASE Locate(p)
  BY <1>8 DEF Locate
<1>9. CASE UnlockTable(p)
  BY <1>9 DEF UnlockTable, Unlock, hook
<1>10. CASE AskException(p)
  BY <1>10 DEF AskException
<1>11. CASE Modify(p)
  BY <1>11 DEF Modify
<1>12. CASE Send(p)
  BY <1>12 DEF Send
<1>13. CASE SendFails(p)
  BY <1>13 DEF SendFails
<1>14. CASE Overrun(p) \/ NoAnswer(p)
  BY <1>14 DEF Overrun, NoAnswer, Oops, hook
<1>15. CASE Return(p)
  BY <1>15 DEF Return
<1> QED
  BY <1>1, <1>2, <1>3, <1>4, <1>5, <1>6, <1>7, <1>8, <1>9, <1>10, <1>11, <1>12,
     <1>13, <1>14, <1>15 DEF Hook

\* Every step keeps what the CPUs have found in the table.
LEMMA UNext == UInv /\ [Next]_vars => UInv'
<1> SUFFICES ASSUME UInv, [Next]_vars PROVE UInv'
  OBVIOUS
<1>1. LInv'
  BY LNext DEF UInv
<1>2. Typed /\ Chained /\ Kept
  BY DEF UInv, LInv
<1>3. ASSUME NEW p \in Cpus, Receive(p) \/ Hook(p) PROVE UInv'
  <2>1. table' = table /\ \A q \in Cpus \ {p} : node'[q] = node[q] /\ pc'[q] = pc[q]
    BY <1>2, <1>3, CpuSteps DEF OnlyFor, Actors
  <2>2. /\ Chained' /\ \A n : Found(n)' <=> Found(n)
        /\ \A n : FoundPair(n)' <=> FoundPair(n)
    BY <1>2, <2>1 DEF Chained, Found, FoundPair
  <2>3. /\ node'[p] # <<>> => Found(node'[p]) \/ FoundPair(node'[p])
        /\ pc'[p] = "idle" => node'[p] = <<>>
        /\ pc'[p] = "map" => Found(node'[p])
    <3>1. CASE node'[p] = node[p] /\ pc'[p] \notin {"idle", "map"}
      BY <1>2, <3>1 DEF Kept
    <3>2. CASE node'[p] = <<>> /\ pc'[p] = "idle"
      BY <3>2
    <3>3. ASSUME NEW host, NEW referer,
                 node'[p] = FindByHost(table, host, referer),
                 node'[p] # <<>>
          PROVE  Found(node'[p])
      <4>1. host \in Hosts
        BY <3>3 DEF FindByHost
      <4>2. PICK b \in Buckets : b = Hash[host]
        BY <4>1 DEF Buckets
      <4>3. PICK S : table[b] \in Seq(S)
        BY <1>2 DEF Chained
      <4>4. \E i \in DOMAIN table[b] :
               FindByHost(table, host, referer) = <<table[b][i]>>
        BY <1>2, <3>3, <4>2, <4>3, FoundByHost
      <4> QED  BY <3>3, <4>4 DEF Found
    <3>4. ASSUME NEW rule, NEW url, pc[p] = "map",
                 node'[p] = node[p] \o FindByUrl(rule, url)
          PROVE  Found(node'[p]) \/ FoundPair(node'[p])
      <4>1. PICK b \in Buckets : \E i \in DOMAIN table[b] :
              node[p] = <<table[b][i]>>
        BY <3>4 DEF UInv, Found
      <4>2. PICK i \in DOMAIN table[b] : node[p] = <<table[b][i]>>
        BY <4>1
      <4>3. <<table[b][i]>> \o <<>> = <<table[b][i]>>
        <5> DEFINE r == table[b][i]
        <5> HIDE DEF r
        <5>1. <<r>> \o <<>> = <<r>>
          OBVIOUS
        <5> QED  BY <5>1 DEF r
      <4>4. CASE FindByUrl(rule, url) = <<>>
        <5>1. node'[p] = <<table[b][i]>>
          BY <3>4, <4>2, <4>3, <4>4
        <5> QED  BY <5>1 DEF Found
      <4>5. CASE \E pair : FindByUrl(rule, url) = <<pair>>
        <5>1. PICK pair : FindByUrl(rule, url) = <<pair>>
          BY <4>5
        <5>2. node'[p] = <<table[b][i]>> \o <<pair>>
          BY <3>4, <4>2, <5>1
        <5> QED  BY <5>2 DEF FoundPair
      <4> QED  BY <4>4, <4>5, FoundByUrl
    <3> QED  BY <1>2, <1>3, <3>1, <3>2, <3>3, <3>4, CpuLooks
  <2>4. Kept'
    BY <1>2, <2>1, <2>2, <2>3 DEF Kept
  <2>5. \A q \in Cpus : /\ pc'[q] = "idle" => node'[q] = <<>>
                        /\ pc'[q] = "map" => Found(node'[q])
    BY <2>1, <2>3 DEF UInv
  <2> QED  BY <1>1, <2>2, <2>4, <2>5 DEF UInv
<1>4. ASSUME NEW w \in Writers, BeginWrite(w) \/ Write(w) PROVE UInv'
  <2>1. \A p \in Cpus : node'[p] = node[p] /\ pc'[p] = pc[p]
    BY <1>2, <1>4, WriterSteps, RulesAssumption DEF OnlyFor, Actors
  <2>2. table' = table \/ table' = Add(table, node[w][1])
    BY <1>4 DEF Write, BeginWrite, CopyLines, CopyFails, ParseFails, ParseLine,
       LockToAdd, AddRule, Advance, hook
  <2>3. /\ Chained'
        /\ \A n : Found(n) => Found(n)'
        /\ \A n : FoundPair(n) => FoundPair(n)'
    <3>1. CASE table' = table
      BY <1>2, <3>1 DEF Chained, Found, FoundPair
    <3>2. CASE table' = Add(table, node[w][1])
      BY <1>2, <3>2, AddKeeps
    <3> QED  BY <2>2, <3>1, <3>2
  <2>4. Kept'
    BY <1>2, <2>1, <2>3 DEF Kept
  <2>5. \A p \in Cpus : /\ pc'[p] = "idle" => node'[p] = <<>>
                        /\ pc'[p] = "map" => Found(node[p])'
    BY <2>1, <2>3 DEF UInv
  <2> QED  BY <1>1, <2>3, <2>4, <2>5 DEF UInv
<1>5. CASE Module
  <2>1. pc' = pc /\ node' = node
    BY <1>5, ModuleSteps
  <2>2. CASE table' = table
    BY <1>1, <2>1, <2>2 DEF UInv, Chained, Kept, Found, FoundPair
  <2>3. CASE module = "unhooked" /\ table' = NoRules
    <3>1. \A p \in Cpus : pc[p] = "idle" /\ node[p] = <<>>
      BY <2>3 DEF UInv, LInv, HookLoaded
    <3>2. Chained'
      <4>1. \A b \in Buckets : table'[b] = <<>> /\ <<>> \in Seq({})
        BY <2>3 DEF NoRules
      <4> QED  BY <2>3, <4>1 DEF Chained, NoRules
    <3> QED  BY <1>1, <2>1, <3>1, <3>2 DEF UInv, Kept
  <2> QED  BY <1>5, <2>2, <2>3, ModuleSteps
<1>6. CASE UNCHANGED vars
  BY <1>1, <1>6 DEF vars, hook, UInv, Chained, Kept, Found, FoundPair
<1> QED  BY <1>3, <1>4, <1>5, <1>6 DEF Next

\* A rule is not freed while a CPU may look at it, although the CPU gives the
\* mutex back before it answers, asks for an exception or rewrites.
THEOREM RulesThereWhenUsed == Spec => []RulesOutliveUse
<1>1. Init => UInv
  <2> SUFFICES ASSUME Init PROVE UInv
    OBVIOUS
  <2>1. table = NoRules /\ \A p \in Cpus : node[p] = <<>> /\ pc[p] = "idle"
    BY DEF Init, Actors
  <2>2. \A b \in Buckets : table[b] = <<>> /\ <<>> \in Seq({})
    BY <2>1 DEF NoRules
  <2> QED
    BY <2>1, <2>2, LInit DEF UInv, Chained, NoRules, Kept
<1>2. UInv => RulesOutliveUse
  <2> SUFFICES ASSUME UInv, NEW p \in Cpus, node[p] # <<>>
               PROVE  \E b \in Buckets : node[p][1] \in ToSet(table[b])
    BY DEF RulesOutliveUse
  <2>1. PICK b \in Buckets :
          \E i \in DOMAIN table[b] : \/ node[p] = <<table[b][i]>>
                                    \/ \E pair : node[p] = <<table[b][i]>> \o <<pair>>
    BY DEF UInv, Kept, Found, FoundPair
  <2>2. PICK i \in DOMAIN table[b] :
          \/ node[p] = <<table[b][i]>>
          \/ \E pair : node[p] = <<table[b][i]>> \o <<pair>>
    BY <2>1
  <2>3. node[p][1] = table[b][i]
    <3> DEFINE r == table[b][i]
    <3>1. node[p] = <<r>> \/ \E pair : node[p] = <<r>> \o <<pair>>
      BY <2>2
    <3> HIDE DEF r
    <3>2. <<r>>[1] = r /\ \A pair : (<<r>> \o <<pair>>)[1] = r
      <4>1. ASSUME NEW pair PROVE (<<r>> \o <<pair>>)[1] = r
        OBVIOUS
      <4> QED  BY <4>1
    <3>3. node[p][1] = r
      BY <3>1, <3>2, Zenon
    <3> QED  BY <3>3 DEF r
  <2> QED  BY <2>3 DEF ToSet
<1> QED  BY <1>1, <1>2, UNext, PTL DEF Spec

\* The table of rules is safe to work with, for any CPUs, writers and lines and
\* through an unload at any time: the mutex is where it should be, and no rule
\* goes while a CPU still holds it.
THEOREM TableAlwaysSafe == Spec => []TableSafe
<1>1. MutexHeld /\ RulesOutliveUse => TableSafe
  BY DEF TableSafe
<1> QED  BY <1>1, LockInvariance, RulesThereWhenUsed, PTL

-----------------------------------------------------------------------------
(* What the writers write.                                                  *)

\* Lines as they may be written, and writes of them.
Lines(lines) == \E S : lines \in Seq(S) /\ \A line \in S : LineOK(line)
Writes(writes) ==
    \E T : writes \in Seq(T) /\ \A lines \in T : Lines(lines) /\ lines # <<>>

\* Every writer has its writes, and one to finish in the write call.
Scripted ==
    /\ DOMAIN script = Writers /\ index \in Nat
    /\ \A w \in Writers : /\ Writes(script[w])
                          /\ pc[w] # "idle" => script[w] # <<>>

\* The first write, and those that follow it.
LEMMA FirstWrite ==
  ASSUME NEW writes, Writes(writes), writes # <<>>
  PROVE  Lines(Head(writes)) /\ Head(writes) # <<>> /\ Writes(Tail(writes))
<1>1. PICK T : writes \in Seq(T) /\ \A lines \in T : Lines(lines) /\ lines # <<>>
  BY DEF Writes
<1>2. Head(writes) \in T /\ Tail(writes) \in Seq(T)
  BY <1>1
<1> QED  BY <1>1, <1>2 DEF Writes

\* What lines are.
LEMMA LinesAre ==
  ASSUME NEW lines, Lines(lines)
  PROVE  /\ Len(lines) \in Nat /\ DOMAIN lines = 1 .. Len(lines)
         /\ \A i \in DOMAIN lines : LineOK(lines[i]) /\ lines[i] \in ToSet(lines)
         /\ \A line \in ToSet(lines) : LineOK(line)
  BY DEF Lines, ToSet

\* A step of a writer takes the write it finishes from its script.
LEMMA WriterScripts ==
  ASSUME Typed, NEW w \in Writers, BeginWrite(w) \/ Write(w)
  PROVE  /\ \/ /\ script' = script
               /\ pc[w] # "idle" \/ script[w] # <<>>
            \/ /\ script' = [script EXCEPT ![w] = Tail(@)]
               /\ pc[w] # "idle" /\ pc'[w] = "idle"
         /\ \/ index' = index
            \/ index' = 0
            \/ pc[w] # "idle" /\ index' = index + Len(Writing(w))
<1>1. w \in DOMAIN pc
  BY DEF Typed, Actors
<1> USE DEF Go, Finish
<1>2. CASE BeginWrite(w)
  BY <1>1, <1>2 DEF BeginWrite
<1>3. CASE CopyLines(w) \/ CopyFails(w)
  BY <1>1, <1>3 DEF CopyLines, CopyFails
<1>4. CASE ParseFails(w)
  BY <1>1, <1>4 DEF ParseFails
<1>5. CASE ParseLine(w)
  BY <1>1, <1>5 DEF ParseLine, write
<1>6. CASE LockToAdd(w)
  BY <1>1, <1>6 DEF LockToAdd, hook, write
<1>7. CASE AddRule(w)
  BY <1>1, <1>7 DEF AddRule, write
<1>8. CASE Advance(w)
  BY <1>1, <1>8 DEF Advance
<1> QED  BY <1>2, <1>3, <1>4, <1>5, <1>6, <1>7, <1>8 DEF Write

\* Scripts stay as they should be.
LEMMA ScriptsKept ==
  ASSUME Typed, Scripted, NEW w \in Writers, BeginWrite(w) \/ Write(w)
  PROVE  Scripted'
<1>1. \A v \in Writers \ {w} : pc'[v] = pc[v]
  BY WriterSteps DEF OnlyFor, Actors
<1>2. pc[w] # "idle" => Lines(Writing(w)) /\ Writes(Tail(script[w]))
  BY FirstWrite DEF Scripted, Writing
<1>3. index' \in Nat
  BY <1>2, WriterScripts, LinesAre DEF Scripted
<1>4. DOMAIN script' = Writers
  BY WriterScripts DEF Scripted
<1>5. ASSUME NEW v \in Writers
      PROVE  Writes(script'[v]) /\ (pc'[v] # "idle" => script'[v] # <<>>)
  <2>1. CASE v # w
    <3>1. script'[v] = script[v]
      BY <2>1, WriterScripts DEF Scripted
    <3> QED  BY <1>1, <2>1, <3>1 DEF Scripted
  <2>2. CASE v = w /\ script' = script /\ (pc[w] # "idle" \/ script[w] # <<>>)
    BY <2>2 DEF Scripted
  <2>3. CASE /\ v = w /\ script' = [script EXCEPT ![w] = Tail(@)]
             /\ pc[w] # "idle" /\ pc'[w] = "idle"
    BY <1>2, <2>3 DEF Scripted
  <2> QED  BY <2>1, <2>2, <2>3, WriterScripts
<1> QED  BY <1>3, <1>4, <1>5 DEF Scripted

\* Others leave the scripts alone.
LEMMA ScriptsStay ==
  ASSUME Scripted, script' = script, index' = index \/ index' = 0,
         \A w \in Writers : pc'[w] = pc[w]
  PROVE  Scripted'
  BY DEF Scripted

\* At first nobody has begun.
LEMMA ScriptsBegin == Init => Scripted
<1> SUFFICES ASSUME Init PROVE Scripted
  OBVIOUS
<1>1. PICK c \in Cases : script = c.script
  BY DEF Init
<1>2. index \in Nat /\ \A w \in Writers : pc[w] = "idle"
  BY DEF Init, Actors
<1>3. DOMAIN script = Writers
  BY <1>1, CasesAssumption
<1>4. ASSUME NEW w \in Writers PROVE Writes(script[w])
  <2> DEFINE s == script[w]   T == ToSet(s)
  <2>1. /\ s \in Seq(T)
        /\ \A lines \in T : /\ IsSequence(lines) /\ lines # <<>>
                            /\ \A line \in ToSet(lines) : LineOK(line)
    BY <1>1, CasesAssumption DEF IsSequence
  <2> HIDE DEF s, T
  <2>2. \A lines \in T : Lines(lines) /\ lines # <<>>
    BY <2>1 DEF Lines, IsSequence
  <2>3. Writes(s)
    BY <2>1, <2>2 DEF Writes
  <2> QED  BY <2>3 DEF s
<1> QED  BY <1>2, <1>3, <1>4 DEF Scripted

\* Lines that are put come to their places, the others stay.
LEMMA PutIs ==
  ASSUME NEW lines, Lines(lines), index \in Nat
  PROVE  \A i \in DOMAIN Put(lines) :
            \/ i \in DOMAIN text /\ Put(lines)[i] = text[i]
            \/ i = index + 1 /\ Put(lines)[i] = Head(lines) /\ lines # <<>>
            \/ Put(lines)[i] \in ToSet(Tail(lines)) /\ lines # <<>>
<1> SUFFICES ASSUME NEW i \in DOMAIN Put(lines)
             PROVE  \/ i \in DOMAIN text /\ Put(lines)[i] = text[i]
                    \/ /\ i = index + 1 /\ Put(lines)[i] = Head(lines)
                       /\ lines # <<>>
                    \/ Put(lines)[i] \in ToSet(Tail(lines)) /\ lines # <<>>
  OBVIOUS
<1> DEFINE j == i - index   L == Len(lines)   places == index + 1 .. index + L
<1>1. /\ i \in DOMAIN text \cup places
      /\ Put(lines)[i] = IF i \in places THEN lines[j] ELSE text[i]
  BY DEF Put
<1>2. L \in Nat /\ DOMAIN lines = 1 .. L /\ (L = 0 <=> lines = <<>>)
  BY DEF Lines
<1>3. CASE i \notin places
  BY <1>1, <1>3
<1>4. CASE i \in places
  <2>1. i \in Int /\ j \in 1 .. L /\ lines # <<>>
    BY <1>2, <1>4
  <2>2. CASE j = 1
    <3>1. i = index + 1 /\ Head(lines) = lines[1]
      BY <1>2, <2>1, <2>2 DEF Lines
    <3> QED  BY <1>1, <1>4, <2>1, <2>2, <3>1
  <2>3. CASE j # 1
    <3>1. j - 1 \in 1 .. L - 1
      BY <1>2, <2>1, <2>3
    <3>2. /\ DOMAIN Tail(lines) = 1 .. L - 1
          /\ \A n \in 1 .. L - 1 : Tail(lines)[n] = lines[n + 1]
      BY <1>2, <2>1 DEF Lines
    <3>3. Tail(lines)[j - 1] = lines[j] /\ j - 1 \in DOMAIN Tail(lines)
      BY <2>1, <3>1, <3>2
    <3>4. lines[j] \in ToSet(Tail(lines))
      <4> HIDE DEF j
      <4> QED  BY <3>3 DEF ToSet
    <3> QED  BY <1>1, <1>4, <2>1, <3>4
  <2> QED  BY <2>2, <2>3
<1> QED  BY <1>3, <1>4

\* The lines put are all there is beside the text before.
LEMMA PutAmong ==
  ASSUME NEW lines, Lines(lines), index \in Nat
  PROVE  \A i \in DOMAIN Put(lines) :
            \/ i \in DOMAIN text /\ Put(lines)[i] = text[i]
            \/ Put(lines)[i] \in ToSet(lines)
<1>1. lines # <<>> => /\ Head(lines) \in ToSet(lines)
                      /\ ToSet(Tail(lines)) \subseteq ToSet(lines)
  <2> SUFFICES ASSUME lines # <<>>
               PROVE  /\ Head(lines) \in ToSet(lines)
                      /\ ToSet(Tail(lines)) \subseteq ToSet(lines)
    OBVIOUS
  <2>1. /\ 1 \in DOMAIN lines /\ Head(lines) = lines[1]
        /\ \A j \in DOMAIN Tail(lines) : /\ j + 1 \in DOMAIN lines
                                         /\ Tail(lines)[j] = lines[j + 1]
    BY DEF Lines
  <2> QED  BY <2>1 DEF ToSet
<1> QED  BY <1>1, PutIs

\* The first lines of some are lines of them.
LEMMA SomeLines ==
  ASSUME NEW lines, Lines(lines), NEW n \in 0 .. Len(lines)
  PROVE  /\ Lines(SubSeq(lines, 1, n))
         /\ ToSet(SubSeq(lines, 1, n)) \subseteq ToSet(lines)
<1> DEFINE some == SubSeq(lines, 1, n)
<1>1. PICK S : lines \in Seq(S) /\ \A line \in S : LineOK(line)
  BY DEF Lines
<1>2. /\ some \in Seq(S)
      /\ \A j \in DOMAIN some : j \in DOMAIN lines /\ some[j] = lines[j]
  BY <1>1
<1> HIDE DEF some
<1>3. Lines(some) /\ ToSet(some) \subseteq ToSet(lines)
  BY <1>1, <1>2 DEF Lines, ToSet
<1> QED  BY <1>3 DEF some

\* A failure leaves lines of the write and of the text before.
LEMMA FailPuts ==
  ASSUME NEW w \in Writers, index \in Nat, Lines(Writing(w)), CopyFails(w)
  PROVE  \A i \in DOMAIN text' :
            \/ i \in DOMAIN text /\ text'[i] = text[i]
            \/ text'[i] \in ToSet(Writing(w))
<1>1. PICK n \in 0 .. Len(Writing(w)) :
        LET put == Put(SubSeq(Writing(w), 1, n))
            rest == index + n + 1 .. index + Len(Writing(w))
        IN text' \in {put, Restrict(put, DOMAIN put \ rest)}
  BY DEF CopyFails
<1> DEFINE some == SubSeq(Writing(w), 1, n)
<1>2. Lines(some) /\ ToSet(some) \subseteq ToSet(Writing(w))
  BY SomeLines
<1>3. \A i \in DOMAIN text' : i \in DOMAIN Put(some) /\ text'[i] = Put(some)[i]
  BY <1>1 DEF Restrict
<1> HIDE DEF some
<1> QED  BY <1>2, <1>3, PutAmong

-----------------------------------------------------------------------------
(* The text of the proc file.                                               *)

\* A line that is a rule in force, or one that was not made one.
Accounted(line) == line \in ToSet(added) \cup unused \cup further

\* Where a writer has put its lines and still owes the first one a rule.
Owes == {"parse", "add", "link"}

\* Until two writers meet, the text is accounted for up to the first line of
\* the only writer in the write call.
Alone ==
    /\ \A v, w \in Writers : pc[v] # "idle" /\ pc[w] # "idle" => v = w
    /\ \A i \in DOMAIN text :
          \/ Accounted(text[i])
          \/ i = index + 1 /\ \E w \in Writers : pc[w] \in Owes
    /\ \A w \in Writers : pc[w] \in {"add", "link"} =>
          node[w] = IF LineThere = {} THEN <<>>
                    ELSE <<Rule(text[index + 1]), text[index + 1]>>

TInv ==
    /\ Typed /\ Scripted
    /\ \E S : added \in Seq(S)
    /\ ~clash => Alone

\* A line that is added joins the others.
LEMMA AddedJoins ==
  ASSUME NEW S, NEW s \in Seq(S), NEW line
  PROVE  /\ Append(s, line) \in Seq(S \cup {line})
         /\ line \in ToSet(Append(s, line)) /\ ToSet(s) \subseteq ToSet(Append(s, line))
<1> DEFINE T == S \cup {line}   t == Append(s, line)
<1>1. s \in Seq(T) /\ line \in T
  OBVIOUS
<1> HIDE DEF T
<1>2. /\ t \in Seq(T) /\ DOMAIN t = 1 .. Len(s) + 1 /\ t[Len(s) + 1] = line
      /\ \A i \in DOMAIN s : i \in DOMAIN t /\ t[i] = s[i]
      /\ Len(s) \in Nat
  BY <1>1
<1> HIDE DEF t
<1>3. Len(s) + 1 \in DOMAIN t
  BY <1>2
<1>4. line \in ToSet(t) /\ ToSet(s) \subseteq ToSet(t)
  BY <1>2, <1>3 DEF ToSet
<1> QED  BY <1>2, <1>4 DEF T, t

\* There is a line at the index or there is none.
LEMMA ThereIs ==
  /\ LineThere = {} => index + 1 \notin DOMAIN text
  /\ LineThere # {} => /\ index + 1 \in DOMAIN text
                       /\ LineThere = {text[index + 1]}
  BY DEF LineThere

\* What a writer leaves as it is when it is the only one.
LEMMA OthersIdle ==
  ASSUME TInv, NEW w \in Writers, BeginWrite(w) \/ Write(w), ~clash'
  PROVE  /\ ~clash /\ Alone
         /\ \A v \in Writers \ {w} : pc[v] = "idle" /\ pc'[v] = "idle"
<1>1. OnlyFor(w) /\ (pc[w] = "idle" => \A v \in Writers : pc[v] = "idle") /\ ~clash
  <2>1. OnlyFor(w)
    BY WriterSteps DEF TInv
  <2>2. CASE BeginWrite(w)
    BY <2>1, <2>2 DEF BeginWrite
  <2>3. CASE Write(w)
    <3>1. clash' = clash
      BY <2>3 DEF Write, CopyLines, CopyFails, ParseFails, ParseLine, LockToAdd,
         AddRule, Advance, hook, write
    <3>2. pc[w] # "idle"
      BY <2>3 DEF Write, CopyLines, CopyFails, ParseFails, ParseLine, LockToAdd,
         AddRule, Advance
    <3> QED  BY <2>1, <3>1, <3>2
  <2> QED  BY <2>2, <2>3
<1>2. Alone
  BY <1>1 DEF TInv
<1>3. \A v \in Writers \ {w} : pc[v] = "idle"
  BY <1>1, <1>2 DEF Alone
<1> QED  BY <1>1, <1>2, <1>3 DEF OnlyFor, Actors

\* A step of a writer.
LEMMA WriterKeepsText ==
  ASSUME TInv, NEW w \in Writers, BeginWrite(w) \/ Write(w) PROVE TInv'
<1>1. Typed'
  BY WriterSteps DEF TInv, OnlyFor, Typed
<1>2. Scripted'
  BY ScriptsKept DEF TInv
<1>3. added' = added \/ \E line : added' = Append(added, line)
  BY DEF BeginWrite, Write, CopyLines, CopyFails, ParseFails, ParseLine,
     LockToAdd, AddRule, Advance, hook
<1>4. \E S : added' \in Seq(S)
  <2>1. PICK S : added \in Seq(S)
    BY DEF TInv
  <2>2. CASE added' = added
    BY <2>1, <2>2
  <2>3. CASE \E line : added' = Append(added, line)
    <3>1. PICK line : added' = Append(added, line)
      BY <2>3
    <3>2. Append(added, line) \in Seq(S \cup {line})
      BY <2>1, AddedJoins
    <3> QED  BY <3>1, <3>2
  <2> QED  BY <1>3, <2>2, <2>3
<1>5. ASSUME ~clash' PROVE Alone'
  <2>1. /\ Alone /\ Typed /\ index \in Nat /\ w \in DOMAIN pc /\ w \in DOMAIN node
        /\ \A v \in Writers \ {w} : pc[v] = "idle" /\ pc'[v] = "idle"
    BY <1>5, OthersIdle DEF TInv, Scripted, Typed, Actors
  <2>2. \A v \in Writers : pc[v] # "idle" => v = w
    BY <2>1
  <2>3. \A u, v \in Writers : pc'[u] # "idle" /\ pc'[v] # "idle" => u = v
    BY <2>1
  <2>4. ASSUME pc[w] \notin Owes, NEW i \in DOMAIN text PROVE Accounted(text[i])
    BY <2>1, <2>2, <2>4 DEF Alone, Owes
  <2>5. pc[w] # "idle" => Lines(Writing(w)) /\ Writing(w) # <<>>
    BY FirstWrite DEF TInv, Scripted, Writing
  <2> DEFINE There == pc'[w] \in {"add", "link"} =>
                        node'[w] = IF LineThere' = {} THEN <<>>
                                   ELSE <<Rule(text'[index' + 1]), text'[index' + 1]>>
             All == \A i \in DOMAIN text' :
                       \/ Accounted(text[i])'
                       \/ i = index' + 1 /\ pc'[w] \in Owes
  <2>6. ASSUME There, All PROVE Alone'
    BY <2>1, <2>3, <2>6 DEF Alone
  <2>7. CASE BeginWrite(w)
    <3>1. /\ pc[w] = "idle" /\ pc' = [pc EXCEPT ![w] = "copy"]
          /\ UNCHANGED <<added, unused, further>>
          /\ \/ text' = text
             \/ text' = Restrict(text, DOMAIN text \ (1 .. MaxText))
      BY <2>7 DEF BeginWrite, Go, write
    <3>2. \A i \in DOMAIN text' : i \in DOMAIN text /\ text'[i] = text[i]
      BY <3>1 DEF Restrict
    <3>3. pc'[w] = "copy" /\ pc[w] \notin Owes
      BY <2>1, <3>1 DEF Owes
    <3> QED  BY <2>4, <2>6, <3>1, <3>2, <3>3 DEF Accounted
  <2>8. CASE CopyLines(w)
    <3>1. /\ pc[w] = "copy" /\ pc' = [pc EXCEPT ![w] = "parse"]
          /\ UNCHANGED <<added, unused, index>>
          /\ text' = Put(Writing(w))
          /\ further' = further \cup ToSet(Tail(Writing(w)))
      BY <2>8 DEF CopyLines, Go
    <3>2. pc'[w] = "parse" /\ pc[w] \notin Owes
      BY <2>1, <3>1 DEF Owes
    <3>3. ASSUME NEW i \in DOMAIN text'
          PROVE  Accounted(text[i])' \/ (i = index' + 1 /\ pc'[w] \in Owes)
      <4>1. \/ i \in DOMAIN text /\ text'[i] = text[i]
            \/ i = index + 1
            \/ text'[i] \in ToSet(Tail(Writing(w)))
        BY <2>1, <2>5, <3>1, PutIs
      <4> QED  BY <2>4, <3>1, <3>2, <4>1 DEF Accounted, Owes
    <3> QED  BY <2>6, <3>2, <3>3
  <2>9. CASE CopyFails(w)
    <3>1. /\ pc[w] = "copy" /\ pc' = [pc EXCEPT ![w] = "idle"]
          /\ UNCHANGED <<added, further, index>>
          /\ unused' = unused \cup ToSet(Writing(w))
      BY <2>9 DEF CopyFails, Finish, Go
    <3>2. pc'[w] = "idle" /\ pc[w] \notin Owes
      BY <2>1, <3>1 DEF Owes
    <3>3. \A i \in DOMAIN text' :
             \/ i \in DOMAIN text /\ text'[i] = text[i]
             \/ text'[i] \in unused'
      BY <2>1, <2>5, <2>9, <3>1, FailPuts
    <3> QED  BY <2>4, <2>6, <3>1, <3>2, <3>3 DEF Accounted
  <2>10. CASE ParseFails(w)
    <3>1. /\ pc[w] = "parse" /\ UNCHANGED <<added, text, index, further>>
          /\ pc' = [pc EXCEPT ![w] = "advance"]
          /\ unused' = unused \cup LineThere
      BY <2>10 DEF ParseFails, Go
    <3>2. pc'[w] = "advance"
      BY <2>1, <3>1
    <3>3. \A i \in DOMAIN text : Accounted(text[i]) \/ i = index + 1
      BY <2>1 DEF Alone
    <3>4. index + 1 \in DOMAIN text => text[index + 1] \in unused'
      BY <3>1, ThereIs
    <3> QED  BY <2>6, <3>1, <3>2, <3>3, <3>4 DEF Accounted
  <2>11. CASE ParseLine(w)
    <3>1. /\ pc[w] = "parse" /\ UNCHANGED <<added, text, index, unused, further>>
          /\ pc' = [pc EXCEPT ![w] = "add"]
          /\ node' = [node EXCEPT ![w] =
                         IF LineThere = {} THEN <<>>
                         ELSE <<Rule(text[index + 1]), text[index + 1]>>]
      BY <2>11 DEF ParseLine, Go, write
    <3>2. /\ pc'[w] = "add" /\ LineThere' = LineThere
          /\ node'[w] = IF LineThere = {} THEN <<>>
                        ELSE <<Rule(text[index + 1]), text[index + 1]>>
      BY <2>1, <3>1 DEF LineThere
    <3>3. \A i \in DOMAIN text : Accounted(text[i]) \/ i = index + 1
      BY <2>1 DEF Alone
    <3> QED  BY <2>6, <3>1, <3>2, <3>3 DEF Accounted, Owes
  <2>12. CASE LockToAdd(w)
    <3>1. /\ pc[w] = "add" /\ UNCHANGED <<added, text, index, unused, further, node>>
          /\ pc' = [pc EXCEPT ![w] = "link"]
      BY <2>12 DEF LockToAdd, Go, hook, write
    <3>2. pc'[w] = "link" /\ LineThere' = LineThere
      BY <2>1, <3>1 DEF LineThere
    <3>3. /\ \A i \in DOMAIN text : Accounted(text[i]) \/ i = index + 1
          /\ node[w] = IF LineThere = {} THEN <<>>
                       ELSE <<Rule(text[index + 1]), text[index + 1]>>
      BY <2>1, <3>1 DEF Alone
    <3> QED  BY <2>6, <3>1, <3>2, <3>3 DEF Accounted, Owes
  <2>13. CASE AddRule(w)
    <3> DEFINE line == text[index + 1]
    <3>1. /\ pc[w] = "link" /\ UNCHANGED <<text, index, unused, further>>
          /\ pc' = [pc EXCEPT ![w] = "advance"]
          /\ \/ node[w] = <<>> /\ added' = added
             \/ node[w] # <<>> /\ added' = Append(added, node[w][2])
      BY <2>13 DEF AddRule, Go, write
    <3>2. pc'[w] = "advance"
      BY <2>1, <3>1
    <3>3. node[w] = IF LineThere = {} THEN <<>> ELSE <<Rule(line), line>>
      BY <2>1, <3>1 DEF Alone
    <3>4. PICK S : added \in Seq(S)
      BY DEF TInv
    <3>5. /\ ToSet(added) \subseteq ToSet(added')
          /\ index + 1 \in DOMAIN text => line \in ToSet(added')
      <4> HIDE DEF line
      <4>1. CASE LineThere = {}
        BY <3>1, <3>3, <4>1, ThereIs
      <4>2. CASE LineThere # {}
        <5>1. added' = Append(added, line)
          BY <3>1, <3>3, <4>2
        <5> QED  BY <3>4, <5>1, AddedJoins
      <4> QED  BY <4>1, <4>2
    <3>6. \A i \in DOMAIN text : Accounted(text[i]) \/ i = index + 1
      BY <2>1 DEF Alone
    <3> QED  BY <2>6, <3>1, <3>2, <3>5, <3>6 DEF Accounted
  <2>14. CASE Advance(w)
    <3>1. /\ pc[w] = "advance" /\ UNCHANGED <<added, text, unused, further>>
          /\ pc' = [pc EXCEPT ![w] = "idle"]
      BY <2>14 DEF Advance, Finish, Go
    <3>2. pc'[w] = "idle" /\ pc[w] \notin Owes
      BY <2>1, <3>1 DEF Owes
    <3> QED  BY <2>4, <2>6, <3>1, <3>2 DEF Accounted
  <2> QED
    BY <2>7, <2>8, <2>9, <2>10, <2>11, <2>12, <2>13, <2>14 DEF Write
<1> QED  BY <1>1, <1>2, <1>4, <1>5 DEF TInv

\* Every step keeps the text accounted for.
LEMMA TNext == TInv /\ [Next]_vars => TInv'
<1> SUFFICES ASSUME TInv, [Next]_vars PROVE TInv'
  OBVIOUS
<1>1. ASSUME NEW p \in Cpus, Receive(p) \/ Hook(p) PROVE TInv'
  <2>1. UNCHANGED <<added, script, text, index, unused, further, clash>> /\ OnlyFor(p)
    BY <1>1, CpuSteps DEF TInv, write
  <2>2. \A w \in Writers : pc'[w] = pc[w] /\ node'[w] = node[w]
    BY <2>1, RulesAssumption DEF OnlyFor, Actors
  <2>3. Typed' /\ Scripted'
    BY <2>1, <2>2, ScriptsStay DEF OnlyFor, Typed, TInv
  <2>4. Alone => Alone'
    BY <2>1, <2>2 DEF Alone, Accounted, LineThere
  <2> QED  BY <2>1, <2>3, <2>4 DEF TInv
<1>2. ASSUME NEW w \in Writers, BeginWrite(w) \/ Write(w) PROVE TInv'
  BY <1>2, WriterKeepsText
<1>3. CASE Module
  <2>1. UNCHANGED <<pc, node, script, unused, further, clash>>
    BY <1>3, ModuleSteps
  <2>2. Typed' /\ Scripted'
    BY <1>3, <2>1, ModuleSteps, ScriptsStay DEF TInv, Typed
  <2>3. CASE UNCHANGED <<table, added, text, index>>
    BY <2>1, <2>2, <2>3 DEF TInv, Alone, Accounted, LineThere
  <2>4. CASE /\ \A w \in Writers : pc[w] = "idle"
             /\ added' = <<>> /\ index' = 0 /\ text' = NoText
    <3>1. DOMAIN text' = {} /\ added' \in Seq({})
      BY <2>4 DEF NoText
    <3>2. Alone'
      BY <2>1, <2>4, <3>1 DEF Alone
    <3> QED  BY <2>1, <2>2, <3>1, <3>2 DEF TInv
  <2> QED  BY <1>3, <2>3, <2>4, ModuleSteps
<1>4. CASE UNCHANGED vars
  BY <1>4 DEF vars, hook, write, TInv, Typed, Alone, Accounted, LineThere, Scripted
<1> QED  BY <1>1, <1>2, <1>3, <1>4 DEF Next

\* As long as no two writers have been in the write call at once, all the text
\* shows between their calls is in force, failed, or behind the first line of
\* a write: for any writes, failures and packets, and however long the text.
THEOREM TextShowsRules == Spec => []TextInForce
<1>1. Init => TInv
  <2> SUFFICES ASSUME Init PROVE TInv
    OBVIOUS
  <2>1. /\ DOMAIN text = {} /\ added = <<>> /\ ~clash
        /\ \A w \in Writers : pc[w] = "idle"
    BY DEF Init, NoText, Actors
  <2>2. added \in Seq({})
    BY <2>1
  <2>3. Alone
    BY <2>1 DEF Alone
  <2> QED  BY <2>1, <2>2, <2>3, ScriptsBegin DEF Init, TInv, Typed
<1>2. TInv => TextInForce
  BY DEF TInv, Alone, Accounted, Owes, TextInForce
<1> QED  BY <1>1, <1>2, TNext, PTL DEF Spec

-----------------------------------------------------------------------------
(* The least and the greatest of some numbers.                              *)

\* The minimum is one of them.
LEMMA MinOf ==
  ASSUME NEW C, C \subseteq Nat, C # {}
  PROVE  Min(C) \in C /\ \A n \in C : Min(C) <= n
  BY Smallest DEF Min

\* What is least is the minimum.
LEMMA MinIs ==
  ASSUME NEW C, C \subseteq Nat, NEW m \in C, \A n \in C : m <= n
  PROVE  Min(C) = m
<1>1. Min(C) \in C /\ \A n \in C : Min(C) <= n
  BY MinOf
<1>2. Min(C) <= m /\ m <= Min(C) /\ m \in Nat /\ Min(C) \in Nat
  BY <1>1
<1> QED  BY <1>2

\* What is greatest is the maximum.
LEMMA MaxIs ==
  ASSUME NEW C, C \subseteq Nat, NEW m \in C, \A n \in C : n <= m
  PROVE  Max(C) = m
<1>1. \A y \in C : m >= y
  OBVIOUS
<1>2. Max(C) \in C /\ \A y \in C : Max(C) >= y
  BY <1>1 DEF Max
<1>3. Max(C) >= m /\ m >= Max(C) /\ m \in Nat /\ Max(C) \in Nat
  BY <1>1, <1>2
<1> QED  BY <1>3

-----------------------------------------------------------------------------
(* The table and the lines added to it.                                     *)

\* A bucket has the rules of the lines for it, the newest one first.
Filed(list, lines, b) ==
    \E place \in [DOMAIN list -> DOMAIN lines] :
        /\ \A i, j \in DOMAIN list : i < j => place[j] < place[i]
        /\ \A i \in DOMAIN list : /\ list[i] = Rule(lines[place[i]])
                                  /\ Hash[lines[place[i]].host] = b
        /\ \A n \in DOMAIN lines :
              Hash[lines[n].host] = b => \E i \in DOMAIN list : place[i] = n

\* Places are witnesses, whatever the domains are called.
LEMMA FiledBy ==
  ASSUME NEW list, NEW lines, NEW b, NEW D, DOMAIN list = D, NEW E,
         DOMAIN lines = E, NEW place \in [D -> E],
         \A i, j \in D : i < j => place[j] < place[i],
         \A i \in D : /\ list[i] = Rule(lines[place[i]])
                      /\ Hash[lines[place[i]].host] = b,
         \A n \in E : Hash[lines[n].host] = b => \E i \in D : place[i] = n
  PROVE  Filed(list, lines, b)
  BY DEF Filed

\* A line more.
LEMMA LinesJoin ==
  ASSUME NEW lines, Lines(lines), NEW line, LineOK(line)
  PROVE  /\ Lines(Append(lines, line))
         /\ DOMAIN lines = 1 .. Len(lines) /\ Len(lines) \in Nat
         /\ DOMAIN Append(lines, line) = 1 .. Len(lines) + 1
         /\ Append(lines, line)[Len(lines) + 1] = line
         /\ \A n \in 1 .. Len(lines) : Append(lines, line)[n] = lines[n]
<1>1. PICK S : lines \in Seq(S) /\ \A x \in S : LineOK(x)
  BY DEF Lines
<1> DEFINE T == S \cup {line}
<1>2. lines \in Seq(T) /\ line \in T /\ \A x \in T : LineOK(x)
  BY <1>1
<1> HIDE DEF T
<1>3. Append(lines, line) \in Seq(T)
  BY <1>2
<1> QED  BY <1>2, <1>3 DEF Lines

\* The bucket of the line gets its rule at the head, the others stay.
LEMMA FiledJoins ==
  ASSUME NEW lines, Lines(lines), NEW line, LineOK(line),
         NEW S, NEW list \in Seq(S), NEW b, Filed(list, lines, b)
  PROVE  Filed(IF Hash[line.host] = b THEN <<Rule(line)>> \o list ELSE list,
               Append(lines, line), b)
<1> DEFINE more == Append(lines, line)   N == Len(lines)   L == Len(list)
           r == Rule(line)   new == <<r>> \o list
<1>1. /\ DOMAIN lines = 1 .. N /\ N \in Nat /\ DOMAIN more = 1 .. N + 1
      /\ more[N + 1] = line /\ \A n \in 1 .. N : more[n] = lines[n]
  BY LinesJoin
<1>2. /\ DOMAIN list = 1 .. L /\ L \in Nat
      /\ DOMAIN new = 1 .. L + 1 /\ new[1] = r
      /\ \A i \in 2 .. L + 1 : new[i] = list[i - 1]
  <2> HIDE DEF r
  <2> DEFINE T == S \cup {r}
  <2>1. list \in Seq(T) /\ r \in T
    OBVIOUS
  <2> HIDE DEF T
  <2> QED  BY <2>1
<1> HIDE DEF more, N, L, new, r
<1>3. PICK place \in [1 .. L -> 1 .. N] :
        /\ \A i, j \in 1 .. L : i < j => place[j] < place[i]
        /\ \A i \in 1 .. L : /\ list[i] = Rule(lines[place[i]])
                             /\ Hash[lines[place[i]].host] = b
        /\ \A n \in 1 .. N :
              Hash[lines[n].host] = b => \E i \in 1 .. L : place[i] = n
  <2> DEFINE D == 1 .. L   E == 1 .. N
  <2>1. DOMAIN list = D /\ DOMAIN lines = E
    BY <1>1, <1>2
  <2> HIDE DEF D, E
  <2>2. \E place \in [D -> E] :
          /\ \A i, j \in D : i < j => place[j] < place[i]
          /\ \A i \in D : /\ list[i] = Rule(lines[place[i]])
                           /\ Hash[lines[place[i]].host] = b
          /\ \A n \in E : Hash[lines[n].host] = b => \E i \in D : place[i] = n
    BY <2>1 DEF Filed
  <2> QED  BY <2>2 DEF D, E
<1>4. CASE Hash[line.host] = b
  <2> DEFINE to == [i \in 1 .. L + 1 |-> IF i = 1 THEN N + 1 ELSE place[i - 1]]
  <2>1. \A i \in 2 .. L + 1 : to[i] = place[i - 1] /\ i - 1 \in 1 .. L
                              /\ place[i - 1] \in 1 .. N
    BY <1>2, <1>3
  <2>2. to[1] = N + 1 /\ to \in [1 .. L + 1 -> 1 .. N + 1]
    BY <1>1, <1>2, <1>3
  <2> HIDE DEF to
  <2>3. ASSUME NEW i \in 1 .. L + 1, NEW j \in 1 .. L + 1, i < j
        PROVE  to[j] < to[i]
    <3>1. j \in 2 .. L + 1
      BY <1>2, <2>3
    <3>2. CASE i = 1
      BY <1>1, <2>1, <2>2, <3>1, <3>2
    <3>3. CASE i \in 2 .. L + 1
      <4>1. i - 1 < j - 1
        BY <2>3, <3>1, <3>3
      <4> QED  BY <1>3, <2>1, <3>1, <3>3, <4>1
    <3> QED  BY <1>2, <3>2, <3>3
  <2>4. ASSUME NEW i \in 1 .. L + 1
        PROVE  new[i] = Rule(more[to[i]]) /\ Hash[more[to[i]].host] = b
    <3>1. CASE i = 1
      BY <1>1, <1>2, <1>4, <2>2, <3>1 DEF r
    <3>2. CASE i \in 2 .. L + 1
      BY <1>1, <1>2, <1>3, <2>1, <3>2
    <3> QED  BY <1>2, <3>1, <3>2
  <2>5. ASSUME NEW n \in 1 .. N + 1, Hash[more[n].host] = b
        PROVE  \E i \in 1 .. L + 1 : to[i] = n
    <3>1. CASE n = N + 1
      BY <1>2, <2>2, <3>1
    <3>2. CASE n \in 1 .. N
      <4>1. PICK i \in 1 .. L : place[i] = n
        BY <1>1, <1>3, <2>5, <3>2
      <4>2. i + 1 \in 2 .. L + 1 /\ (i + 1) - 1 = i /\ i + 1 \in 1 .. L + 1
        BY <1>2
      <4>3. to[i + 1] = n
        BY <2>1, <4>1, <4>2
      <4> QED  BY <4>2, <4>3
    <3> QED  BY <1>1, <3>1, <3>2
  <2>6. Filed(new, more, b)
    <3> DEFINE D == 1 .. L + 1   E == 1 .. N + 1
    <3>1. DOMAIN new = D /\ DOMAIN more = E /\ to \in [D -> E]
      BY <1>1, <1>2, <2>2
    <3>2. \A i, j \in D : i < j => to[j] < to[i]
      BY <2>3
    <3>3. \A i \in D : new[i] = Rule(more[to[i]]) /\ Hash[more[to[i]].host] = b
      BY <2>4
    <3>4. \A n \in E : Hash[more[n].host] = b => \E i \in D : to[i] = n
      BY <2>5
    <3> HIDE DEF D, E
    <3> QED  BY <3>1, <3>2, <3>3, <3>4, FiledBy
  <2> QED  BY <1>4, <2>6 DEF new, more, r
<1>5. CASE Hash[line.host] # b
  <2>1. place \in [1 .. L -> 1 .. N + 1] /\ \A i \in 1 .. L : place[i] \in 1 .. N
    BY <1>1, <1>2, <1>3
  <2>2. ASSUME NEW i \in 1 .. L
        PROVE  list[i] = Rule(more[place[i]]) /\ Hash[more[place[i]].host] = b
    BY <1>1, <1>3, <2>1
  <2>3. ASSUME NEW n \in 1 .. N + 1, Hash[more[n].host] = b
        PROVE  \E i \in 1 .. L : place[i] = n
    <3>1. n # N + 1
      BY <1>1, <1>5, <2>3
    <3>2. n \in 1 .. N
      BY <1>1, <3>1
    <3> QED  BY <1>1, <1>3, <2>3, <3>2
  <2>4. Filed(list, more, b)
    <3> DEFINE D == 1 .. L   E == 1 .. N + 1
    <3>1. DOMAIN list = D /\ DOMAIN more = E /\ place \in [D -> E]
      BY <1>1, <1>2, <2>1
    <3>2. \A i, j \in D : i < j => place[j] < place[i]
      BY <1>3
    <3>3. \A i \in D : list[i] = Rule(more[place[i]]) /\ Hash[more[place[i]].host] = b
      BY <2>2
    <3>4. \A n \in E : Hash[more[n].host] = b => \E i \in D : place[i] = n
      BY <2>3
    <3> HIDE DEF D, E
    <3> QED  BY <3>1, <3>2, <3>3, <3>4 DEF Filed
  <2> QED  BY <1>5, <2>4 DEF more
<1> QED  BY <1>4, <1>5

\* The rule a packet gets is that of the newest line that it asks for.
LEMMA NewestFound ==
  ASSUME NEW tab, NEW lines, Lines(lines), NEW k, NEW h, h = Regroup(k.host),
         k.content, None \notin {k.host, k.url},
         h \in Hosts => /\ Filed(tab[Hash[h]], lines, Hash[h])
                        /\ \E S : tab[Hash[h]] \in Seq(S)
  PROVE  /\ Asked(k, lines) # {} => LineOK(Newest(k, lines))
         /\ FindByHost(tab, h, k.referer) =
               IF Asked(k, lines) = {} THEN <<>> ELSE <<Rule(Newest(k, lines))>>
<1> DEFINE asked == {j \in DOMAIN lines : Asks(k, lines[j])}
<1>1. Asked(k, lines) = asked /\ Newest(k, lines) = lines[Max(asked)]
  BY DEF Asked, Newest
<1>2. /\ DOMAIN lines \subseteq Nat
      /\ \A n \in DOMAIN lines : LineOK(lines[n])
  BY DEF Lines
<1>3. \A n \in DOMAIN lines :
        Asks(k, lines[n]) => h \in Hosts /\ Hash[lines[n].host] = Hash[h]
  BY <1>2, CasesAssumption DEF Asks, LineOK
<1>4. CASE h \notin Hosts
  BY <1>1, <1>3, <1>4 DEF FindByHost
<1>5. CASE h \in Hosts
  <2> DEFINE b == Hash[h]   list == tab[b]
             found == {i \in DOMAIN list : HostMatches(list[i], h, k.referer)}
  <2>1. FindByHost(tab, h, k.referer) =
          IF found = {} THEN <<>> ELSE <<list[Min(found)]>>
    BY <1>5 DEF FindByHost, FirstOf
  <2>2. DOMAIN list \subseteq Nat
    BY <1>5
  <2> HIDE DEF b
  <2>3. PICK place \in [DOMAIN list -> DOMAIN lines] :
          /\ \A i, j \in DOMAIN list : i < j => place[j] < place[i]
          /\ \A i \in DOMAIN list : /\ list[i] = Rule(lines[place[i]])
                                    /\ Hash[lines[place[i]].host] = b
          /\ \A n \in DOMAIN lines :
                Hash[lines[n].host] = b => \E i \in DOMAIN list : place[i] = n
    BY <1>5 DEF Filed, b
  <2> HIDE DEF list
  <2>4. ASSUME NEW i \in DOMAIN list
        PROVE  i \in found <=> place[i] \in asked
    <3> DEFINE l == lines[place[i]]
    <3>1. list[i] = Rule(l) /\ Hash[l.host] = Hash[h]
      BY <2>3 DEF b
    <3> HIDE DEF l
    <3>2. Rule(l).host = l.host /\ Rule(l).except = l.except
      BY DEF Rule
    <3>3. HostMatches(list[i], h, k.referer) <=> Asks(k, l)
      BY <3>1, <3>2 DEF HostMatches, Asks
    <3> QED  BY <3>3 DEF l
  <2>5. ASSUME NEW n \in asked PROVE \E i \in found : place[i] = n
    <3>1. n \in DOMAIN lines /\ Hash[lines[n].host] = b
      BY <1>3 DEF b
    <3>2. PICK i \in DOMAIN list : place[i] = n
      BY <2>3, <3>1
    <3> QED  BY <2>4, <3>2
  <2>6. found \subseteq DOMAIN list /\ asked \subseteq DOMAIN lines
    OBVIOUS
  <2> HIDE DEF found, asked
  <2>7. CASE found = {}
    <3>1. asked = {}
      BY <2>5, <2>7
    <3> QED  BY <1>1, <2>1, <2>7, <3>1
  <2>8. CASE found # {}
    <3> DEFINE m == Min(found)
    <3>1. m \in found /\ \A i \in found : m <= i
      BY <2>2, <2>6, <2>8, MinOf
    <3> HIDE DEF m
    <3>2. place[m] \in asked
      BY <2>4, <2>6, <3>1
    <3>3. ASSUME NEW n \in asked PROVE n <= place[m]
      <4>1. PICK i \in found : place[i] = n
        BY <2>5
      <4>2. i = m \/ m < i
        BY <2>2, <2>6, <3>1
      <4>3. place[m] \in Nat /\ n \in Nat
        BY <1>2, <2>6, <3>2
      <4> QED  BY <2>3, <2>6, <3>1, <4>1, <4>2, <4>3
    <3>4. Max(asked) = place[m]
      BY <1>2, <2>6, <3>2, <3>3, MaxIs
    <3>5. list[m] = Rule(lines[place[m]]) /\ LineOK(lines[place[m]])
      BY <1>2, <2>3, <2>6, <3>1
    <3> QED  BY <1>1, <2>1, <2>8, <3>2, <3>4, <3>5 DEF m
  <2> QED  BY <2>7, <2>8
<1> QED  BY <1>4, <1>5

-----------------------------------------------------------------------------
(* What a rule says of a URL.                                               *)

\* The pairs of a rule are the source URLs of its line with their destinations.
LEMMA RuleIs ==
  ASSUME NEW line, LineOK(line)
  PROVE  /\ Len(line.surls) \in Nat /\ DOMAIN line.surls = 1 .. Len(line.surls)
         /\ DOMAIN Rule(line).map = 1 .. Len(line.surls)
         /\ Len(Rule(line).map) = Len(line.surls)
         /\ \A i \in 1 .. Len(line.surls) :
               /\ Rule(line).map[i].surl = line.surls[i]
               /\ Rule(line).map[i].durl = Dest(line, i)
         /\ Rule(line).type = OperFlag(line.op) /\ Rule(line).dhost = line.dhost
<1> DEFINE N == Len(line.surls)   M == Len(line.durls)
<1>1. /\ N \in Nat /\ DOMAIN line.surls = 1 .. N
      /\ M \in Nat /\ DOMAIN line.durls = 1 .. M
      /\ OperFlag(line.op) # "R" => N <= M
      /\ line.op = "F" => N = 1
  BY DEF LineOK, IsSequence
<1>2. Rule(line).type = OperFlag(line.op) /\ Rule(line).dhost = line.dhost
  BY DEF Rule
<1> HIDE DEF N, M
<1>3. CASE line.op = "F"
  <2>1. OperFlag(line.op) = "F"
    BY <1>3 DEF OperFlag
  <2>2. N = 1 /\ 1 \in 1 .. M
    BY <1>1, <1>3, <2>1
  <2> DEFINE pair == [surl |-> line.surls[1], durl |-> line.durls[1]]
  <2>3. Rule(line).map = <<pair>>
    BY <1>3 DEF Rule
  <2>4. pair.surl = line.surls[1] /\ pair.durl = Dest(line, 1)
    BY <1>1, <2>2 DEF Dest
  <2> HIDE DEF pair
  <2>5. DOMAIN <<pair>> = 1 .. 1 /\ Len(<<pair>>) = 1 /\ <<pair>>[1] = pair
    OBVIOUS
  <2>6. \A i \in 1 .. 1 : i = 1
    OBVIOUS
  <2> QED  BY <1>1, <1>2, <2>2, <2>3, <2>4, <2>5, <2>6 DEF N
<1>4. CASE line.op # "F"
  <2> DEFINE Pair(i) == [surl |-> line.surls[i],
                         durl |-> IF i \in DOMAIN line.durls THEN line.durls[i]
                                  ELSE None]
             map == [i \in 1 .. N |-> Pair(i)]
  <2>1. Rule(line).map = map
    BY <1>1, <1>4 DEF Rule, UrlMap
  <2>2. \A i \in 1 .. N : Pair(i).surl = line.surls[i] /\ Pair(i).durl = Dest(line, i)
    BY DEF Dest
  <2> HIDE DEF Pair
  <2>3. DOMAIN map = 1 .. N /\ \A i \in 1 .. N : map[i] = Pair(i)
    OBVIOUS
  <2>4. Len(map) = N
    BY <1>1
  <2> HIDE DEF map
  <2> QED  BY <1>1, <1>2, <2>1, <2>2, <2>3, <2>4 DEF N
<1> QED  BY <1>3, <1>4

\* The pair found is that of the first source URL in the URL.
LEMMA FirstPair ==
  ASSUME NEW line, LineOK(line), NEW k
  PROVE  FindByUrl(Rule(line), k.url) =
           IF FoundIn(k, line) = {} THEN <<>>
           ELSE <<Rule(line).map[Min(FoundIn(k, line))]>>
<1> DEFINE found == {i \in DOMAIN Rule(line).map :
                       Occurs(Rule(line).map[i].surl, k.url)}
<1>1. FindByUrl(Rule(line), k.url) =
        IF found = {} THEN <<>> ELSE <<Rule(line).map[Min(found)]>>
  BY DEF FindByUrl, FirstOf
<1>2. found = FoundIn(k, line)
  BY RuleIs DEF FoundIn
<1> QED  BY <1>1, <1>2

\* The exceptions asked are those of the line.
LEMMA ExceptIs ==
  ASSUME NEW line, LineOK(line), OperFlag(line.op) # "R", NEW k
  PROVE  ExceptUrl(Rule(line), k.url) <=> Spared(k, line)
<1>1. \A i \in DOMAIN line.surls : Dest(line, i) # None
  <2>1. /\ DOMAIN line.surls = 1 .. Len(line.surls) /\ Len(line.surls) \in Nat
        /\ DOMAIN line.durls = 1 .. Len(line.durls) /\ Len(line.durls) \in Nat
        /\ Len(line.surls) <= Len(line.durls)
    BY DEF LineOK, IsSequence
  <2>2. \A i \in DOMAIN line.durls : line.durls[i] # None
    BY DEF LineOK, ToSet
  <2> QED  BY <2>1, <2>2 DEF Dest
<1>2. ExceptUrl(Rule(line), k.url) <=>
        \E i \in DOMAIN Rule(line).map :
          /\ Rule(line).map[i].durl.except # None
          /\ Occurs(Rule(line).map[i].durl.except, k.url)
  BY DEF ExceptUrl, ToSet
<1> QED  BY <1>1, <1>2, RuleIs DEF Spared

\* The words of a destination, of which the first is its text.
LEMMA RawIs ==
  ASSUME NEW durl
  PROVE  /\ DOMAIN Raw(durl) \subseteq Nat \ {0} /\ 1 \in DOMAIN Raw(durl)
         /\ Raw(durl)[1] = durl.text /\ Len(Raw(durl)) \in Nat
<1>1. CASE durl.except = None
  <2>1. Raw(durl) = <<durl.text>>
    BY <1>1 DEF Raw
  <2> QED  BY <2>1
<1>2. CASE durl.except # None
  <2>1. Raw(durl) = <<durl.text, durl.except>>
    BY <1>2 DEF Raw
  <2> QED  BY <2>1
<1> QED  BY <1>1, <1>2

\* The request of a packet: the words of its URL are among its words.
LEMMA PayloadIs ==
  ASSUME NEW k, IsSequence(k.before), IsSequence(k.url), IsSequence(k.behind)
  PROVE  /\ \E S : Payload(k) \in Seq(S)
         /\ \A word : Occurs(word, k.url) => Occurs(word, Payload(k))
<1> DEFINE a == k.before   b == k.url   c == k.behind
           S == ToSet(a) \cup ToSet(b) \cup ToSet(c)
<1>1. a \in Seq(S) /\ b \in Seq(S) /\ c \in Seq(S)
  BY DEF IsSequence
<1>2. Payload(k) = a \o b \o c
  BY DEF Payload
<1> HIDE DEF a, b, c, S
<1>3. /\ a \o b \o c \in Seq(S)
      /\ \A i \in DOMAIN b : /\ Len(a) + i \in DOMAIN (a \o b \o c)
                             /\ (a \o b \o c)[Len(a) + i] = b[i]
  BY <1>1
<1> QED  BY <1>2, <1>3 DEF Occurs, b

\* Requests of length L with words in W that are being rewritten.
Rewritings(L, W) == [pos : 1 .. L + 1, words : [1 .. L -> W], beyond : BOOLEAN]

\* What one pair changes.
LEMMA WritePairIs ==
  ASSUME NEW L \in Nat, NEW W, NEW acc \in Rewritings(L, W), NEW pair,
         \A j \in DOMAIN Raw(pair.durl) : Raw(pair.durl)[j] \in W
  PROVE  /\ WritePair(acc, pair) \in Rewritings(L, W)
         /\ \/ /\ WritePair(acc, pair) = acc
               /\ \A m \in acc.pos .. L : acc.words[m] # pair.surl
            \/ \E i \in acc.pos .. L :
                  /\ acc.words[i] = pair.surl
                  /\ \A m \in acc.pos .. L : m < i => acc.words[m] # pair.surl
                  /\ WritePair(acc, pair).pos = i + 1
                  /\ \A m \in 1 .. L :
                        WritePair(acc, pair).words[m] =
                          IF m - i \in DOMAIN Raw(pair.durl)
                          THEN Raw(pair.durl)[m - i] ELSE acc.words[m]
<1>1. /\ acc.pos \in 1 .. L + 1 /\ acc.words \in [1 .. L -> W]
      /\ Len(acc.words) = L /\ DOMAIN acc.words = 1 .. L /\ acc.beyond \in BOOLEAN
  BY DEF Rewritings
<1> DEFINE raw == Raw(pair.durl)
           at == {i \in acc.pos .. L : acc.words[i] = pair.surl}
           m0 == Min(at)
           new == [j \in 1 .. L |->
                     IF j - m0 \in DOMAIN raw THEN raw[j - m0] ELSE acc.words[j]]
           more == acc.beyond \/ m0 + Len(raw) > L
<1>2. WritePair(acc, pair) =
        IF at = {} THEN acc ELSE [pos |-> m0 + 1, words |-> new, beyond |-> more]
  BY <1>1 DEF WritePair
<1>3. CASE at = {}
  BY <1>2, <1>3
<1>4. CASE at # {}
  <2>1. at \subseteq Nat /\ at \subseteq acc.pos .. L
    BY <1>1
  <2>2. m0 \in at /\ \A i \in at : m0 <= i
    <3> HIDE DEF at
    <3> QED  BY <1>4, <2>1, MinOf
  <2>3. m0 \in acc.pos .. L /\ acc.words[m0] = pair.surl
    BY <2>2
  <2>4. ASSUME NEW m \in acc.pos .. L, m < m0 PROVE acc.words[m] # pair.surl
    <3>1. m \notin at
      BY <1>1, <2>2, <2>3, <2>4
    <3> QED  BY <3>1
  <2>5. \A j \in DOMAIN raw : raw[j] \in W
    OBVIOUS
  <2> HIDE DEF m0, at, raw
  <2>6. /\ new \in [1 .. L -> W]
        /\ \A m \in 1 .. L :
              new[m] = IF m - m0 \in DOMAIN raw THEN raw[m - m0] ELSE acc.words[m]
    BY <1>1, <2>5
  <2>7. more \in BOOLEAN
    OBVIOUS
  <2> HIDE DEF new, more
  <2>8. WritePair(acc, pair) = [pos |-> m0 + 1, words |-> new, beyond |-> more]
    BY <1>2, <1>4
  <2>9. m0 + 1 \in 1 .. L + 1
    BY <1>1, <2>3
  <2>10. WritePair(acc, pair) \in Rewritings(L, W)
    BY <2>6, <2>7, <2>8, <2>9 DEF Rewritings
  <2>11. WritePair(acc, pair).pos = m0 + 1 /\ WritePair(acc, pair).words = new
    BY <2>8
  <2> QED  BY <2>3, <2>4, <2>6, <2>10, <2>11 DEF raw
<1> QED  BY <1>3, <1>4

\* A request is rewritten as its newest line says.
LEMMA RewriteRight ==
  ASSUME NEW line, LineOK(line), NEW k, FoundIn(k, line) # {},
         IsSequence(k.before), IsSequence(k.url), IsSequence(k.behind)
  PROVE  Rewritten(k, line, Rewrite(Rule(line), Payload(k)).words)
<1> DEFINE old == Payload(k)
           N == Len(line.surls)   L == Len(old)   map == Rule(line).map
           raw(i) == Raw(Dest(line, i))
           W == {old[i] : i \in 1 .. L} \cup
                UNION {{raw(i)[j] : j \in DOMAIN raw(i)} : i \in 1 .. N}
           V == Rewritings(L, W)
           start == [pos |-> 1, words |-> old, beyond |-> FALSE]
           Is(f) == f = [n \in 0 .. N |->
                          IF n = 0 THEN start ELSE WritePair(f[n - 1], map[n])]
           Run == CHOOSE f : Is(f)
           first == Min(InRequest(k, line))
           at == {i \in DOMAIN old : old[i] = line.surls[first]}
           place == Min(at)
<1>1. /\ N \in Nat /\ L \in Nat /\ DOMAIN line.surls = 1 .. N
      /\ DOMAIN old = 1 .. L /\ old \in [1 .. L -> W]
      /\ Len(map) = N
  <2>1. PICK S : old \in Seq(S)
    BY PayloadIs
  <2> HIDE DEF old
  <2>2. L \in Nat /\ DOMAIN old = 1 .. L /\ old \in [1 .. L -> S]
    BY <2>1
  <2> QED  BY <2>2, RuleIs
<1>2. \A i \in 1 .. N : /\ map[i].surl = line.surls[i] /\ Raw(map[i].durl) = raw(i)
                        /\ \A j \in DOMAIN raw(i) : raw(i)[j] \in W
                        /\ DOMAIN raw(i) \subseteq Nat \ {0} /\ 1 \in DOMAIN raw(i)
  <2> SUFFICES ASSUME NEW i \in 1 .. N
               PROVE  /\ map[i].surl = line.surls[i] /\ Raw(map[i].durl) = raw(i)
                      /\ \A j \in DOMAIN raw(i) : raw(i)[j] \in W
                      /\ DOMAIN raw(i) \subseteq Nat \ {0} /\ 1 \in DOMAIN raw(i)
    OBVIOUS
  <2>1. map[i].surl = line.surls[i] /\ Raw(map[i].durl) = raw(i)
    BY RuleIs
  <2>2. \A j \in DOMAIN raw(i) : raw(i)[j] \in W
    OBVIOUS
  <2> QED  BY <2>1, <2>2, RawIs
<1>3. Rewrite(Rule(line), old) = Run[N]
  BY <1>1 DEF Rewrite
<1>4. start \in V
  <2> HIDE DEF old
  <2> QED  BY <1>1 DEF Rewritings
<1>5. \A n \in 1 .. N : \A acc \in V : WritePair(acc, map[n]) \in V
  <2> SUFFICES ASSUME NEW n \in 1 .. N, NEW acc \in V
               PROVE  WritePair(acc, map[n]) \in V
    OBVIOUS
  <2>1. \A j \in DOMAIN Raw(map[n].durl) : Raw(map[n].durl)[j] \in W
    BY <1>2
  <2> HIDE DEF W, L, map
  <2> QED  BY <1>1, <2>1, WritePairIs
<1>6. /\ first \in 1 .. N /\ place \in 1 .. L /\ old[place] = line.surls[first]
      /\ \A n \in 1 .. N : n < first => \A i \in 1 .. L : old[i] # line.surls[n]
      /\ \A i \in 1 .. L : i < place => old[i] # line.surls[first]
  <2>1. InRequest(k, line) \subseteq 1 .. N /\ InRequest(k, line) # {}
    BY <1>1, PayloadIs DEF FoundIn, InRequest
  <2>2. first \in InRequest(k, line) /\ \A n \in InRequest(k, line) : first <= n
    <3>1. InRequest(k, line) \subseteq Nat
      BY <1>1, <2>1
    <3> QED  BY <2>1, <3>1, MinOf
  <2>3. \A n \in 1 .. N :
          n \in InRequest(k, line) <=> \E i \in 1 .. L : old[i] = line.surls[n]
    BY <1>1 DEF InRequest, Occurs
  <2> HIDE DEF old
  <2>4. at # {} /\ at \subseteq 1 .. L
    BY <1>1, <2>1, <2>2, <2>3
  <2>5. place \in at /\ \A i \in at : place <= i
    <3>1. at \subseteq Nat
      BY <1>1, <2>4
    <3> HIDE DEF at
    <3> QED  BY <2>4, <3>1, MinOf
  <2> HIDE DEF first, place
  <2>6. ASSUME NEW n \in 1 .. N, n < first
        PROVE  \A i \in 1 .. L : old[i] # line.surls[n]
    <3>1. n \notin InRequest(k, line)
      BY <1>1, <2>1, <2>2, <2>6
    <3> QED  BY <2>3, <3>1
  <2>7. ASSUME NEW i \in 1 .. L, i < place PROVE old[i] # line.surls[first]
    <3>1. i \notin at
      BY <1>1, <2>4, <2>5, <2>7
    <3> QED  BY <1>1, <3>1
  <2> QED  BY <1>1, <2>1, <2>2, <2>4, <2>5, <2>6, <2>7
<1> HIDE DEF old, N, L, map, W, V, raw, first, at, place
<1>7. \E f : Is(f)
  <2> DEFINE G == [p \in Nat \X V |->
                      IF p[1] \in 1 .. N THEN WritePair(p[2], map[p[1]]) ELSE p[2]]
  <2>1. \A n \in 1 .. N : \A x \in V : G[<<n, x>>] = WritePair(x, map[n])
    BY <1>1
  <2>2. G \in Makers(V)
    BY <1>5 DEF Makers
  <2> HIDE DEF G
  <2>3. PICK f \in [0 .. N -> V] :
          f[0] = start /\ \A n \in 1 .. N : f[n] = G[<<n, f[n - 1]>>]
    <3> HIDE DEF start
    <3>1. Made(V, start, G, N) # {}
      BY <1>1, <1>4, <2>2, Recursion
    <3> QED  BY <3>1 DEF Made
  <2>4. ASSUME NEW n \in 1 .. N PROVE f[n] = WritePair(f[n - 1], map[n])
    <3>1. n - 1 \in 0 .. N /\ f[n - 1] \in V
      BY <1>1, <2>3
    <3> QED  BY <2>1, <2>3, <3>1
  <2> HIDE DEF start
  <2> DEFINE h == [n \in 0 .. N |->
                     IF n = 0 THEN start ELSE WritePair(f[n - 1], map[n])]
  <2>5. \A n \in 0 .. N : f[n] = h[n]
    BY <1>1, <2>3, <2>4
  <2>6. f = [n \in 0 .. N |-> f[n]] /\ h = [n \in 0 .. N |-> h[n]]
    BY <2>3
  <2> HIDE DEF h
  <2>7. f = h
    BY <2>5, <2>6
  <2> QED  BY <2>7 DEF h
<1>8. Is(Run)
  <2> HIDE DEF Is
  <2> QED  BY <1>7
<1> HIDE DEF Run
<1>9. Run[0] = start /\ \A n \in 1 .. N : Run[n] = WritePair(Run[n - 1], map[n])
  <2>1. N \in Nat
    BY <1>1
  <2> HIDE DEF start, N, map
  <2>2. Run = [n \in 0 .. N |->
                 IF n = 0 THEN start ELSE WritePair(Run[n - 1], map[n])]
    BY <1>8
  <2>3. 0 \in 0 .. N /\ \A n \in 1 .. N : n \in 0 .. N /\ n # 0
    BY <2>1
  <2>4. \A n \in 0 .. N :
          Run[n] = IF n = 0 THEN start ELSE WritePair(Run[n - 1], map[n])
    BY <2>2, Zenon
  <2> QED  BY <2>3, <2>4, Zenon
<1> HIDE DEF Is
<1> DEFINE
      From(acc, m) == \E q \in 1 .. m - 1 : \E j \in 1 .. N :
                        /\ q < acc.pos /\ acc.words[q] = line.surls[j]
                        /\ m - q \in DOMAIN raw(j)
                        /\ acc.words[m] = raw(j)[m - q]
      Behind(acc) == \A m \in 1 .. L : acc.words[m] # old[m] => From(acc, m)
      Good(n, acc) ==
        /\ acc \in V
        /\ Behind(acc)
        /\ n < first => acc.pos = 1 /\ acc.words = old
        /\ ~(n < first) => /\ place < acc.pos
                           /\ place < L => acc.words[place + 1] = raw(first)[1]
      S == {n \in Nat : n <= N => Good(n, Run[n])}
<1>10. 0 \in S
  <2>1. start.pos = 1 /\ start.words = old
    OBVIOUS
  <2>2. 0 < first
    BY <1>1, <1>6
  <2> HIDE DEF start
  <2> QED  BY <1>4, <1>9, <2>1, <2>2
<1>11. ASSUME NEW n \in Nat, n \in S PROVE n + 1 \in S
  <2> SUFFICES ASSUME n + 1 <= N PROVE Good(n + 1, Run[n + 1])
    OBVIOUS
  <2> DEFINE acc == Run[n]   new == Run[n + 1]   pair == map[n + 1]
             dest == raw(n + 1)
             Hit(i) == /\ acc.words[i] = line.surls[n + 1]
                       /\ \A m \in acc.pos .. L :
                             m < i => acc.words[m] # line.surls[n + 1]
                       /\ new.pos = i + 1
                       /\ \A m \in 1 .. L :
                             new.words[m] = IF m - i \in DOMAIN dest THEN dest[m - i]
                                            ELSE acc.words[m]
  <2>1. Good(n, acc) /\ n + 1 \in 1 .. N /\ new = WritePair(acc, pair)
    <3>1. n + 1 \in 1 .. N /\ (n + 1) - 1 = n /\ n <= N
      BY <1>1
    <3> HIDE DEF Good
    <3> QED  BY <1>9, <1>11, <3>1
  <2>2. /\ pair.surl = line.surls[n + 1] /\ Raw(pair.durl) = dest
        /\ \A j \in DOMAIN dest : dest[j] \in W
        /\ DOMAIN dest \subseteq Nat \ {0} /\ 1 \in DOMAIN dest
    BY <1>2, <2>1
  <2>3. /\ acc.pos \in 1 .. L + 1 /\ acc.words \in [1 .. L -> W] /\ new \in V
        /\ \/ new = acc /\ \A m \in acc.pos .. L : acc.words[m] # line.surls[n + 1]
           \/ \E i \in acc.pos .. L : Hit(i)
    <3> HIDE DEF acc, new, pair, dest
    <3>1. acc \in Rewritings(L, W)
      BY <2>1 DEF V
    <3>2. acc.pos \in 1 .. L + 1 /\ acc.words \in [1 .. L -> W]
      BY <3>1 DEF Rewritings
    <3>3. \A j \in DOMAIN Raw(pair.durl) : Raw(pair.durl)[j] \in W
      BY <2>2
    <3> DEFINE result == WritePair(acc, pair)
    <3>4. /\ result \in Rewritings(L, W)
          /\ \/ result = acc /\ \A m \in acc.pos .. L : acc.words[m] # pair.surl
             \/ \E i \in acc.pos .. L :
                   /\ acc.words[i] = pair.surl
                   /\ \A m \in acc.pos .. L : m < i => acc.words[m] # pair.surl
                   /\ result.pos = i + 1
                   /\ \A m \in 1 .. L :
                        result.words[m] = IF m - i \in DOMAIN Raw(pair.durl)
                                          THEN Raw(pair.durl)[m - i]
                                          ELSE acc.words[m]
      BY <1>1, <3>1, <3>3, WritePairIs
    <3>5. new = result
      BY <2>1
    <3> HIDE DEF result
    <3> QED  BY <2>2, <3>2, <3>4, <3>5 DEF V
  <2>4. CASE new = acc /\ \A m \in acc.pos .. L : acc.words[m] # line.surls[n + 1]
    <3> HIDE DEF acc, new, pair, dest
    <3>1. n + 1 # first
      <4> SUFFICES ASSUME n + 1 = first PROVE FALSE
        OBVIOUS
      <4>1. acc.pos = 1 /\ acc.words = old
        BY <2>1
      <4> QED  BY <1>6, <2>4, <4>1
    <3>2. n < first <=> n + 1 < first
      BY <1>1, <1>6, <3>1
    <3>3. new \in V /\ new = acc
      BY <2>3, <2>4
    <3>4. Good(n, new)
      BY <2>1, <3>3
    <3> QED  BY <3>2, <3>4 DEF new
  <2>5. CASE \E i \in acc.pos .. L : Hit(i)
    <3> HIDE DEF acc, new, pair, dest
    <3>1. PICK i \in acc.pos .. L : Hit(i)
      BY <2>5
    <3>2. i \in 1 .. L /\ acc.pos <= i
      BY <1>1, <2>3
    <3>3. \A m \in 1 .. i : new.words[m] = acc.words[m]
      <4> SUFFICES ASSUME NEW m \in 1 .. i PROVE new.words[m] = acc.words[m]
        OBVIOUS
      <4>1. m \in 1 .. L /\ m - i \notin Nat \ {0}
        BY <1>1, <3>2
      <4> QED  BY <2>2, <3>1, <4>1
    <3>4. ASSUME NEW m \in 1 .. L, new.words[m] # old[m] PROVE From(new, m)
      <4>1. CASE m - i \in DOMAIN dest
        <5>1. i \in 1 .. m - 1 /\ i < new.pos
          BY <2>2, <3>1, <3>2, <4>1
        <5>2. new.words[i] = line.surls[n + 1] /\ new.words[m] = dest[m - i]
          BY <3>1, <3>2, <3>3, <4>1
        <5> QED  BY <2>1, <4>1, <5>1, <5>2 DEF dest
      <4>2. CASE m - i \notin DOMAIN dest
        <5>1. acc.words[m] # old[m] /\ new.words[m] = acc.words[m]
          BY <3>1, <3>4, <4>2
        <5>2. PICK q \in 1 .. m - 1 : \E j \in 1 .. N :
                /\ q < acc.pos /\ acc.words[q] = line.surls[j]
                /\ m - q \in DOMAIN raw(j) /\ acc.words[m] = raw(j)[m - q]
          BY <2>1, <5>1
        <5>3. q < acc.pos /\ q \in 1 .. i /\ q < i + 1
          BY <2>3, <3>2, <5>2
        <5>4. q < new.pos /\ new.words[q] = acc.words[q]
          BY <3>1, <3>3, <5>3
        <5> QED  BY <5>1, <5>2, <5>4
      <4> QED  BY <4>1, <4>2
    <3>5. ~(n + 1 < first)
      <4> SUFFICES ASSUME n + 1 < first PROVE FALSE
        OBVIOUS
      <4>1. n < first
        BY <1>1, <1>6
      <4> QED  BY <1>6, <2>1, <3>1, <3>2, <4>1
    <3>6. place < i + 1 /\ (place < L => new.words[place + 1] = raw(first)[1])
      <4>1. CASE n < first
        <5>1. n + 1 = first /\ acc.pos = 1 /\ acc.words = old
          BY <1>1, <1>6, <2>1, <3>5, <4>1
        <5>2. i = place
          <6>1. ~(i < place)
            BY <1>6, <3>1, <3>2, <5>1
          <6>2. ~(place < i)
            BY <1>1, <1>6, <3>1, <3>2, <5>1
          <6> QED  BY <1>1, <1>6, <3>2, <6>1, <6>2
        <5>3. place < L => place + 1 \in 1 .. L /\ (place + 1) - place = 1
          BY <1>1, <1>6
        <5>4. dest = raw(first)
          BY <5>1 DEF dest
        <5>5. place < L => new.words[place + 1] = dest[1]
          BY <2>2, <3>1, <5>2, <5>3
        <5> QED  BY <1>1, <1>6, <5>2, <5>4, <5>5
      <4>2. CASE ~(n < first)
        <5>1. place < acc.pos /\ (place < L => acc.words[place + 1] = raw(first)[1])
          BY <2>1, <4>2
        <5>2. place < i + 1 /\ place + 1 \in 1 .. i
          BY <1>1, <1>6, <2>3, <3>2, <5>1
        <5> QED  BY <3>3, <5>1, <5>2
      <4> QED  BY <4>1, <4>2
    <3>7. Behind(new)
      <4> HIDE DEF From
      <4> QED  BY <3>4
    <3>8. new \in V /\ place < new.pos
      BY <2>3, <3>1, <3>6
    <3> HIDE DEF Behind
    <3> QED  BY <3>5, <3>6, <3>7, <3>8 DEF new
  <2> HIDE DEF Good, Hit
  <2> QED  BY <2>3, <2>4, <2>5
<1> HIDE DEF S
<1>12. \A n \in Nat : n \in S
  BY <1>10, <1>11, Induction
<1> DEFINE words == Run[N].words
<1>13. Good(N, Run[N])
  BY <1>1, <1>12 DEF S
<1>14. ~(N < first)
  BY <1>1, <1>6
<1>15. /\ words \in [1 .. L -> W] /\ Behind(Run[N])
       /\ place < L => words[place + 1] = raw(first)[1]
  BY <1>13, <1>14 DEF V, Rewritings
<1>16. ASSUME NEW i \in 1 .. L, words[i] # old[i]
       PROVE  \E m \in 1 .. i - 1 : \E j \in DOMAIN line.surls :
                 /\ words[m] = line.surls[j]
                 /\ i - m \in DOMAIN Raw(Dest(line, j))
                 /\ words[i] = Raw(Dest(line, j))[i - m]
  BY <1>1, <1>15, <1>16 DEF raw
<1> HIDE DEF words
<1>17. Len(words) = L /\ DOMAIN words = 1 .. L
  BY <1>1, <1>15
<1>18. raw(first)[1] = Dest(line, first).text
  BY RawIs DEF raw
<1>19. Rewritten(k, line, words)
  BY <1>15, <1>16, <1>17, <1>18 DEF Rewritten, old, first, place, at, L
<1> QED  BY <1>3, <1>19 DEF words, old

-----------------------------------------------------------------------------
(* What is stored: lines, rules and packets.                                *)

Buffers == {"host", "url", "referer", "location"}

\* A packet whose URL is found has words before and behind it.
Parted(k) ==
    k.url # None => \A part \in {k.before, k.url, k.behind} : IsSequence(part)

Shaped ==
    /\ DOMAIN pkt = Cpus /\ DOMAIN out = Cpus /\ DOMAIN cell = Buffers
    /\ seen \in [Cpus -> Nat] /\ mixed \in [Cpus -> BOOLEAN]
    /\ \A k \in coming : Parted(k)

\* A CPU leaves what belongs to the others, and signs what it writes.
LEMMA CpuFrame ==
  ASSUME Shaped, NEW p \in Cpus, Receive(p) \/ Hook(p)
  PROVE  /\ Shaped'
         /\ \A q \in Cpus \ {p} : /\ pkt'[q] = pkt[q] /\ out'[q] = out[q]
                                  /\ seen'[q] = seen[q] /\ mixed'[q] = mixed[q]
         /\ \A c \in Buffers : cell'[c] = cell[c] \/ cell'[c].by = p
<1> USE DEF Shaped, Buffers
<1>1. CASE Receive(p)
  BY <1>1 DEF Receive
<1>2. CASE CopyHost(p) \/ CopyUrl(p) \/ CopyReferer(p)
  BY <1>2 DEF CopyHost, CopyUrl, CopyReferer, Copy, Fill
<1>3. CASE RegroupHost(p)
  BY <1>3 DEF RegroupHost, Reads, Fill
<1>4. CASE LockTable(p) \/ UnlockAccept(p) \/ UnlockTable(p)
  BY <1>4 DEF LockTable, UnlockAccept, UnlockTable, hook
<1>5. CASE FindHost(p)
  <2>1. Len(added) \in Nat
    OBVIOUS
  <2> QED  BY <1>5 DEF FindHost, Reads
<1>6. CASE FindUrl(p)
  BY <1>6 DEF FindUrl, Reads
<1>7. CASE Locate(p)
  BY <1>7 DEF Locate, Fill
<1>8. CASE AskException(p)
  BY <1>8 DEF AskException, Reads
<1>9. CASE Modify(p)
  BY <1>9 DEF Modify
<1>10. CASE Send(p)
  BY <1>10 DEF Send, Reads
<1>11. CASE SendFails(p)
  BY <1>11 DEF SendFails
<1>12. CASE Overrun(p) \/ NoAnswer(p)
  BY <1>12 DEF Overrun, NoAnswer, Oops, hook
<1>13. CASE Return(p)
  BY <1>13 DEF Return
<1> QED
  BY <1>1, <1>2, <1>3, <1>4, <1>5, <1>6, <1>7, <1>8, <1>9, <1>10, <1>11, <1>12,
     <1>13 DEF Hook

\* The rules are those of the lines added.
Tabled ==
    /\ Lines(added) /\ DOMAIN table = Buckets
    /\ \A b \in Buckets : /\ \E S : table[b] \in Seq(S)
                          /\ Filed(table[b], added, b)

\* What the writers have yet to write, have written and are about to add.
Stored ==
    /\ Scripted
    /\ \A i \in DOMAIN text : LineOK(text[i])
    /\ \A w \in Writers : pc[w] \in {"add", "link"} =>
          \/ node[w] = <<>>
          \/ \E line : LineOK(line) /\ node[w] = <<Rule(line), line>>

-----------------------------------------------------------------------------
(* Lines go from the writers to the table.                                  *)

\* What a step of a writer does to the lines.
LEMMA WriterMoves ==
  ASSUME Typed, Scripted, NEW w \in Writers, BeginWrite(w) \/ Write(w)
  PROVE  /\ \A i \in DOMAIN text' :
               \/ i \in DOMAIN text /\ text'[i] = text[i]
               \/ pc[w] # "idle" /\ text'[i] \in ToSet(Writing(w))
         /\ \/ pc'[w] \notin {"add", "link"}
            \/ pc[w] = "add" /\ node'[w] = node[w]
            \/ node'[w] = IF LineThere = {} THEN <<>>
                          ELSE <<Rule(text[index + 1]), text[index + 1]>>
         /\ \/ table' = table /\ added' = added
            \/ /\ pc[w] = "link" /\ node[w] # <<>>
               /\ table' = Add(table, node[w][1])
               /\ added' = Append(added, node[w][2])
<1>1. w \in DOMAIN pc /\ w \in DOMAIN node /\ index \in Nat
  BY DEF Typed, Actors, Scripted
<1>2. pc[w] # "idle" => Lines(Writing(w))
  BY FirstWrite DEF Scripted, Writing
<1> USE DEF Go, Finish
<1>3. CASE BeginWrite(w)
  <2>1. \A i \in DOMAIN text' : i \in DOMAIN text /\ text'[i] = text[i]
    BY <1>3 DEF BeginWrite, Restrict
  <2> QED  BY <1>1, <1>3, <2>1 DEF BeginWrite
<1>4. CASE CopyLines(w)
  <2>1. pc[w] = "copy" /\ text' = Put(Writing(w))
    BY <1>4 DEF CopyLines
  <2>2. \A i \in DOMAIN text' :
           \/ i \in DOMAIN text /\ text'[i] = text[i]
           \/ text'[i] \in ToSet(Writing(w))
    BY <1>1, <1>2, <2>1, PutAmong
  <2> QED  BY <1>1, <1>4, <2>1, <2>2 DEF CopyLines
<1>5. CASE CopyFails(w)
  <2>1. pc[w] = "copy"
    BY <1>5 DEF CopyFails
  <2>2. \A i \in DOMAIN text' :
           \/ i \in DOMAIN text /\ text'[i] = text[i]
           \/ text'[i] \in ToSet(Writing(w))
    BY <1>1, <1>2, <1>5, <2>1, FailPuts
  <2> QED  BY <1>1, <1>5, <2>1, <2>2 DEF CopyFails
<1>6. CASE ParseFails(w)
  BY <1>1, <1>6 DEF ParseFails
<1>7. CASE ParseLine(w)
  BY <1>1, <1>7 DEF ParseLine, write
<1>8. CASE LockToAdd(w)
  BY <1>1, <1>8 DEF LockToAdd, hook, write
<1>9. CASE AddRule(w)
  BY <1>1, <1>9 DEF AddRule, write
<1>10. CASE Advance(w)
  BY <1>1, <1>10 DEF Advance
<1> QED  BY <1>3, <1>4, <1>5, <1>6, <1>7, <1>8, <1>9, <1>10 DEF Write

\* A line more in the table.
LEMMA TableJoins ==
  ASSUME Tabled, NEW line, LineOK(line),
         table' = Add(table, Rule(line)), added' = Append(added, line)
  PROVE  Tabled'
<1>1. Lines(added')
  BY LinesJoin DEF Tabled
<1>2. DOMAIN table' = Buckets
  BY DEF Add, Tabled
<1>3. Rule(line).host = line.host
  BY DEF Rule
<1>4. ASSUME NEW b \in Buckets
      PROVE  (\E S : table'[b] \in Seq(S)) /\ Filed(table'[b], added', b)
  <2>1. PICK S : table[b] \in Seq(S)
    BY DEF Tabled
  <2>2. table'[b] = IF Hash[line.host] = b THEN <<Rule(line)>> \o table[b]
                    ELSE table[b]
    BY <1>3 DEF Add, Tabled
  <2>3. Filed(table'[b], added', b)
    BY <2>1, <2>2, FiledJoins DEF Tabled
  <2> DEFINE r == Rule(line)   T == S \cup {r}
  <2>4. table[b] \in Seq(T) /\ r \in T
    BY <2>1
  <2> HIDE DEF r, T
  <2>5. table[b] \in Seq(T) /\ <<r>> \o table[b] \in Seq(T)
    BY <2>4
  <2>6. table'[b] \in Seq(T)
    BY <2>2, <2>5 DEF r
  <2> QED  BY <2>3, <2>6
<1> QED  BY <1>1, <1>2, <1>4 DEF Tabled

\* A writer keeps the lines in order.
LEMMA WriterStores ==
  ASSUME Typed, Stored, Tabled, NEW w \in Writers, BeginWrite(w) \/ Write(w)
  PROVE  Stored' /\ Tabled'
<1>1. OnlyFor(w)
  BY WriterSteps
<1>2. \A v \in Writers \ {w} : pc'[v] = pc[v] /\ node'[v] = node[v]
  BY <1>1 DEF OnlyFor, Actors
<1>3. Scripted'
  BY ScriptsKept DEF Stored
<1>4. \A i \in DOMAIN text' : LineOK(text'[i])
  <2>1. pc[w] # "idle" => Lines(Writing(w))
    BY FirstWrite DEF Stored, Scripted, Writing
  <2> QED  BY <2>1, WriterMoves, LinesAre DEF Stored
<1>5. \A v \in Writers : pc'[v] \in {"add", "link"} =>
          \/ node'[v] = <<>>
          \/ \E line : LineOK(line) /\ node'[v] = <<Rule(line), line>>
  <2>1. ASSUME NEW v \in Writers, pc'[v] \in {"add", "link"}
        PROVE  \/ node'[v] = <<>>
               \/ \E line : LineOK(line) /\ node'[v] = <<Rule(line), line>>
    <3>1. CASE v # w
      BY <1>2, <2>1, <3>1 DEF Stored
    <3>2. CASE v = w /\ pc[w] = "add" /\ node'[w] = node[w]
      BY <3>2 DEF Stored
    <3>3. CASE /\ v = w
               /\ node'[w] = IF LineThere = {} THEN <<>>
                             ELSE <<Rule(text[index + 1]), text[index + 1]>>
      <4>1. LineThere # {} => LineOK(text[index + 1])
        BY ThereIs DEF Stored
      <4> QED  BY <3>3, <4>1
    <3> QED  BY <2>1, <3>1, <3>2, <3>3, WriterMoves DEF Stored
  <2> QED  BY <2>1
<1>6. Stored'
  BY <1>3, <1>4, <1>5 DEF Stored
<1>7. Tabled'
  <2>1. CASE table' = table /\ added' = added
    BY <2>1 DEF Tabled
  <2>2. CASE /\ pc[w] = "link" /\ node[w] # <<>>
             /\ table' = Add(table, node[w][1])
             /\ added' = Append(added, node[w][2])
    <3>1. PICK line : LineOK(line) /\ node[w] = <<Rule(line), line>>
      BY <2>2 DEF Stored
    <3>2. table' = Add(table, Rule(line)) /\ added' = Append(added, line)
      BY <2>2, <3>1
    <3> QED  BY <3>1, <3>2, TableJoins
  <2> QED  BY <2>1, <2>2, WriterMoves DEF Stored
<1> QED  BY <1>6, <1>7

\* The hook does not touch them.
LEMMA CpuStores ==
  ASSUME Typed, Stored, Tabled, NEW p \in Cpus, Receive(p) \/ Hook(p)
  PROVE  Stored' /\ Tabled'
<1>1. UNCHANGED <<table, added, script, text, index>> /\ OnlyFor(p)
  BY CpuSteps DEF write
<1>2. \A v \in Writers : pc'[v] = pc[v] /\ node'[v] = node[v]
  BY <1>1, RulesAssumption DEF OnlyFor, Actors
<1>3. Scripted'
  BY <1>1, <1>2, ScriptsStay DEF Stored
<1> QED  BY <1>1, <1>2, <1>3 DEF Stored, Tabled

\* Nothing is filed in an empty table.
LEMMA NoneTabled == table = NoRules /\ added = <<>> => Tabled
<1> SUFFICES ASSUME table = NoRules, added = <<>> PROVE Tabled
  OBVIOUS
<1>1. \A b \in Buckets : table[b] = <<>>
  BY DEF NoRules
<1>2. DOMAIN table = Buckets
  BY DEF NoRules
<1>3. ASSUME NEW b PROVE Filed(<<>>, <<>>, b)
  <2>1. /\ DOMAIN << >> = {}
        /\ << >> \in [{} -> {}]
    OBVIOUS
  <2> QED  BY <2>1, FiledBy
<1>4. <<>> \in Seq({}) /\ Lines(added)
  BY DEF Lines
<1> QED  BY <1>1, <1>2, <1>3, <1>4 DEF Tabled

\* Unloading forgets the lines and the rules together.
LEMMA ModuleStores ==
  ASSUME Typed, Stored, Tabled, Module
  PROVE  Stored' /\ Tabled'
<1>1. UNCHANGED <<pc, node, script>>
  BY ModuleSteps
<1>2. Scripted'
  BY <1>1, ModuleSteps, ScriptsStay DEF Stored
<1>3. CASE UNCHANGED <<table, added, text, index>>
  BY <1>1, <1>2, <1>3 DEF Stored, Tabled
<1>4. CASE /\ table' = NoRules /\ added' = <<>> /\ text' = NoText
           /\ \A w \in Writers : pc[w] = "idle"
  <2>1. Tabled'
    <3>1. (table = NoRules /\ added = <<>>)' => Tabled'
      BY NoneTabled, PTL
    <3> QED  BY <1>4, <3>1 DEF NoRules
  <2>2. DOMAIN text' = {}
    BY <1>4 DEF NoText
  <2>3. Stored'
    BY <1>1, <1>2, <1>4, <2>2 DEF Stored
  <2> QED  BY <2>1, <2>3
<1> QED  BY <1>3, <1>4, ModuleSteps

-----------------------------------------------------------------------------
(* The judgement of a packet.                                               *)

\* What the buffer for the answer should hold for a rule and its pair.
Location(n) == IF n[2].durl = None THEN None ELSE <<n[1].dhost, n[2].durl>>

\* What buffer c holds if a CPU wrote to it last.
Holds(p, c, value) == cell[c].by = p => cell[c].text = value

\* The buffers as long as a CPU needs them.
Fields(p) ==
    /\ pc[p] \in {"url", "referer", "regroup"} => Holds(p, "host", pkt[p].host)
    /\ pc[p] \in {"lock", "find"} => Holds(p, "host", Regroup(pkt[p].host))
    /\ pc[p] \in {"referer", "regroup", "lock", "find", "map", "locate", "unlock",
                  "except"} => Holds(p, "url", pkt[p].url)
    /\ pc[p] \in {"regroup", "lock", "find"} => Holds(p, "referer", pkt[p].referer)
    /\ pc[p] \in {"unlock", "send"} /\ node[p][1].type = "R" =>
          Holds(p, "location", Location(node[p]))

\* What is known of a packet that has come so far.
Known(where, k) ==
    /\ where # "done" => k.content
    /\ where \notin {"done", "host"} => k.host # None
    /\ where \notin {"done", "host", "url"} => k.url # None
    /\ Parted(k)

\* The rule, and then the pair, of a CPU that goes by a line.
Chosen(where, k, line, n) ==
    /\ LineOK(line)
    /\ n[1] = Rule(line)
    /\ where = "map" => n = <<Rule(line)>>
    /\ where # "map" => /\ FoundIn(k, line) # {}
                        /\ n[2] = Rule(line).map[Min(FoundIn(k, line))]
    /\ where = "locate" => OperFlag(line.op) = "R"
    /\ where = "modify" => OperFlag(line.op) = "M"
    /\ where = "except" => OperFlag(line.op) \notin {"R", "M"}
    /\ where = "send" => /\ OperFlag(line.op) # "M"
                         /\ OperFlag(line.op) # "R" => ~Spared(k, line)

\* Where a CPU may be with a packet, given the lines it has seen.
Goes(where, k, lines, n, result) ==
    /\ where = "accept" =>
          Asked(k, lines) = {} \/ FoundIn(k, Newest(k, lines)) = {}
    /\ where \in {"map", "locate", "unlock", "except", "modify", "send"} =>
          Asked(k, lines) # {} /\ Chosen(where, k, Newest(k, lines), n)
    /\ where = "done" => RightFor(k, lines, result)

Sees(p) == SubSeq(added, 1, seen[p])

Judge(p) ==
    /\ seen[p] <= Len(added)
    /\ pc[p] = "idle" => seen[p] = 0
    /\ pc[p] # "done" => out[p] = Accept
    /\ pc[p] # "idle" => Known(pc[p], pkt[p])
    /\ pc[p] # "idle" /\ ~mixed[p] =>
          Fields(p) /\ Goes(pc[p], pkt[p], Sees(p), node[p], out[p])

JInv == LInv /\ Shaped /\ Stored /\ Tabled /\ \A p \in Cpus : Judge(p)

\* A line more is not among those seen before.
LEMMA SeenBefore ==
  ASSUME NEW lines, Lines(lines), NEW line, NEW n \in Nat, n <= Len(lines)
  PROVE  /\ n <= Len(Append(lines, line))
         /\ SubSeq(Append(lines, line), 1, n) = SubSeq(lines, 1, n)
<1>1. PICK S : lines \in Seq(S)
  BY DEF Lines
<1> DEFINE T == S \cup {line}   more == Append(lines, line)
<1>2. lines \in Seq(T) /\ line \in T
  BY <1>1
<1> HIDE DEF T
<1>3. /\ more \in Seq(T) /\ Len(more) = Len(lines) + 1 /\ Len(lines) \in Nat
      /\ \A i \in 1 .. Len(lines) : more[i] = lines[i]
  BY <1>2
<1> HIDE DEF more
<1>4. n <= Len(more)
  BY <1>3
<1>5. \A i \in 1 .. n : more[i] = lines[i]
  BY <1>3
<1>6. /\ SubSeq(more, 1, n) = [i \in 1 .. n |-> more[i]]
      /\ SubSeq(lines, 1, n) = [i \in 1 .. n |-> lines[i]]
  BY <1>2, <1>3
<1> QED  BY <1>4, <1>5, <1>6 DEF more

\* All lines are those up to the last.
LEMMA SeenAll ==
  ASSUME NEW lines, Lines(lines)
  PROVE  Len(lines) \in Nat /\ SubSeq(lines, 1, Len(lines)) = lines
  BY DEF Lines

\* What others do changes nothing for a CPU.
LEMMA JudgeKept ==
  ASSUME JInv, NEW p \in Cpus,
         pc'[p] = pc[p], node'[p] = node[p], pkt'[p] = pkt[p], out'[p] = out[p],
         seen'[p] = seen[p], mixed'[p] = mixed[p],
         \A c \in Buffers : cell'[c] = cell[c] \/ cell'[c].by # p,
         added' = added \/ \E line : added' = Append(added, line)
  PROVE  Judge(p)'
<1>1. Judge(p) /\ Lines(added) /\ seen[p] \in Nat
  BY DEF JInv, Tabled, Shaped
<1>2. seen'[p] <= Len(added') /\ Sees(p)' = Sees(p)
  <2>1. CASE added' = added
    BY <1>1, <2>1 DEF Judge, Sees
  <2>2. CASE \E line : added' = Append(added, line)
    <3>1. PICK line : added' = Append(added, line)
      BY <2>2
    <3>2. seen[p] <= Len(added)
      BY <1>1 DEF Judge
    <3> QED  BY <1>1, <3>1, <3>2, SeenBefore DEF Sees
  <2> QED  BY <2>1, <2>2
<1>4. Fields(p) => Fields(p)'
  <2>1. ASSUME NEW c \in Buffers, NEW value
        PROVE  Holds(p, c, value) /\ cell'[c].by = p => cell'[c].text = value
    BY DEF Holds
  <2> QED  BY <2>1 DEF Fields, Holds, Buffers
<1>5. Goes(pc[p], pkt[p], Sees(p), node[p], out[p]) =>
        Goes(pc[p], pkt[p], Sees(p), node[p], out[p])'
  BY <1>2
<1> QED  BY <1>1, <1>2, <1>4, <1>5 DEF Judge

\* A packet nobody asks for is accepted.
LEMMA NobodyAsks ==
  ASSUME NEW k, NEW lines, ~k.content \/ k.host = None \/ k.url = None
  PROVE  RightFor(k, lines, Accept)
  BY DEF RightFor, Asked

\* A CPU judges as it should: from the packet to the search.
LEMMA JudgeBegins ==
  ASSUME JInv, NEW p \in Cpus,
         \/ Receive(p) \/ CopyHost(p) \/ CopyUrl(p) \/ CopyReferer(p)
         \/ RegroupHost(p) \/ LockTable(p)
  PROVE  Judge(p)'
<1>1. /\ Judge(p) /\ p \in DOMAIN pc /\ p \in DOMAIN node
      /\ p \in DOMAIN pkt /\ p \in DOMAIN out /\ p \in DOMAIN seen
      /\ p \in DOMAIN mixed /\ mixed[p] \in BOOLEAN /\ DOMAIN cell = Buffers
  BY DEF JInv, LInv, Typed, Actors, Shaped
<1>2. added' = added
  BY CpuSteps DEF JInv, LInv, Hook
<1>3. CASE Receive(p)
  <2>1. /\ pc[p] = "idle" /\ UNCHANGED <<cell, node, out, seen, mixed>>
        /\ \E k \in coming : /\ pkt' = [pkt EXCEPT ![p] = k]
                             /\ pc' = [pc EXCEPT ![p] = IF k.content THEN "host"
                                                        ELSE "done"]
    BY <1>3 DEF Receive, Go
  <2>2. PICK k \in coming : /\ pkt' = [pkt EXCEPT ![p] = k]
                            /\ pc' = [pc EXCEPT ![p] = IF k.content THEN "host"
                                                       ELSE "done"]
    BY <2>1
  <2>3. pkt'[p] = k /\ pc'[p] = IF k.content THEN "host" ELSE "done"
    BY <1>1, <2>2
  <2>4. Parted(k)
    BY DEF JInv, Shaped
  <2>5. Known(pc'[p], pkt'[p])
    BY <2>3, <2>4 DEF Known
  <2>6. Fields(p)'
    BY <2>3 DEF Fields
  <2>7. out'[p] = Accept
    BY <1>1, <2>1 DEF Judge
  <2>8. Goes(pc'[p], pkt'[p], Sees(p)', node'[p], out'[p])
    BY <2>3, <2>7, NobodyAsks DEF Goes
  <2> QED  BY <1>1, <1>2, <2>1, <2>3, <2>5, <2>6, <2>7, <2>8 DEF Judge
<1>4. CASE CopyHost(p) \/ CopyUrl(p) \/ CopyReferer(p)
  <2>1. /\ UNCHANGED <<node, out, seen, mixed, pkt>> /\ pc[p] # "done" /\ pc[p] # "idle"
    BY <1>4 DEF CopyHost, CopyUrl, CopyReferer, Copy
  <2> DEFINE k == pkt[p]
  <2>2. /\ seen[p] <= Len(added) /\ Known(pc[p], k) /\ out[p] = Accept
    BY <1>1, <2>1 DEF Judge
  <2>3. CASE CopyHost(p)
    <3>1. /\ pc'[p] = IF k.host = None THEN "done" ELSE "url"
          /\ cell'["host"].text = k.host /\ pc[p] = "host"
      BY <1>1, <2>3 DEF CopyHost, Copy, Fill, Go, Buffers
    <3>2. Known(pc'[p], k)
      BY <2>2, <3>1 DEF Known
    <3>3. Fields(p)'
      BY <2>1, <3>1 DEF Fields, Holds
    <3>4. Goes(pc'[p], k, Sees(p)', node'[p], out'[p])
      BY <2>1, <2>2, <3>1, NobodyAsks DEF Goes
    <3> QED  BY <1>2, <2>1, <2>2, <3>1, <3>2, <3>3, <3>4 DEF Judge
  <2>4. CASE CopyUrl(p)
    <3>1. /\ pc'[p] = IF k.url = None THEN "done" ELSE "referer"
          /\ cell'["url"].text = k.url /\ cell'["host"] = cell["host"]
          /\ pc[p] = "url"
      BY <1>1, <2>4 DEF CopyUrl, Copy, Fill, Go, Buffers
    <3>2. Known(pc'[p], k)
      BY <2>2, <3>1 DEF Known
    <3>3. ~mixed[p] => Fields(p)'
      BY <1>1, <2>1, <3>1 DEF Fields, Holds, Judge
    <3>4. Goes(pc'[p], k, Sees(p)', node'[p], out'[p])
      BY <2>1, <2>2, <3>1, NobodyAsks DEF Goes
    <3> QED  BY <1>2, <2>1, <2>2, <3>1, <3>2, <3>3, <3>4 DEF Judge
  <2>5. CASE CopyReferer(p)
    <3>1. /\ pc'[p] = "regroup" /\ cell'["referer"].text = k.referer
          /\ cell'["host"] = cell["host"] /\ cell'["url"] = cell["url"]
          /\ pc[p] = "referer"
      BY <1>1, <2>5 DEF CopyReferer, Copy, Fill, Go, Buffers
    <3>2. Known(pc'[p], k)
      BY <2>2, <3>1 DEF Known
    <3>3. ~mixed[p] => Fields(p)'
      BY <1>1, <2>1, <3>1 DEF Fields, Holds, Judge
    <3>4. Goes(pc'[p], k, Sees(p)', node'[p], out'[p])
      BY <3>1 DEF Goes
    <3> QED  BY <1>2, <2>1, <2>2, <3>1, <3>2, <3>3, <3>4 DEF Judge
  <2> QED  BY <1>4, <2>3, <2>4, <2>5
<1>5. CASE RegroupHost(p)
  <2>1. /\ UNCHANGED <<node, out, seen, pkt>> /\ pc[p] = "regroup" /\ pc'[p] = "lock"
        /\ cell'["host"].text = Regroup(cell["host"].text)
        /\ cell'["referer"] = cell["referer"] /\ cell'["url"] = cell["url"]
        /\ ~mixed'[p] => ~mixed[p] /\ cell["host"].by = p
    BY <1>1, <1>5 DEF RegroupHost, Reads, Fill, Go, Buffers
  <2>2. /\ seen[p] <= Len(added) /\ Known(pc[p], pkt[p]) /\ out[p] = Accept
    BY <1>1, <2>1 DEF Judge
  <2>3. Known(pc'[p], pkt[p])
    BY <2>1, <2>2 DEF Known
  <2>4. ~mixed'[p] => Fields(p)'
    BY <1>1, <2>1 DEF Fields, Holds, Judge
  <2>5. Goes(pc'[p], pkt[p], Sees(p)', node'[p], out'[p])
    BY <2>1 DEF Goes
  <2> QED  BY <1>2, <2>1, <2>2, <2>3, <2>4, <2>5 DEF Judge
<1>6. CASE LockTable(p)
  <2>1. /\ UNCHANGED <<node, out, seen, pkt, cell, mixed>>
        /\ pc[p] = "lock" /\ pc'[p] = "find"
    BY <1>1, <1>6 DEF LockTable, Go, hook
  <2>2. /\ seen[p] <= Len(added) /\ Known(pc[p], pkt[p]) /\ out[p] = Accept
    BY <1>1, <2>1 DEF Judge
  <2>3. Known(pc'[p], pkt[p])
    BY <2>1, <2>2 DEF Known
  <2>4. ~mixed[p] => Fields(p)'
    BY <1>1, <2>1 DEF Fields, Holds, Judge
  <2>5. Goes(pc'[p], pkt[p], Sees(p)', node'[p], out'[p])
    BY <2>1 DEF Goes
  <2> QED  BY <1>2, <2>1, <2>2, <2>3, <2>4, <2>5 DEF Judge
<1> QED  BY <1>3, <1>4, <1>5, <1>6

\* From the search to the way out.
LEMMA JudgeFinds ==
  ASSUME JInv, NEW p \in Cpus, FindHost(p) \/ FindUrl(p) \/ UnlockAccept(p)
  PROVE  Judge(p)'
<1>1. /\ Judge(p) /\ p \in DOMAIN pc /\ p \in DOMAIN node
      /\ p \in DOMAIN pkt /\ p \in DOMAIN out /\ p \in DOMAIN seen
      /\ p \in DOMAIN mixed /\ mixed[p] \in BOOLEAN /\ Lines(added)
  BY DEF JInv, LInv, Typed, Actors, Shaped, Tabled
<1>2. added' = added
  BY CpuSteps DEF JInv, LInv, Hook
<1> DEFINE k == pkt[p]
<1>3. CASE FindHost(p)
  <2> DEFINE host == cell["host"].text
             referer == IF k.referer = None THEN None ELSE cell["referer"].text
             n == FindByHost(table, host, referer)
  <2>1. /\ UNCHANGED <<out, pkt, cell>> /\ pc[p] = "find"
        /\ node'[p] = n /\ seen'[p] = Len(added)
        /\ pc'[p] = IF n = <<>> THEN "accept" ELSE "map"
        /\ ~mixed'[p] => /\ ~mixed[p] /\ cell["host"].by = p
                         /\ k.referer # None => cell["referer"].by = p
    <3> HIDE DEF n
    <3>1. /\ node' = [node EXCEPT ![p] = n]
          /\ seen' = [seen EXCEPT ![p] = Len(added)]
          /\ pc' = [pc EXCEPT ![p] = IF node'[p] = <<>> THEN "accept" ELSE "map"]
          /\ UNCHANGED <<out, pkt, cell>> /\ pc[p] = "find"
          /\ Reads(p, IF k.referer = None THEN {"host"} ELSE {"host", "referer"})
      BY <1>3 DEF FindHost, Go, n
    <3> QED  BY <1>1, <3>1 DEF Reads
  <2>2. /\ Known("find", k) /\ out[p] = Accept
    BY <1>1, <2>1 DEF Judge
  <2>3. Known(pc'[p], k)
    BY <2>1, <2>2 DEF Known
  <2>4. /\ Sees(p)' = added /\ seen'[p] <= Len(added')
    BY <1>1, <1>2, <2>1, SeenAll DEF Sees
  <2> HIDE DEF n
  <2>5. ASSUME ~mixed'[p]
        PROVE  Fields(p)' /\ Goes(pc'[p], k, added, node'[p], out'[p])
    <3>1. Fields(p)
      BY <1>1, <2>1, <2>5 DEF Judge
    <3>2. host = Regroup(k.host) /\ referer = k.referer
      BY <2>1, <2>5, <3>1 DEF Fields, Holds
    <3>3. k.content /\ None \notin {k.host, k.url}
      BY <2>2 DEF Known
    <3>4. host \in Hosts => /\ Filed(table[Hash[host]], added, Hash[host])
                            /\ \E S : table[Hash[host]] \in Seq(S)
      <4>1. host \in Hosts => Hash[host] \in Buckets
        BY DEF Buckets
      <4> QED  BY <4>1 DEF JInv, Tabled
    <3>5. /\ Asked(k, added) # {} => LineOK(Newest(k, added))
          /\ n = IF Asked(k, added) = {} THEN <<>> ELSE <<Rule(Newest(k, added))>>
      <4> HIDE DEF host, referer, k
      <4> QED  BY <1>1, <3>2, <3>3, <3>4, NewestFound DEF n
    <3>6. Fields(p)'
      BY <2>1, <3>1 DEF Fields, Holds
    <3> DEFINE r == Rule(Newest(k, added))
    <3> HIDE DEF k, host, referer
    <3>7. /\ <<r>> # <<>> /\ <<r>>[1] = r
      OBVIOUS
    <3>8. Goes(pc'[p], k, added, n, out'[p])
      BY <2>1, <3>5, <3>7 DEF Goes, Chosen
    <3> QED  BY <2>1, <3>6, <3>8
  <2> QED  BY <2>1, <2>2, <2>3, <2>4, <2>5 DEF Judge
<1>4. CASE FindUrl(p)
  <2> DEFINE pair == FindByUrl(node[p][1], cell["url"].text)
  <2>1. /\ UNCHANGED <<out, pkt, cell, seen>> /\ pc[p] = "map"
        /\ node'[p] = node[p] \o pair
        /\ pc'[p] = IF pair = <<>> THEN "accept"
                    ELSE IF node[p][1].type = "R" THEN "locate" ELSE "unlock"
        /\ ~mixed'[p] => ~mixed[p] /\ cell["url"].by = p
    <3> HIDE DEF pair
    <3>1. /\ node' = [node EXCEPT ![p] = @ \o pair]
          /\ pc' = [pc EXCEPT ![p] = IF pair = <<>> THEN "accept" ELSE
                                IF node[p][1].type = "R" THEN "locate" ELSE "unlock"]
          /\ UNCHANGED <<out, pkt, cell, seen>> /\ pc[p] = "map" /\ Reads(p, {"url"})
      BY <1>4 DEF FindUrl, Go, pair
    <3> QED  BY <1>1, <3>1 DEF Reads
  <2> HIDE DEF pair
  <2>2. /\ Known("map", k) /\ out[p] = Accept /\ seen[p] <= Len(added)
    BY <1>1, <2>1 DEF Judge
  <2>3. Known(pc'[p], k)
    BY <2>1, <2>2 DEF Known
  <2>4. Sees(p)' = Sees(p)
    BY <1>2, <2>1 DEF Sees
  <2> DEFINE lines == Sees(p)   line == Newest(k, lines)
  <2>5. ASSUME ~mixed'[p]
        PROVE  Fields(p)' /\ Goes(pc'[p], k, lines, node'[p], out'[p])
    <3>1. Fields(p) /\ Goes("map", k, lines, node[p], out[p])
      BY <1>1, <2>1, <2>5 DEF Judge
    <3>2. Asked(k, lines) # {} /\ LineOK(line) /\ node[p] = <<Rule(line)>>
      BY <3>1 DEF Goes, Chosen
    <3>3. cell["url"].text = k.url
      BY <2>1, <2>5, <3>1 DEF Fields, Holds
    <3>4. pair = IF FoundIn(k, line) = {} THEN <<>>
                 ELSE <<Rule(line).map[Min(FoundIn(k, line))]>>
      <4> HIDE DEF k, line
      <4>1. <<Rule(line)>>[1] = Rule(line)
        OBVIOUS
      <4> QED  BY <3>2, <3>3, <4>1, FirstPair DEF pair
    <3> DEFINE q == Rule(line).map[Min(FoundIn(k, line))]
               r == Rule(line)
    <3>5. r.type = OperFlag(line.op)
      BY DEF Rule
    <3> HIDE DEF k, line, q, r, lines
    <3>6. /\ <<q>> # <<>>
          /\ (<<r>> \o <<q>>)[1] = r /\ (<<r>> \o <<q>>)[2] = q /\ <<r>>[1] = r
      OBVIOUS
    <3>7. CASE FoundIn(k, line) = {}
      <4>1. pc'[p] = "accept"
        BY <2>1, <3>4, <3>7
      <4>2. Fields(p)'
        BY <4>1 DEF Fields
      <4> QED  BY <3>7, <4>1, <4>2 DEF Goes, line
    <3>8. CASE FoundIn(k, line) # {}
      <4>1. /\ pair = <<q>> /\ node'[p][1] = r /\ node'[p][2] = q /\ node[p][1] = r
        BY <2>1, <3>2, <3>4, <3>6, <3>8 DEF q, r
      <4>2. pc'[p] = IF r.type = "R" THEN "locate" ELSE "unlock"
        BY <2>1, <3>6, <4>1
      <4>3. Fields(p)'
        BY <2>1, <3>1, <4>1, <4>2 DEF Fields, Holds
      <4>4. Chosen(pc'[p], k, line, node'[p])
        BY <3>2, <3>5, <3>8, <4>1, <4>2 DEF Chosen, q, r
      <4>5. Goes(pc'[p], k, lines, node'[p], out'[p])
        BY <3>2, <4>2, <4>4 DEF Goes, line
      <4> QED  BY <4>3, <4>5
    <3> QED  BY <3>7, <3>8
  <2>6. pc'[p] \notin {"idle", "done"}
    BY <2>1
  <2> QED  BY <1>2, <2>1, <2>2, <2>3, <2>4, <2>5, <2>6 DEF Judge
<1>5. CASE UnlockAccept(p)
  <2>1. /\ UNCHANGED <<out, pkt, cell, seen, node, mixed>>
        /\ pc[p] = "accept" /\ pc'[p] = "done"
    BY <1>1, <1>5 DEF UnlockAccept, Go, hook
  <2>2. /\ Known("accept", k) /\ out[p] = Accept /\ seen[p] <= Len(added)
    BY <1>1, <2>1 DEF Judge
  <2>3. Known(pc'[p], k)
    BY <2>1, <2>2 DEF Known
  <2>4. Sees(p)' = Sees(p)
    BY <1>2, <2>1 DEF Sees
  <2>5. ~mixed[p] => Fields(p)' /\ Goes(pc'[p], k, Sees(p), node'[p], out'[p])
    <3>1. ~mixed[p] => Goes("accept", k, Sees(p), node[p], out[p])
      BY <1>1, <2>1 DEF Judge
    <3>2. Fields(p)'
      BY <2>1 DEF Fields
    <3> QED  BY <2>1, <2>2, <3>1, <3>2 DEF Goes, RightFor
  <2> QED  BY <1>2, <2>1, <2>2, <2>3, <2>4, <2>5 DEF Judge
<1> QED  BY <1>3, <1>4, <1>5

\* The answer sent for a rule and its pair is that of the line.
LEMMA AnswerIs ==
  ASSUME NEW k, NEW line, LineOK(line), NEW i, i = Min(FoundIn(k, line)),
         FoundIn(k, line) # {}, OperFlag(line.op) # "M",
         NEW p \in Cpus, node[p][1] = Rule(line), node[p][2] = Rule(line).map[i],
         OperFlag(line.op) = "R" => cell["location"].text = Location(node[p])
  PROVE  Answer(k, Data(p)) = Told(k, line, i)
<1>1. /\ node[p][1].type = OperFlag(line.op) /\ node[p][1].dhost = line.dhost
      /\ i \in DOMAIN line.surls /\ node[p][2].durl = Dest(line, i)
      /\ \A j \in DOMAIN line.surls : node[p][1].map[j].durl = Dest(line, j)
  <2>1. /\ Len(line.surls) \in Nat /\ DOMAIN line.surls = 1 .. Len(line.surls)
        /\ Rule(line).type = OperFlag(line.op) /\ Rule(line).dhost = line.dhost
        /\ \A j \in 1 .. Len(line.surls) : Rule(line).map[j].durl = Dest(line, j)
    BY RuleIs
  <2>2. FoundIn(k, line) \subseteq DOMAIN line.surls
    BY DEF FoundIn
  <2>3. FoundIn(k, line) \subseteq Nat
    BY <2>1, <2>2
  <2>4. i \in FoundIn(k, line)
    BY <2>3, MinOf
  <2> QED  BY <2>1, <2>2, <2>4
<1> DEFINE told ==
      CASE OperFlag(line.op) = "R" -> IF Dest(line, i) = None THEN None
                                      ELSE <<line.dhost, Dest(line, i)>>
        [] line.op = "D" -> "404"
        [] line.op = "G" -> "502"
        [] line.op = "F" -> <<line.dhost, Dest(line, i)>>
<1>2. Data(p) = told
  <2>1. CASE OperFlag(line.op) = "R"
    <3>1. line.op \notin {"D", "M", "G", "F"}
      BY <2>1 DEF OperFlag
    <3>2. told = IF Dest(line, i) = None THEN None
                 ELSE <<line.dhost, Dest(line, i)>>
      BY <2>1, <3>1
    <3>3. Data(p) = cell["location"].text
      BY <1>1, <2>1 DEF Data
    <3> QED  BY <1>1, <2>1, <3>2, <3>3 DEF Location
  <2>2. CASE line.op = "D"
    <3>1. OperFlag(line.op) = "D"
      BY <2>2 DEF OperFlag
    <3> QED  BY <1>1, <2>2, <3>1 DEF Data
  <2>3. CASE line.op = "G"
    <3>1. OperFlag(line.op) = "G"
      BY <2>3 DEF OperFlag
    <3> QED  BY <1>1, <2>3, <3>1 DEF Data
  <2>4. CASE line.op = "F"
    <3>1. OperFlag(line.op) = "F"
      BY <2>4 DEF OperFlag
    <3>2. i = 1
      <4>1. Len(line.surls) = 1 /\ DOMAIN line.surls = 1 .. 1
        BY <2>4 DEF LineOK, IsSequence
      <4> QED  BY <1>1, <4>1
    <3>3. node[p][1].map[1].durl = Dest(line, i)
      BY <1>1, <3>2
    <3>4. told = <<line.dhost, Dest(line, i)>>
      BY <2>4, <3>1
    <3>5. Data(p) = <<node[p][1].dhost, node[p][1].map[1].durl>>
      BY <1>1, <3>1 DEF Data
    <3> QED  BY <1>1, <3>3, <3>4, <3>5
  <2> QED  BY <2>1, <2>2, <2>3, <2>4 DEF OperFlag
<1> QED  BY <1>2 DEF Answer, Told

\* A CPU that has a rule and its pair treats the packet as the line says.
LEMMA JudgeActs ==
  ASSUME JInv, NEW p \in Cpus,
         \/ Locate(p) \/ UnlockTable(p) \/ AskException(p) \/ Modify(p)
         \/ Send(p) \/ SendFails(p) \/ Overrun(p) \/ NoAnswer(p)
  PROVE  Judge(p)'
<1>1. /\ Judge(p) /\ p \in DOMAIN pc /\ p \in DOMAIN node
      /\ p \in DOMAIN pkt /\ p \in DOMAIN out /\ p \in DOMAIN seen
      /\ p \in DOMAIN mixed /\ mixed[p] \in BOOLEAN /\ DOMAIN cell = Buffers
  BY DEF JInv, LInv, Typed, Actors, Shaped
<1>2. added' = added
  BY CpuSteps DEF JInv, LInv, Hook
<1> DEFINE k == pkt[p]   lines == Sees(p)   line == Newest(k, lines)
           i == Min(FoundIn(k, line))
<1>3. /\ UNCHANGED <<node, pkt, seen>>
      /\ pc[p] \in {"locate", "unlock", "except", "modify", "send"}
  BY DEF Locate, UnlockTable, AskException, Modify, Send, SendFails, Overrun,
     NoAnswer, Oops, hook
<1>4. /\ Known(pc[p], k) /\ out[p] = Accept /\ seen[p] <= Len(added)
  BY <1>1, <1>3 DEF Judge
<1>5. /\ k.content /\ k.host # None /\ k.url # None
      /\ IsSequence(k.before) /\ IsSequence(k.url) /\ IsSequence(k.behind)
  BY <1>3, <1>4 DEF Known, Parted
<1>6. Sees(p)' = lines
  BY <1>2, <1>3 DEF Sees
<1>7. ASSUME ~mixed[p]
      PROVE  /\ Fields(p) /\ Asked(k, lines) # {} /\ LineOK(line)
             /\ Chosen(pc[p], k, line, node[p]) /\ FoundIn(k, line) # {}
             /\ node[p][1] = Rule(line) /\ node[p][2] = Rule(line).map[i]
             /\ node[p][1].type = OperFlag(line.op)
  <2>1. Fields(p) /\ Goes(pc[p], k, lines, node[p], out[p])
    BY <1>1, <1>3, <1>7 DEF Judge
  <2>2. Asked(k, lines) # {} /\ Chosen(pc[p], k, line, node[p])
    BY <1>3, <2>1 DEF Goes
  <2>3. Rule(line).type = OperFlag(line.op)
    BY DEF Rule
  <2> QED  BY <1>3, <2>1, <2>2, <2>3 DEF Chosen
<1> DEFINE Goal ==
      ~mixed'[p] => Fields(p)' /\ Goes(pc'[p], k, lines, node[p], out'[p])
<1>8. ASSUME pc'[p] # "idle", Goal, pc'[p] # "done" => out'[p] = Accept,
             ~mixed'[p] => ~mixed[p]
      PROVE  Judge(p)'
  <2>1. Known(pc'[p], k)
    BY <1>5 DEF Known, Parted
  <2> QED  BY <1>2, <1>3, <1>4, <1>6, <1>8, <2>1 DEF Judge
<1> HIDE DEF k, lines, line, i
<1>9. CASE Locate(p)
  <2>1. /\ UNCHANGED <<out, mixed>> /\ pc[p] = "locate" /\ pc'[p] = "unlock"
        /\ cell'["location"].text = Location(node[p]) /\ cell'["url"] = cell["url"]
    BY <1>1, <1>9 DEF Locate, Fill, Go, Buffers, Location
  <2>2. ASSUME ~mixed[p]
        PROVE  Fields(p)' /\ Goes(pc'[p], k, lines, node[p], out'[p])
    <3>1. Fields(p)'
      BY <1>3, <1>7, <2>1, <2>2 DEF Fields, Holds
    <3>2. Chosen("unlock", k, line, node[p])
      BY <1>7, <2>1, <2>2 DEF Chosen
    <3> QED  BY <1>7, <2>1, <2>2, <3>1, <3>2 DEF Goes, line
  <2> QED  BY <1>4, <1>8, <2>1, <2>2
<1>10. CASE UnlockTable(p)
  <2>1. /\ UNCHANGED <<out, mixed, cell>> /\ pc[p] = "unlock"
        /\ pc'[p] = CASE node[p][1].type = "R" -> "send"
                      [] node[p][1].type = "M" -> "modify"
                      [] OTHER -> "except"
    BY <1>1, <1>10 DEF UnlockTable, Go, hook
  <2>2. /\ node[p][1].type = "R" => pc'[p] = "send"
        /\ node[p][1].type = "M" => pc'[p] = "modify"
        /\ node[p][1].type \notin {"R", "M"} => pc'[p] = "except"
    BY <2>1
  <2>3. ASSUME ~mixed[p]
        PROVE  Fields(p)' /\ Goes(pc'[p], k, lines, node[p], out'[p])
    <3>1. Fields(p)'
      BY <1>3, <1>7, <2>1, <2>2, <2>3 DEF Fields, Holds
    <3>2. Chosen(pc'[p], k, line, node[p])
      BY <1>7, <2>1, <2>2, <2>3 DEF Chosen
    <3> QED  BY <1>7, <2>2, <2>3, <3>1, <3>2 DEF Goes, line
  <2>4. pc'[p] \notin {"idle", "done"}
    BY <2>2
  <2> QED  BY <1>4, <1>8, <2>1, <2>3, <2>4
<1>11. CASE AskException(p)
  <2>1. /\ UNCHANGED <<out, cell>> /\ pc[p] = "except"
        /\ pc'[p] = IF ExceptUrl(node[p][1], cell["url"].text) THEN "done"
                    ELSE "send"
        /\ ~mixed'[p] => ~mixed[p] /\ cell["url"].by = p
    BY <1>1, <1>11 DEF AskException, Reads, Go
  <2>2. ASSUME ~mixed'[p]
        PROVE  Fields(p)' /\ Goes(pc'[p], k, lines, node[p], out'[p])
    <3>1. ~mixed[p] /\ cell["url"].text = k.url
      BY <1>7, <2>1, <2>2 DEF Fields, Holds, k
    <3>2. OperFlag(line.op) \notin {"R", "M"}
      BY <1>7, <2>1, <3>1 DEF Chosen
    <3>3. pc'[p] = IF Spared(k, line) THEN "done" ELSE "send"
      BY <1>7, <2>1, <3>1, <3>2, ExceptIs
    <3>4. Fields(p)'
      BY <1>3, <1>7, <3>1, <3>2, <3>3 DEF Fields
    <3>5. CASE Spared(k, line)
      <4>1. RightFor(k, lines, Accept)
        BY <3>2, <3>5 DEF RightFor, line
      <4> QED  BY <1>4, <2>1, <3>3, <3>4, <3>5, <4>1 DEF Goes
    <3>6. CASE ~Spared(k, line)
      <4>1. Chosen("send", k, line, node[p])
        BY <1>7, <2>1, <3>1, <3>2, <3>6 DEF Chosen
      <4> QED  BY <1>7, <3>1, <3>3, <3>4, <3>6, <4>1 DEF Goes, line
    <3> QED  BY <3>5, <3>6
  <2> QED  BY <1>4, <1>8, <2>1, <2>2
<1>12. CASE Modify(p)
  <2> DEFINE words == Rewrite(node[p][1], Payload(k)).words
  <2>1. /\ UNCHANGED <<mixed, cell>> /\ pc[p] = "modify" /\ pc'[p] = "done"
        /\ out'[p] = [Accept EXCEPT !.words = words]
    BY <1>1, <1>12 DEF Modify, Go, k
  <2>2. ASSUME ~mixed[p]
        PROVE  Fields(p)' /\ Goes(pc'[p], k, lines, node[p], out'[p])
    <3>1. Fields(p)'
      BY <2>1 DEF Fields
    <3>2. Rewritten(k, line, words)
      BY <1>5, <1>7, <2>2, RewriteRight
    <3>3. OperFlag(line.op) = "M"
      BY <1>7, <2>1, <2>2 DEF Chosen
    <3> HIDE DEF words
    <3>4. out'[p].words = words
      BY <2>1 DEF Accept
    <3>5. RightFor(k, lines, out'[p])
      BY <1>7, <2>1, <2>2, <3>2, <3>3, <3>4 DEF RightFor, line
    <3> QED  BY <2>1, <3>1, <3>5 DEF Goes
  <2> QED  BY <1>8, <2>1, <2>2
<1>13. CASE Send(p)
  <2>1. /\ pc[p] = "send" /\ pc'[p] = "done"
        /\ out'[p] = [verdict |-> "DROP", words |-> <<>>,
                      answer |-> <<Answer(k, Data(p))>>]
        /\ ~mixed'[p] => /\ ~mixed[p]
                         /\ node[p][1].type = "R" => cell["location"].by = p
    BY <1>1, <1>13 DEF Send, Reads, Go, k
  <2>2. ASSUME ~mixed'[p]
        PROVE  Fields(p)' /\ Goes(pc'[p], k, lines, node[p], out'[p])
    <3>1. Fields(p)'
      BY <2>1 DEF Fields
    <3>2. OperFlag(line.op) # "M" /\ (OperFlag(line.op) # "R" => ~Spared(k, line))
      BY <1>7, <2>1, <2>2 DEF Chosen
    <3>3. OperFlag(line.op) = "R" => cell["location"].text = Location(node[p])
      BY <1>7, <2>1, <2>2 DEF Fields, Holds
    <3>4. Answer(k, Data(p)) = Told(k, line, i)
      BY <1>7, <2>1, <2>2, <3>2, <3>3, AnswerIs DEF i
    <3>5. RightFor(k, lines, out'[p])
      BY <1>7, <2>1, <2>2, <3>2, <3>4 DEF RightFor, line, i
    <3> QED  BY <2>1, <3>1, <3>5 DEF Goes
  <2> QED  BY <1>8, <2>1, <2>2
<1>14. CASE SendFails(p)
  <2>1. /\ pc[p] = "send" /\ pc'[p] = "done" /\ UNCHANGED mixed
        /\ \/ out'[p] = [Accept EXCEPT !.verdict = "ACCEPT"]
           \/ /\ out'[p] = [Accept EXCEPT !.verdict = "DROP"]
              /\ node[p][1].type = "R"
    BY <1>1, <1>14 DEF SendFails, Go
  <2>2. [Accept EXCEPT !.verdict = "ACCEPT"] = Accept
    BY DEF Accept
  <2>3. ASSUME ~mixed[p]
        PROVE  Fields(p)' /\ Goes(pc'[p], k, lines, node[p], out'[p])
    <3>1. Fields(p)'
      BY <2>1 DEF Fields
    <3>2. OperFlag(line.op) # "M" /\ (OperFlag(line.op) # "R" => ~Spared(k, line))
      BY <1>7, <2>1, <2>3 DEF Chosen
    <3>3. \/ out'[p] = Accept
          \/ out'[p] = [Accept EXCEPT !.verdict = "DROP"] /\ OperFlag(line.op) = "R"
      BY <1>7, <2>1, <2>2, <2>3
    <3>4. RightFor(k, lines, out'[p])
      BY <1>7, <2>3, <3>2, <3>3 DEF RightFor, line
    <3> QED  BY <2>1, <3>1, <3>4 DEF Goes
  <2> QED  BY <1>8, <2>1, <2>3
<1>15. CASE Overrun(p) \/ NoAnswer(p)
  <2>1. UNCHANGED <<out, mixed>> /\ pc'[p] = "oops"
    BY <1>1, <1>15 DEF Overrun, NoAnswer, Oops, Go, hook
  <2>2. Fields(p)' /\ Goes(pc'[p], k, lines, node[p], out'[p])
    BY <2>1 DEF Fields, Goes
  <2> QED  BY <1>4, <1>8, <2>1, <2>2
<1> QED  BY <1>9, <1>10, <1>11, <1>12, <1>13, <1>14, <1>15

\* A CPU that is done is as it was before.
LEMMA JudgeEnds ==
  ASSUME JInv, NEW p \in Cpus, Return(p)
  PROVE  Judge(p)'
<1>1. /\ p \in DOMAIN pc /\ p \in DOMAIN out /\ p \in DOMAIN seen
  BY DEF JInv, LInv, Typed, Actors, Shaped
<1>2. /\ pc'[p] = "idle" /\ out'[p] = Accept /\ seen'[p] = 0 /\ added' = added
  BY <1>1 DEF Return, Go
<1>3. Len(added) \in Nat
  BY SeenAll DEF JInv, Tabled
<1> QED  BY <1>2, <1>3 DEF Judge

\* Nothing has been judged at first.
LEMMA JInit == Init => JInv
<1> SUFFICES ASSUME Init PROVE JInv
  OBVIOUS
<1>1. LInv
  BY LInit
<1>2. /\ \A a \in Actors : pc[a] = "idle" /\ node[a] = <<>>
      /\ \A p \in Cpus : out[p] = Accept /\ seen[p] = 0
      /\ added = <<>> /\ table = NoRules /\ text = NoText /\ index = 0
  BY DEF Init
<1>3. PICK c \in Cases : script = c.script /\ coming = c.traffic
  BY DEF Init
<1>4. Shaped
  <2>1. \A k \in coming : Parted(k)
    BY <1>3, CasesAssumption DEF Parted
  <2> QED  BY <2>1 DEF Init, Shaped, NoFields, Buffers
<1>5. Stored
  <2>1. DOMAIN text = {} /\ \A w \in Writers : pc[w] = "idle"
    BY <1>2 DEF NoText, Actors
  <2> QED  BY <2>1, ScriptsBegin DEF Stored
<1>6. Tabled
  BY <1>2, NoneTabled
<1>7. ASSUME NEW p \in Cpus PROVE Judge(p)
  <2>1. pc[p] = "idle" /\ out[p] = Accept /\ seen[p] = 0 /\ Len(added) = 0
    BY <1>2 DEF Actors
  <2> QED  BY <2>1 DEF Judge
<1> QED  BY <1>1, <1>4, <1>5, <1>6, <1>7 DEF JInv

\* Writers touch nothing of a CPU, nor does loading.
LEMMA OthersShape ==
  ASSUME Shaped,
         \/ \E w \in Writers : BeginWrite(w) \/ Write(w)
         \/ Module
  PROVE  /\ Shaped' /\ UNCHANGED <<pkt, out, seen, mixed>>
         /\ cell' = cell \/ cell' = NoFields
<1>1. /\ UNCHANGED <<coming, pkt, out, seen, mixed>>
      /\ cell' = cell \/ cell' = NoFields
  BY DEF BeginWrite, Write, CopyLines, CopyFails, ParseFails, ParseLine, LockToAdd,
     AddRule, Advance, Module, CreateProc, Load, Unregister, Unload, hook
<1> QED  BY <1>1 DEF Shaped, NoFields, Buffers

\* Every step keeps lines, rules and judgements in order.
LEMMA JNext == JInv /\ [Next]_vars => JInv'
<1> SUFFICES ASSUME JInv, [Next]_vars PROVE JInv'
  OBVIOUS
<1>1. LInv /\ Typed /\ Shaped /\ Stored /\ Tabled
  BY DEF JInv, LInv
<1>2. LInv'
  BY <1>1, LNext
<1>3. ASSUME NEW p \in Cpus, Receive(p) \/ Hook(p) PROVE JInv'
  <2>1. Shaped' /\ Stored' /\ Tabled'
    BY <1>1, <1>3, CpuFrame, CpuStores
  <2>2. ASSUME NEW q \in Cpus PROVE Judge(q)'
    <3>1. CASE q = p
      <4>1. Judge(p)'
        BY <1>3, JudgeBegins, JudgeFinds, JudgeActs, JudgeEnds DEF Hook
      <4> QED  BY <3>1, <4>1
    <3>2. CASE q # p
      <4>1. /\ pkt'[q] = pkt[q] /\ out'[q] = out[q]
            /\ seen'[q] = seen[q] /\ mixed'[q] = mixed[q]
        BY <1>1, <1>3, <3>2, CpuFrame
      <4>2. \A c \in Buffers : cell'[c] = cell[c] \/ cell'[c].by # q
        BY <1>1, <1>3, <3>2, CpuFrame
      <4>3. added' = added /\ pc'[q] = pc[q] /\ node'[q] = node[q]
        BY <1>1, <1>3, <3>2, CpuSteps DEF OnlyFor, Actors
      <4> QED  BY <4>1, <4>2, <4>3, JudgeKept
    <3> QED  BY <3>1, <3>2
  <2> QED  BY <1>2, <2>1, <2>2 DEF JInv
<1>4. ASSUME NEW c \in Buffers, NEW q \in Cpus, cell' = cell \/ cell' = NoFields
      PROVE  cell'[c] = cell[c] \/ cell'[c].by # q
  BY <1>4, RulesAssumption DEF NoFields, Buffers
<1>5. ASSUME NEW w \in Writers, BeginWrite(w) \/ Write(w) PROVE JInv'
  <2>1. Stored' /\ Tabled'
    BY <1>1, <1>5, WriterStores
  <2>2. /\ Shaped' /\ UNCHANGED <<pkt, out, seen, mixed>>
        /\ cell' = cell \/ cell' = NoFields
    BY <1>1, <1>5, OthersShape
  <2>3. \A q \in Cpus : pc'[q] = pc[q] /\ node'[q] = node[q]
    BY <1>1, <1>5, WriterSteps, RulesAssumption DEF OnlyFor, Actors
  <2>4. added' = added \/ \E line : added' = Append(added, line)
    BY <1>1, <1>5, WriterMoves DEF Stored
  <2>5. ASSUME NEW q \in Cpus PROVE Judge(q)'
    BY <1>4, <2>2, <2>3, <2>4, JudgeKept
  <2> QED  BY <1>2, <2>1, <2>2, <2>5 DEF JInv
<1>6. CASE Module
  <2>1. Stored' /\ Tabled'
    BY <1>1, <1>6, ModuleStores
  <2>2. /\ Shaped' /\ UNCHANGED <<pkt, out, seen, mixed>>
        /\ cell' = cell \/ cell' = NoFields
    BY <1>1, <1>6, OthersShape
  <2>3. pc' = pc /\ node' = node
    BY <1>6, ModuleSteps
  <2>4. ASSUME NEW q \in Cpus PROVE Judge(q)'
    <3>1. CASE added' = added
      BY <1>4, <2>2, <2>3, <3>1, JudgeKept
    <3>2. CASE module = "unhooked" /\ added' = <<>>
      <4>1. pc[q] = "idle"
        BY <1>1, <3>2 DEF LInv, HookLoaded
      <4>2. seen[q] = 0 /\ out[q] = Accept
        BY <4>1 DEF JInv, Judge
      <4> QED  BY <2>2, <2>3, <3>2, <4>1, <4>2 DEF Judge
    <3> QED  BY <1>6, <3>1, <3>2, ModuleSteps
  <2> QED  BY <1>2, <2>1, <2>2, <2>4 DEF JInv
<1>7. CASE UNCHANGED vars
  <2>1. UNCHANGED <<pc, node, table, added, cell, coming, pkt, out, seen, mixed,
                    script, text, index>>
    BY <1>7 DEF vars, hook, write
  <2>2. Shaped' /\ Tabled' /\ Stored'
    BY <1>1, <2>1 DEF Shaped, Tabled, Stored, Scripted
  <2>3. ASSUME NEW q \in Cpus PROVE Judge(q)'
    <3>1. Judge(q)
      BY DEF JInv
    <3> QED  BY <2>1, <3>1 DEF Judge, Fields, Holds, Sees
  <2> QED  BY <1>2, <2>2, <2>3 DEF JInv
<1> QED  BY <1>3, <1>5, <1>6, <1>7 DEF Next

\* A packet whose buffers no other CPU has touched is treated as the newest
\* line for its host says: dropped with that line's answer, rewritten, or
\* accepted.
THEOREM JudgedRight == Spec => []AloneRight
<1>1. JInv => AloneRight
  <2> SUFFICES ASSUME JInv, NEW p \in Cpus, pc[p] = "done", ~mixed[p]
               PROVE  RightFor(pkt[p], SubSeq(added, 1, seen[p]), out[p])
    BY DEF AloneRight
  <2> QED  BY DEF JInv, Judge, Goes, Sees
<1> QED  BY <1>1, JInit, JNext, PTL DEF Spec
=============================================================================
