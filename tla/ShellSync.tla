----------------------------- MODULE ShellSync -----------------------------
(***************************************************************************)
(* shellsync: N scripts meet at a barrier made of two named POSIX          *)
(* semaphores (shellsync.c).  Every call on a semaphore is a step of its   *)
(* own.  A name leads to an object until it is unlinked; a process that    *)
(* opened the object keeps it, and the next sem_open makes a new one.      *)
(* Every script may meet the others again, MaxRuns times in all.           *)
(***************************************************************************)
EXTENDS Integers, FiniteSets

CONSTANTS
    Procs,       \* the scripts that meet
    N,           \* <process num>, the same for every script
    MaxRuns,     \* bound: how often a script calls shellsync
    MaxObjects,  \* bound: semaphores made under a name, one for each run
    MaxMishaps   \* bound: runs that fail or are killed

ASSUME NAssumption ==
    /\ IsFiniteSet(Procs) /\ Cardinality(Procs) = N /\ N \in Nat /\ N > 1
    /\ MaxRuns \in Nat /\ MaxObjects \in Nat /\ MaxMishaps \in Nat

VARIABLES
    named,    \* the semaphore a name leads to, 0 if none
    made,     \* semaphores made so far under a name, numbered from 1
    block,    \* the value of each object made as "block"
    count,    \* the value of each object made as "count"
    pc,       \* the call on a semaphore a script is about to make
    mine,     \* the two semaphores a run has opened, 0 if not yet
    left,     \* sem_post(block) calls left to the last to arrive
    ok,       \* what sync_wait has returned is 0
    runs,     \* calls of shellsync so far
    arrived,  \* history: the scripts that have posted each count
    failed,   \* history: the runs that have timed out or met an error
    killed,   \* history: the runs that were killed
    overlap   \* history: a run began before the round before had ended

vars == <<named, made, block, count, pc, mine, left, ok, runs,
          arrived, failed, killed, overlap>>
history == <<failed, killed, overlap>>

Names == {"block", "count"}
Objects == 1 .. MaxObjects
Nothing == [n \in Names |-> 0]

Init ==
    /\ named = [n \in Names |-> 0]
    /\ made = [n \in Names |-> 0]
    /\ block = [s \in Objects |-> 0]
    /\ count = [s \in Objects |-> 0]
    /\ pc = [p \in Procs |-> "out"]
    /\ mine = [p \in Procs |-> Nothing]
    /\ left = [p \in Procs |-> 0]
    /\ ok = [p \in Procs |-> FALSE]
    /\ runs = [p \in Procs |-> 0]
    /\ arrived = [s \in Objects |-> {}]
    /\ failed = 0 /\ killed = 0 /\ overlap = FALSE

-----------------------------------------------------------------------------
\* sem_open with O_CREAT: the object of that name, or a new one of value 0.
Open(p, n) ==
    LET s == IF named[n] = 0 THEN made[n] + 1 ELSE named[n] IN
        /\ s <= MaxObjects
        /\ mine' = [mine EXCEPT ![p] = [@ EXCEPT ![n] = s]]
        /\ named' = [named EXCEPT ![n] = s]
        /\ made' = [made EXCEPT ![n] = IF named[n] = 0 THEN s ELSE @]

\* main() begins; nothing is shared before the first sem_open.
OpenBlock(p) ==
    /\ pc[p] = "out" /\ runs[p] < MaxRuns
    /\ Open(p, "block")
    /\ runs' = [runs EXCEPT ![p] = @ + 1]
    /\ pc' = [pc EXCEPT ![p] = "openCount"]
    /\ overlap' =
        (overlap \/ \E q \in Procs : pc[q] # "out" /\ runs[q] = runs[p])
    /\ UNCHANGED <<block, count, left, ok, arrived, failed, killed>>

OpenCount(p) ==
    /\ pc[p] = "openCount" /\ Open(p, "count")
    /\ pc' = [pc EXCEPT ![p] = "post"]
    /\ UNCHANGED <<block, count, left, ok, runs, arrived, history>>

\* A call fails: sync_wait returns -1, and main unlinks both names.
Fail(p) ==
    /\ failed + killed < MaxMishaps
    /\ pc' = [pc EXCEPT ![p] = "unlinkCount"]
    /\ failed' = failed + 1
    /\ UNCHANGED <<named, made, block, count, mine, left, ok, runs, arrived,
                   killed, overlap>>

\* sem_open(SEM_COUNT_NAME) fails.  When the first sem_open does, the second
\* is made all the same and the run ends here too, having made less.
OpenFails(p) == pc[p] = "openCount" /\ Fail(p)

PostCount(p) ==
    /\ pc[p] = "post"
    /\ count' = [count EXCEPT ![mine[p]["count"]] = @ + 1]
    /\ arrived' = [arrived EXCEPT ![mine[p]["count"]] = @ \cup {p}]
    /\ pc' = [pc EXCEPT ![p] = "get"]
    /\ UNCHANGED <<named, made, block, mine, left, ok, runs, history>>

\* sem_getvalue tells whether everybody has arrived.  Two that post before
\* either of them reads both take themselves for the last.
GetValue(p) ==
    /\ pc[p] = "get"
    /\ IF count[mine[p]["count"]] >= N
       THEN /\ left' = [left EXCEPT ![p] = N - 1]
            /\ pc' = [pc EXCEPT ![p] = "release"]
       ELSE /\ pc' = [pc EXCEPT ![p] = "wait"]
            /\ UNCHANGED left
    /\ UNCHANGED <<named, made, block, count, mine, ok, runs, arrived,
                   history>>

\* Mutant: `while (nproc - 1 > 1)`, one post too few.
PostBlockTooFew(p) ==
    /\ pc[p] = "release" /\ left[p] > 1
    /\ block' = [block EXCEPT ![mine[p]["block"]] = @ + 1]
    /\ left' = [left EXCEPT ![p] = IF @ = 2 THEN 0 ELSE @ - 1]
    /\ UNCHANGED <<named, made, count, pc, mine, ok, runs, arrived, history>>

PostBlock(p) ==
    /\ pc[p] = "release" /\ left[p] > 0
    /\ block' = [block EXCEPT ![mine[p]["block"]] = @ + 1]
    /\ left' = [left EXCEPT ![p] = @ - 1]
    /\ UNCHANGED <<named, made, count, pc, mine, ok, runs, arrived, history>>

\* The last to arrive, and a waiter that took a post, return 0.
Succeed(p) ==
    /\ ok' = [ok EXCEPT ![p] = TRUE]
    /\ pc' = [pc EXCEPT ![p] = "unlinkCount"]

Released(p) ==
    /\ pc[p] = "release" /\ left[p] = 0
    /\ Succeed(p)
    /\ UNCHANGED <<named, made, block, count, mine, left, runs, arrived,
                   history>>

Woken(p) ==
    /\ pc[p] = "wait" /\ block[mine[p]["block"]] > 0
    /\ block' = [block EXCEPT ![mine[p]["block"]] = @ - 1]
    /\ Succeed(p)
    /\ UNCHANGED <<named, made, count, mine, left, runs, arrived,
                   history>>

\* sem_timedwait gives up: the time has come, or a signal.
TimeOut(p) ==
    /\ pc[p] = "wait" /\ block[mine[p]["block"]] = 0
    /\ Fail(p)

\* Mutant: the name of the counter outlives the round.
UnlinkCountForgotten(p) ==
    /\ pc[p] = "unlinkCount"
    /\ pc' = [pc EXCEPT ![p] = "unlinkBlock"]
    /\ UNCHANGED <<named, made, block, count, mine, left, ok, runs, arrived,
                   history>>

\* The process is gone, and what it knew with it.
Ended(p) ==
    /\ pc' = [pc EXCEPT ![p] = "out"]
    /\ mine' = [mine EXCEPT ![p] = Nothing]
    /\ left' = [left EXCEPT ![p] = 0]
    /\ ok' = [ok EXCEPT ![p] = FALSE]

\* Both ends of main unlink what the names lead to now, whoever made it.
UnlinkCount(p) ==
    /\ pc[p] = "unlinkCount"
    /\ named' = [named EXCEPT !["count"] = 0]
    /\ pc' = [pc EXCEPT ![p] = "unlinkBlock"]
    /\ UNCHANGED <<made, block, count, mine, left, ok, runs, arrived, history>>

UnlinkBlock(p) ==
    /\ pc[p] = "unlinkBlock"
    /\ named' = [named EXCEPT !["block"] = 0]
    /\ Ended(p)
    /\ UNCHANGED <<made, block, count, runs, arrived, history>>

\* A run is killed: the names stay.
Kill(p) ==
    /\ pc[p] # "out" /\ failed + killed < MaxMishaps
    /\ Ended(p)
    /\ killed' = killed + 1
    /\ UNCHANGED <<named, made, block, count, runs, arrived, failed, overlap>>

-----------------------------------------------------------------------------
Run(p) ==
    \/ OpenCount(p) \/ PostCount(p) \/ GetValue(p)
    \/ PostBlock(p) \/ Released(p) \/ Woken(p)
    \/ UnlinkCount(p) \/ UnlinkBlock(p)

Mishap(p) == OpenFails(p) \/ TimeOut(p) \/ Kill(p)

Next == \E p \in Procs : OpenBlock(p) \/ Run(p) \/ Mishap(p)

\* A program that runs goes on; nothing has to fail.
Spec == Init /\ [][Next]_vars /\ \A p \in Procs : WF_vars(Run(p))

-----------------------------------------------------------------------------
\* The variables have their types.
TypeOK ==
    /\ named \in [Names -> 0 .. MaxObjects]
    /\ made \in [Names -> 0 .. MaxObjects]
    /\ block \in [Objects -> Nat]
    /\ count \in [Objects -> Nat]
    /\ pc \in [Procs -> {"out", "openCount", "post", "get", "release",
                         "wait", "unlinkCount", "unlinkBlock"}]
    /\ mine \in [Procs -> [Names -> 0 .. MaxObjects]]
    /\ left \in [Procs -> 0 .. N - 1]
    /\ ok \in [Procs -> BOOLEAN]
    /\ runs \in [Procs -> 0 .. MaxRuns]
    /\ arrived \in [Objects -> SUBSET Procs]
    /\ failed \in Nat /\ killed \in Nat /\ overlap \in BOOLEAN

Passed(p) == ok[p] /\ pc[p] \in {"unlinkCount", "unlinkBlock"}

\* Nobody passes the barrier before every script has arrived in the same
\* round, with the unlinking of late finishers, with timeouts and failures in
\* other runs and with two that both post for everybody: unless a run was
\* killed, which leaves its arrival behind under the name.
NobodyAhead ==
    killed > 0 \/ \A p \in Procs :
        Passed(p) => arrived[mine[p]["count"]] = Procs

\* When all have come to their k-th meeting, none of them failed or was
\* killed, and nobody came before the meeting before was over, all of them
\* leave it: a post reaches everybody, on whichever object they wait.
AllPass ==
    \A k \in 1 .. MaxRuns :
        (\A p \in Procs : runs[p] = k)
            ~> \/ failed + killed > 0 \/ overlap
               \/ \A p \in Procs : runs[p] = k /\ pc[p] = "out"
=============================================================================
