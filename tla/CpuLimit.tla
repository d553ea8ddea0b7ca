------------------------------ MODULE CpuLimit ------------------------------
(***************************************************************************)
(* cpulimit: the limiter rebuilds its list of the target's family in every *)
(* cycle (update_process_group), continues the members, lets them work,    *)
(* stops them and sleeps.  Meanwhile processes fork, die and have their    *)
(* pids used again, and a signal may call quit() between any two steps.    *)
(* /proc lists pids in increasing order, so a list is a set of pids and a  *)
(* position.  How long the slices are is not modelled, only whether the    *)
(* sleeping slice is empty.                                                *)
(***************************************************************************)
EXTENDS Integers

CONSTANTS
    N,          \* bound: pids are 1 .. N
    Target,     \* the process to limit
    MaxForks,   \* bound: processes born in a behaviour
    MaxTime     \* bound: seconds that pass

ASSUME LimitAssumption ==
    N \in Nat /\ Target \in 1 .. N /\ MaxForks \in Nat /\ MaxTime \in Nat

Pids == 1 .. N
NoEntry == -1

VARIABLES
    state,     \* of each pid: "none", "run" or "stopped"
    parent,    \* its parent, 0 for init
    start,     \* starttime, in seconds
    now, forks,
    include_children, lazy,   \* options
    pc,        \* "search", "scan", "cont", "work", "stop", "sleep", "done",
               \* or "aborted" by an assertion
    pos,       \* next pid of the loop in progress
    proclist,  \* pgroup.proclist
    proctable, \* pgroup.proctable: starttime recorded for a pid
    again,     \* the scan is the one of init_process_group
    tmp,       \* tmp_process.starttime: of the member read before, or NoEntry
               \* while the scan has read none and it is uninitialised
    strays,    \* history: processes that left the family while stopped, or
               \* are stopped although they never were in it
    confused,  \* history: a pid in proctable was used again, or a process
               \* vanished while it was read
    midscan    \* history: quit() ran while the list was being rebuilt

world == <<state, parent, start, now, forks>>
options == <<include_children, lazy>>
hist == <<strays, confused, midscan>>
vars == <<world, options, pc, pos, proclist, proctable, again, tmp, hist>>

Init ==
    /\ state = [p \in Pids |-> IF p = Target THEN "run" ELSE "none"]
    /\ parent = [p \in Pids |-> 0]
    /\ start = [p \in Pids |-> 0]
    /\ now = 0 /\ forks = 0
    /\ include_children \in BOOLEAN /\ lazy \in BOOLEAN
    /\ pc = "search" /\ pos = 1
    /\ proclist = {} /\ proctable = [p \in Pids |-> NoEntry]
    /\ again = FALSE /\ tmp = NoEntry
    /\ strays = {} /\ confused = FALSE /\ midscan = FALSE

Alive(p) == state[p] # "none"

\* is_child_of: following the parents leads to the target.
Descends(p) ==
    LET Up[k \in 0 .. N] == IF k = 0 THEN p
                            ELSE IF Up[k - 1] \in {0, Target} THEN Up[k - 1]
                            ELSE parent[Up[k - 1]]
    IN  Up[N] = Target

\* What the scan takes for the family.
Family(p) == p = Target \/ (include_children /\ Descends(p))

-----------------------------------------------------------------------------
(* The other processes.                                                     *)

\* A new process: a child of a running one, or one that has nothing to do
\* with the target (from = 0).
Fork(from, p) ==
    /\ forks < MaxForks /\ ~Alive(p)
    /\ from # 0 => state[from] = "run"
    /\ p = Target => from = 0
    /\ forks' = forks + 1
    /\ state' = [state EXCEPT ![p] = "run"]
    /\ parent' = [parent EXCEPT ![p] = from]
    /\ start' = [start EXCEPT ![p] = now]
    /\ confused' = (confused \/ (proctable[p] # NoEntry))
    /\ UNCHANGED <<now, options, pc, pos, proclist, proctable, again, tmp,
                   strays, midscan>>

\* p is gone and its children belong to init.  Those that are stopped and
\* have lost the way to the target are strays.
Dies(p) ==
    /\ state' = [state EXCEPT ![p] = "none"]
    /\ parent' = [q \in Pids |-> IF parent[q] = p THEN 0 ELSE parent[q]]
    /\ strays' = (strays \ {p}) \cup
                 {q \in Pids \ {p} : state[q] = "stopped" /\ Descends(q)
                                     /\ ~Descends(q)'}

Death(p) ==
    /\ Alive(p) /\ Dies(p)
    /\ UNCHANGED <<start, now, forks, options, pc, pos, proclist, proctable,
                   again, tmp, confused, midscan>>

Tick ==
    /\ now < MaxTime /\ now' = now + 1
    /\ UNCHANGED <<state, parent, start, forks, options, pc, pos, proclist,
                   proctable, again, tmp, hist>>

-----------------------------------------------------------------------------
(* The limiter.                                                             *)

\* update_process_group starts with an empty list.
StartScan == pc' = "scan" /\ pos' = 1 /\ proclist' = {} /\ tmp' = NoEntry

\* The target is found and its group initialised.
Found ==
    /\ pc = "search" /\ Alive(Target)
    /\ StartScan
    /\ proctable' = [p \in Pids |-> NoEntry]
    /\ again' = TRUE
    /\ UNCHANGED <<world, options, hist>>

\* Without -z the limiter looks again after two seconds.
NotFound ==
    /\ pc = "search" /\ ~Alive(Target) /\ lazy
    /\ pc' = "done"
    /\ UNCHANGED <<world, options, pos, proclist, proctable, again, tmp, hist>>

\* A process was read with starttime s: it enters the list, unless the table
\* knows another starttime for its pid.
Enter(p, s) ==
    IF proctable[p] \in {NoEntry, s}
    THEN /\ proctable' = [proctable EXCEPT ![p] = s]
         /\ proclist' = proclist \cup {p}
         /\ pos' = pos + 1
         /\ UNCHANGED pc
    ELSE /\ pc' = "aborted"
         /\ UNCHANGED <<pos, proclist, proctable>>

ScanOther ==
    /\ pc = "scan" /\ pos <= N
    /\ ~Alive(pos) \/ ~Family(pos)
    /\ pos' = pos + 1
    /\ UNCHANGED <<world, options, pc, proclist, proctable, again, tmp, hist>>

\* Mutant: the boot time, rounded anew for every scan, is added.
ScanMemberSinceBoot ==
    /\ pc = "scan" /\ pos <= N /\ Alive(pos) /\ Family(pos)
    /\ tmp' = start[pos]
    /\ \E rounding \in {0, 1} : Enter(pos, start[pos] + rounding)
    /\ UNCHANGED <<world, options, again, hist>>

ScanMember ==
    /\ pc = "scan" /\ pos <= N /\ Alive(pos) /\ Family(pos)
    /\ tmp' = start[pos]
    /\ Enter(pos, start[pos])
    /\ UNCHANGED <<world, options, again, hist>>

\* The process dies after the scan has chosen it and before it is read.  With
\* -i the result of read_process_info is not looked at, so it enters with
\* what is left of the process before; otherwise the scan ends.
ScanVanished ==
    /\ pc = "scan" /\ pos <= N /\ Alive(pos) /\ Family(pos)
    /\ Dies(pos)
    /\ IF include_children
       THEN /\ \E s \in (IF tmp = NoEntry THEN 0 .. MaxTime ELSE {tmp}) :
                  Enter(pos, s)
            /\ confused' = TRUE
       ELSE /\ pos' = pos + 1
            /\ UNCHANGED <<pc, proclist, proctable, confused>>
    /\ UNCHANGED <<start, now, forks, options, again, tmp, midscan>>

\* The process dies while it is read, after its stat and before its cmdline.
\* If init has not reaped it yet the cmdline is empty, which -i does not look
\* at; otherwise it cannot be opened, which nobody looks at, and the limiter
\* crashes on the stream it has not got.
ScanHalfRead ==
    /\ pc = "scan" /\ pos <= N /\ Alive(pos) /\ Family(pos)
    /\ Dies(pos)
    /\ \/ tmp' = start[pos] /\ include_children /\ Enter(pos, start[pos])
       \/ /\ ~include_children /\ pos' = pos + 1
          /\ UNCHANGED <<pc, proclist, proctable, tmp>>
       \/ pc' = "crashed" /\ UNCHANGED <<pos, proclist, proctable, tmp>>
    /\ UNCHANGED <<start, now, forks, options, again, confused, midscan>>

\* The scan of init_process_group is followed by that of the first cycle.
ScanAgain ==
    /\ pc = "scan" /\ pos > N /\ again
    /\ again' = FALSE
    /\ StartScan
    /\ UNCHANGED <<world, options, proctable, hist>>

ScanEnds ==
    /\ pc = "scan" /\ pos > N /\ ~again /\ proclist # {}
    /\ pc' = "cont" /\ pos' = 1
    /\ UNCHANGED <<world, options, proclist, proctable, again, tmp, hist>>

\* No more processes.
GroupGone ==
    /\ pc = "scan" /\ pos > N /\ ~again /\ proclist = {}
    /\ pc' = IF lazy THEN "done" ELSE "search"
    /\ UNCHANGED <<world, options, pos, proclist, proctable, again, tmp, hist>>

\* kill() fails: the process leaves the list and the table.
DropDead ==
    /\ proclist' = proclist \ {pos}
    /\ proctable' = [proctable EXCEPT ![pos] = NoEntry]
    /\ UNCHANGED <<state, strays>>

\* kill() reaches whatever process has the pid now.
Hit(s) ==
    /\ state' = [state EXCEPT ![pos] = s]
    /\ strays' = IF s = "stopped" /\ ~Family(pos) THEN strays \cup {pos}
                 ELSE strays \ {pos}
    /\ UNCHANGED <<proclist, proctable>>

Walk(phase, next, s) ==
    /\ pc = phase
    /\ IF pos \in proclist
       THEN pos' = pos + 1 /\ UNCHANGED pc /\ (IF Alive(pos) THEN Hit(s) ELSE DropDead)
       ELSE /\ IF pos <= N THEN pos' = pos + 1 /\ UNCHANGED pc
                           ELSE pos' = 1 /\ pc' = next
            /\ UNCHANGED <<state, strays, proclist, proctable>>
    /\ UNCHANGED <<parent, start, now, forks, options, again, tmp, confused,
                   midscan>>

\* Mutant: the last pid is left out.
ResumeAllButLast == Walk("cont", "work", IF pos < N THEN "run" ELSE state[pos])

Resume == Walk("cont", "work", "run")
Stop == Walk("stop", "sleep", "stopped")

\* After the working slice the members are stopped if there is a sleeping
\* slice, otherwise the next cycle starts.
WorkEnds(tsleep) ==
    /\ pc = "work"
    /\ IF tsleep THEN pc' = "stop" /\ pos' = 1 /\ UNCHANGED <<proclist, tmp>>
                 ELSE StartScan
    /\ UNCHANGED <<world, options, proctable, again, hist>>

SleepEnds ==
    /\ pc = "sleep"
    /\ StartScan
    /\ UNCHANGED <<world, options, proctable, again, hist>>

Ended == {"done", "aborted", "crashed"}

\* Mutant: the handler exits without a word to the processes.
QuitAtOnce ==
    /\ pc \notin Ended
    /\ pc' = "done"
    /\ midscan' = (pc = "scan")
    /\ UNCHANGED <<world, strays, options, pos, proclist, proctable, again,
                   tmp, confused>>

\* quit(): every member of the list as it is now is continued.
Quit ==
    /\ pc \notin Ended
    /\ pc' = "done"
    /\ midscan' = (pc = "scan")
    /\ state' = [p \in Pids |-> IF p \in proclist /\ Alive(p) THEN "run"
                                ELSE state[p]]
    /\ strays' = strays \ proclist
    /\ UNCHANGED <<parent, start, now, forks, options, pos, proclist,
                   proctable, again, tmp, confused>>

Limiter ==
    \/ Found \/ NotFound \/ ScanOther \/ ScanMember \/ ScanAgain \/ ScanEnds
    \/ GroupGone \/ Resume \/ Stop \/ SleepEnds
    \/ \E tsleep \in BOOLEAN : WorkEnds(tsleep)

Next ==
    \/ Limiter \/ ScanVanished \/ ScanHalfRead \/ Quit \/ Tick
    \/ \E p \in Pids : Death(p) \/ \E from \in Pids \cup {0} : Fork(from, p)

Spec == Init /\ [][Next]_vars
FairSpec == Spec /\ WF_vars(Limiter)

-----------------------------------------------------------------------------
(* Properties.                                                              *)

Stopped == {p \in Pids : state[p] = "stopped"}

\* The only processes left stopped are those that had left the family, unless
\* the signal came while the list was being rebuilt.
OnlyStraysLeft == pc = "done" /\ ~midscan => Stopped \subseteq strays

\* The assertion on starttime fails only after a pid was used again while it
\* was still in the table, or a process vanished while it was read.
AssertionHolds == pc = "aborted" => confused

\* A stopped process of the family is continued, as long as the limiter runs.
StoppedResumes ==
    \A p \in Pids :
        state[p] = "stopped" ~> (state[p] # "stopped" \/ p \in strays
                                 \/ pc \in Ended)
=============================================================================
