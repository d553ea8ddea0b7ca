---------------------------- MODULE BwSemaphore ----------------------------
(***************************************************************************)
(* The System V semaphore with which libiptbwctl serialises the programs   *)
(* that talk to the bandwidth kernel module (ipt_bwctl.c, get_sem ..       *)
(* unlock, signal_handler).  Every system call is a step of its own: the   *)
(* semaphore is created and initialised in two calls, lock_sem and         *)
(* unlock_sem read the value before they change it, and a signal or a kill *)
(* can come between any two of them.                                       *)
(***************************************************************************)
EXTENDS Integers, FiniteSets

CONSTANTS
    Procs,      \* the processes that use the library
    SigProcs,   \* those that may be sent SIGTERM or SIGINT
    KillProcs,  \* those that may die without running a handler
    MaxTries    \* attempts in lock(): max_wait_milliseconds / 25, at least 1

ASSUME ProcAssumption ==
    /\ SigProcs \subseteq Procs /\ KillProcs \subseteq Procs
    /\ MaxTries \in Nat \ {0}

VARIABLES
    created,  \* the semaphore set exists in the kernel
    semval,   \* its value
    pc,       \* where a process stands in lock(), unlock() or outside
    job,      \* the call it is in: lock(), unlock() or the handler's unlock()
    known,    \* bandwidth_semaphore # -1 in the process
    tries,    \* attempts lock() has left
    owns,     \* history: taken by this process and not given back by it
    stray     \* history: some process has raised a semaphore it did not own

semVars == <<created, semval, pc, job, known, tries, owns, stray>>

SemInit ==
    /\ created = FALSE /\ semval = 0
    /\ pc = [p \in Procs |-> "out"]
    /\ job = [p \in Procs |-> "lock"]
    /\ known = [p \in Procs |-> FALSE]
    /\ tries = [p \in Procs |-> 0]
    /\ owns = [p \in Procs |-> FALSE]
    /\ stray = FALSE

\* Where lock() and unlock() go once the semaphore is known.
FirstCall(p) == IF job[p] = "lock" THEN "check" ELSE "peek"

\* Where unlock() returns to: the caller, or the handler's exit().
AfterUnlock(p) == IF job[p] = "exit" THEN "dead" ELSE "out"

-----------------------------------------------------------------------------
\* lock() is entered.
Lock(p) ==
    /\ pc[p] = "out"
    /\ job' = [job EXCEPT ![p] = "lock"]
    /\ tries' = [tries EXCEPT ![p] = MaxTries]
    /\ pc' = [pc EXCEPT ![p] = IF known[p] THEN "check" ELSE "get"]
    /\ UNCHANGED <<created, semval, known, owns, stray>>

\* Mutant: semget() without IPC_EXCL, so that everybody initialises.
GetSemAlwaysInit(p) ==
    /\ pc[p] = "get"
    /\ created' = TRUE
    /\ known' = [known EXCEPT ![p] = TRUE]
    /\ pc' = [pc EXCEPT ![p] = "setval"]
    /\ UNCHANGED <<semval, job, tries, owns, stray>>

\* get_sem: the process that creates the set has yet to give it a value.
GetSem(p) ==
    /\ pc[p] = "get"
    /\ created' = TRUE
    /\ known' = [known EXCEPT ![p] = TRUE]
    /\ pc' = [pc EXCEPT ![p] = IF created THEN FirstCall(p) ELSE "setval"]
    /\ UNCHANGED <<semval, job, tries, owns, stray>>

SetVal(p) ==
    /\ pc[p] = "setval"
    /\ semval' = 1
    /\ pc' = [pc EXCEPT ![p] = FirstCall(p)]
    /\ UNCHANGED <<created, job, known, tries, owns, stray>>

\* Mutant: a lock() that waits for ever.
RetryForever(p) ==
    /\ pc' = [pc EXCEPT ![p] = "check"]
    /\ UNCHANGED tries

\* An attempt that failed: lock() sleeps 25 ms and tries again, or returns 0.
Retry(p) ==
    /\ tries' = [tries EXCEPT ![p] = @ - 1]
    /\ pc' = [pc EXCEPT ![p] = IF tries[p] > 1 THEN "check" ELSE "out"]

\* lock_sem: first the value is read ...
CheckFree(p) ==
    /\ pc[p] = "check" /\ semval > 0
    /\ pc' = [pc EXCEPT ![p] = "down"]
    /\ UNCHANGED <<created, semval, job, known, tries, owns, stray>>

CheckTaken(p) ==
    /\ pc[p] = "check" /\ semval = 0
    /\ Retry(p)
    /\ UNCHANGED <<created, semval, job, known, owns, stray>>

\* ... then the semaphore is taken, which fails if somebody else was faster.
Down(p) ==
    /\ pc[p] = "down" /\ semval > 0
    /\ semval' = semval - 1
    /\ owns' = [owns EXCEPT ![p] = TRUE]
    /\ pc' = [pc EXCEPT ![p] = "held"]
    /\ UNCHANGED <<created, job, known, tries, stray>>

\* Mutant: the result of semop() is not looked at.
DownFailsUnseen(p) ==
    /\ pc[p] = "down" /\ semval = 0
    /\ pc' = [pc EXCEPT ![p] = "held"]
    /\ UNCHANGED <<created, semval, job, known, tries, owns, stray>>

DownFails(p) ==
    /\ pc[p] = "down" /\ semval = 0
    /\ Retry(p)
    /\ UNCHANGED <<created, semval, job, known, owns, stray>>

\* unlock() is entered by the process that holds the lock.
Unlock(p) ==
    /\ pc[p] = "held"
    /\ job' = [job EXCEPT ![p] = "unlock"]
    /\ pc' = [pc EXCEPT ![p] = "peek"]
    /\ UNCHANGED <<created, semval, known, tries, owns, stray>>

\* unlock_sem: nothing to do unless the value is 0.
Peek(p) ==
    /\ pc[p] = "peek"
    /\ pc' = [pc EXCEPT ![p] = IF semval = 0 THEN "up" ELSE AfterUnlock(p)]
    /\ owns' = [owns EXCEPT ![p] = @ /\ semval = 0]
    /\ UNCHANGED <<created, semval, job, known, tries, stray>>

Up(p) ==
    /\ pc[p] = "up"
    /\ semval' = semval + 1
    /\ pc' = [pc EXCEPT ![p] = AfterUnlock(p)]
    /\ stray' = (stray \/ ~owns[p])
    /\ owns' = [owns EXCEPT ![p] = FALSE]
    /\ UNCHANGED <<created, job, known, tries>>

-----------------------------------------------------------------------------
\* SIGTERM or SIGINT: the handler unlocks, whatever the process was doing, and
\* exits.  The signal is blocked while its handler runs.
Signal(p) ==
    /\ p \in SigProcs /\ pc[p] # "dead" /\ job[p] # "exit"
    /\ job' = [job EXCEPT ![p] = "exit"]
    /\ pc' = [pc EXCEPT ![p] = IF known[p] THEN "peek" ELSE "get"]
    /\ UNCHANGED <<created, semval, known, tries, owns, stray>>

\* The process dies without a handler; the semaphore has no SEM_UNDO.
Kill(p) ==
    /\ p \in KillProcs /\ pc[p] # "dead"
    /\ pc' = [pc EXCEPT ![p] = "dead"]
    /\ UNCHANGED <<created, semval, job, known, tries, owns, stray>>

\* The next process in its place starts with a fresh library.
Spawn(p) ==
    /\ pc[p] = "dead"
    /\ pc' = [pc EXCEPT ![p] = "out"]
    /\ job' = [job EXCEPT ![p] = "lock"]
    /\ known' = [known EXCEPT ![p] = FALSE]
    /\ tries' = [tries EXCEPT ![p] = 0]
    /\ owns' = [owns EXCEPT ![p] = FALSE]
    /\ UNCHANGED <<created, semval, stray>>

\* What a process does by itself inside a call.
Call(p) ==
    \/ GetSem(p) \/ SetVal(p) \/ CheckFree(p) \/ CheckTaken(p)
    \/ Down(p) \/ DownFails(p) \/ Peek(p) \/ Up(p)

SemNext ==
    \E p \in Procs :
        Call(p) \/ Lock(p) \/ Unlock(p) \/ Signal(p) \/ Kill(p) \/ Spawn(p)

SemSpec == SemInit /\ [][SemNext]_semVars

\* A process that is inside a call goes on; callers need not call.
SemFairSpec == SemSpec /\ \A p \in Procs : WF_semVars(Call(p))

-----------------------------------------------------------------------------
(* Properties.                                                              *)

\* Two programs never talk to the kernel module at the same time, as long as
\* no handler has raised a semaphore its process did not own.  Kills of the
\* holder or of the creator do not break this.
MutualExclusion ==
    ~stray => \A p, q \in Procs : pc[p] = "held" /\ pc[q] = "held" => p = q

\* Without stray unlocks the semaphore is a lock: it is free only when nobody
\* alive owns it, and never worth more than one.
FreeMeansUnowned ==
    ~stray => /\ semval <= 1
              /\ \A p \in Procs : owns[p] => semval = 0

\* lock() returns, with the lock or without it, even when the holder or the
\* creator of the semaphore was killed.
LockReturns ==
    \A p \in Procs :
        (pc[p] \in {"get", "setval", "check", "down"} /\ job[p] = "lock")
            ~> (pc[p] \in {"held", "out", "dead"} \/ job[p] = "exit")
=============================================================================
