----------------------------- MODULE Semaphore -----------------------------
(***************************************************************************)
(* The process-shared semaphore of semaphore.c: a file mapped by every     *)
(* process that holds a mutex, a condition variable and a counter.         *)
(*                                                                         *)
(* One action per step that another process can see: each system call of   *)
(* semaphore_create, the acquisition of the mutex, and the body of a       *)
(* critical section together with the release of the mutex.  Processes may *)
(* be killed between any two steps, and waiters may wake up spuriously.    *)
(***************************************************************************)
EXTENDS Naturals, FiniteSets

CONSTANTS
  Proc,       \* processes that use the semaphore
  Waiters,    \* those that call semaphore_wait
  Mortal,     \* those that may be killed
  NoProc,     \* nobody: the mutex is free
  UintMod,    \* 2^w for the w bits of the unsigned counter
  MaxPosts    \* bound: calls of semaphore_post explored

ASSUME SemaphoreAssumption ==
  /\ Waiters \subseteq Proc
  /\ Mortal \subseteq Proc
  /\ NoProc \notin Proc
  /\ UintMod \in Nat /\ MaxPosts \in Nat
  /\ MaxPosts < UintMod

VARIABLES
  file,     \* the mapped file: its contents as semaphore_create leaves them
  owner,    \* holder of semap->lock
  waitq,    \* processes blocked on semap->nonzero, killed ones included
  count,    \* semap->count
  pc,       \* where each process is in the code
  posts,    \* history: completed increments of the counter
  takes,    \* history: completed decrements of the counter, while early is empty
  early,    \* history: processes that opened before semaphore_create returned
  overlap   \* history: there have been two processes in waitq at once

vars == <<file, owner, waitq, count, pc, posts, takes, early, overlap>>

Creating == {"truncate", "init", "zero"}
Posting  == {"post_test", "post_inc"}
Waiting  == {"wait_lock", "wait_test", "wait_dec", "asleep"}
Gone     == {"dead", "bus_error"}

TypeOK ==
  /\ file \in {"absent", "empty", "sized", "ready"}
  /\ owner \in Proc \cup {NoProc}
  /\ waitq \subseteq Proc
  /\ count \in 0 .. UintMod - 1
  /\ pc \in [Proc -> {"closed", "mapped"} \cup Creating \cup Posting
                     \cup Waiting \cup Gone]
  /\ posts \in Nat /\ takes \in Nat
  /\ early \subseteq Proc /\ overlap \in BOOLEAN

Init ==
  /\ file = "absent"
  /\ owner = NoProc
  /\ waitq = {}
  /\ count = 0
  /\ pc = [p \in Proc |-> "closed"]
  /\ posts = 0 /\ takes = 0
  /\ early = {} /\ overlap = FALSE

Goto(p, l) == pc' = [pc EXCEPT ![p] = l]
-----------------------------------------------------------------------------
(* semaphore_create *)

\* open(O_CREAT | O_EXCL): only the first creator gets past it.
CreateOpen(p) ==
  /\ pc[p] = "closed"
  /\ file = "absent"
  /\ file' = "empty"
  /\ Goto(p, "truncate")
  /\ UNCHANGED <<owner, waitq, count, posts, takes, early, overlap>>

\* ftruncate: the file becomes zeroes, which read as a free mutex.
CreateTruncate(p) ==
  /\ pc[p] = "truncate"
  /\ file' = "sized"
  /\ Goto(p, "init")
  /\ UNCHANGED <<owner, waitq, count, posts, takes, early, overlap>>

\* pthread_mutex_init and pthread_cond_init overwrite what they find.
CreateInit(p) ==
  /\ pc[p] = "init"
  /\ owner' = NoProc
  /\ waitq' = {}
  /\ Goto(p, "zero")
  /\ UNCHANGED <<file, count, posts, takes, early, overlap>>

\* semap->count = 0, and the call returns.
CreateZero(p) ==
  /\ pc[p] = "zero"
  /\ count' = 0
  /\ file' = "ready"
  /\ Goto(p, "mapped")
  /\ UNCHANGED <<owner, waitq, posts, takes, early, overlap>>
-----------------------------------------------------------------------------
(* semaphore_open and semaphore_close *)

\* Nothing tells semaphore_open whether the creation has finished.
Open(p) ==
  /\ pc[p] = "closed"
  /\ file # "absent"
  /\ early' = IF file = "ready" THEN early ELSE early \cup {p}
  /\ Goto(p, "mapped")
  /\ UNCHANGED <<file, owner, waitq, count, posts, takes, overlap>>

Close(p) ==
  /\ pc[p] = "mapped"
  /\ Goto(p, "closed")
  /\ UNCHANGED <<file, owner, waitq, count, posts, takes, early, overlap>>

\* The first access to a mapping of an empty file raises SIGBUS.
BusError(p) ==
  /\ pc[p] \in {"mapped", "wait_lock"}
  /\ file = "empty"
  /\ Goto(p, "bus_error")
  /\ UNCHANGED <<file, owner, waitq, count, posts, takes, early, overlap>>
-----------------------------------------------------------------------------
(* semaphore_post *)

PostLock(p) ==
  /\ pc[p] = "mapped"
  /\ posts < MaxPosts
  /\ file # "empty"
  /\ owner = NoProc
  /\ owner' = p
  /\ Goto(p, "post_test")
  /\ UNCHANGED <<file, waitq, count, posts, takes, early, overlap>>

\* pthread_cond_signal: one blocked process goes for the mutex.  A killed
\* process absorbs the signal it is given.
Signal(p) ==
  \/ /\ waitq = {}
     /\ Goto(p, "post_inc")
     /\ UNCHANGED waitq
  \/ \E w \in waitq :
       /\ waitq' = waitq \ {w}
       /\ pc' = [pc EXCEPT ![p] = "post_inc",
                           ![w] = IF pc[w] = "asleep" THEN "wait_lock" ELSE @]

\* Variant: the test comes after the increment.
PostSignalAfter(p) ==
  /\ pc[p] = "post_test"
  /\ IF count + 1 = 0 THEN Signal(p) ELSE Goto(p, "post_inc") /\ UNCHANGED waitq
  /\ UNCHANGED <<file, owner, count, posts, takes, early, overlap>>

\* Only the post that finds the counter at zero signals.
PostSignal(p) ==
  /\ pc[p] = "post_test"
  /\ IF count = 0 THEN Signal(p) ELSE Goto(p, "post_inc") /\ UNCHANGED waitq
  /\ UNCHANGED <<file, owner, count, posts, takes, early, overlap>>

PostUnlock(p) ==
  /\ pc[p] = "post_inc"
  /\ count' = (count + 1) % UintMod
  /\ posts' = posts + 1
  /\ owner' = NoProc
  /\ Goto(p, "mapped")
  /\ UNCHANGED <<file, waitq, takes, early, overlap>>
-----------------------------------------------------------------------------
(* semaphore_wait *)

Wait(p) ==
  /\ p \in Waiters
  /\ pc[p] = "mapped"
  /\ Goto(p, "wait_lock")
  /\ UNCHANGED <<file, owner, waitq, count, posts, takes, early, overlap>>

\* Variant: pthread_mutex_trylock with its result ignored.
WaitLockTry(p) ==
  /\ pc[p] = "wait_lock"
  /\ file # "empty"
  /\ owner' = IF owner = NoProc THEN p ELSE owner
  /\ Goto(p, "wait_test")
  /\ UNCHANGED <<file, waitq, count, posts, takes, early, overlap>>

\* Entry to the call, and return from pthread_cond_wait.
WaitLock(p) ==
  /\ pc[p] = "wait_lock"
  /\ file # "empty"
  /\ owner = NoProc
  /\ owner' = p
  /\ Goto(p, "wait_test")
  /\ UNCHANGED <<file, waitq, count, posts, takes, early, overlap>>

\* The while loop: sleep on a zero counter, releasing the mutex with it.
WaitSleep(p) ==
  /\ pc[p] = "wait_test"
  /\ count = 0
  /\ owner' = NoProc
  /\ waitq' = waitq \cup {p}
  /\ overlap' = (overlap \/ waitq # {})
  /\ Goto(p, "asleep")
  /\ UNCHANGED <<file, count, posts, takes, early>>

\* Variant: the counter is not tested.
WaitPassAlways(p) ==
  /\ pc[p] = "wait_test"
  /\ Goto(p, "wait_dec")
  /\ UNCHANGED <<file, owner, waitq, count, posts, takes, early, overlap>>

WaitPass(p) ==
  /\ pc[p] = "wait_test"
  /\ count > 0
  /\ Goto(p, "wait_dec")
  /\ UNCHANGED <<file, owner, waitq, count, posts, takes, early, overlap>>

WaitTake(p) ==
  /\ pc[p] = "wait_dec"
  /\ count' = (count + (UintMod - 1)) % UintMod
  /\ takes' = IF early = {} THEN takes + 1 ELSE takes
  /\ owner' = NoProc
  /\ Goto(p, "mapped")
  /\ UNCHANGED <<file, waitq, posts, early, overlap>>

\* POSIX lets pthread_cond_wait return with no signal.
SpuriousWakeup(p) ==
  /\ pc[p] = "asleep"
  /\ waitq' = waitq \ {p}
  /\ Goto(p, "wait_lock")
  /\ UNCHANGED <<file, owner, count, posts, takes, early, overlap>>
-----------------------------------------------------------------------------
\* A killed process keeps the mutex and its place in the wait queue.
Kill(p) ==
  /\ p \in Mortal
  /\ pc[p] \notin {"closed"} \cup Gone
  /\ Goto(p, "dead")
  /\ UNCHANGED <<file, owner, waitq, count, posts, takes, early, overlap>>

Create(p) == CreateOpen(p) \/ CreateTruncate(p) \/ CreateInit(p) \/ CreateZero(p)

Post(p) == PostLock(p) \/ PostSignal(p) \/ PostUnlock(p)

WaitLoop(p) == WaitSleep(p) \/ WaitPass(p) \/ WaitTake(p) \/ SpuriousWakeup(p)

Step(p) ==
  \/ Create(p) \/ Open(p) \/ Close(p) \/ BusError(p)
  \/ Post(p)
  \/ Wait(p) \/ WaitLock(p) \/ WaitLoop(p)
  \/ Kill(p)

Next == \E p \in Proc : Step(p)

Spec == Init /\ [][Next]_vars

\* A process inside a call keeps running, and the mutex goes in the end to a
\* process that waits for it; whether a process makes a call is its own
\* business, and so is a wakeup with no signal.
Fairness ==
  \A p \in Proc :
    /\ WF_vars(PostSignal(p) \/ PostUnlock(p))
    /\ SF_vars(WaitLock(p))
    /\ WF_vars(WaitSleep(p) \/ WaitPass(p) \/ WaitTake(p))

FairSpec == Spec /\ Fairness
-----------------------------------------------------------------------------
(* Properties.  They hold while no process has opened the semaphore before  *)
(* the call that creates it returned: semaphore_open cannot tell.           *)

Sound == early = {}

\* Between pthread_mutex_lock and pthread_mutex_unlock there is one process,
\* and it is the one that holds the mutex.
LockExclusion ==
  Sound => \A p \in Proc :
             pc[p] \in Posting \cup {"wait_test", "wait_dec"} => owner = p

\* No token is lost or made up: what was posted and not yet taken is what the
\* counter says, so it is never decremented below zero either.
Conservation == Sound => count + takes = posts

\* Nobody sleeps on a counter that is not zero, as long as there have never been
\* two processes in the queue; see WakeupForEveryToken for two.
NoLostWakeup ==
  Sound /\ ~overlap => \A p \in Proc : pc[p] = "asleep" => count = 0

\* A process dies of SIGBUS only if it opened before the creation returned.
BusErrorOnlyEarly == \A p \in Proc : pc[p] = "bus_error" => p \in early

\* Whoever uses the semaphore before it was created voids the promise; until
\* then the code implements a counter of tokens.
Contract == INSTANCE SemaphoreContract WITH
  tokens  <- IF Sound THEN count ELSE 0,
  waiting <- IF Sound THEN {p \in Proc : pc[p] \in Waiting} ELSE {},
  void    <- ~Sound

ImplementsContract == Contract!Spec

\* Nobody stays in semaphore_wait for ever with a token at hand, under the same
\* condition: the call returns, or the tokens have all been taken, unless the
\* holder of the mutex has been killed.
WaitReturns ==
  LET Void == ~Sound \/ overlap \/ \E q \in Proc : owner = q /\ pc[q] = "dead"
  IN  \A p \in Proc : pc[p] \in Waiting /\ count > 0
        ~> Void \/ pc[p] \notin Waiting \/ count = 0

\* The same for a sleeper: it is woken up while there is a token for it.
WakeupForEveryToken ==
  \A p \in Proc :
    Sound /\ pc[p] = "asleep" /\ count > 0
      ~> ~Sound \/ pc[p] # "asleep" \/ count = 0
=============================================================================
