------------------------------ MODULE Lockrun ------------------------------
(***************************************************************************)
(* lockrun.c: instances of a program that run a command each, under a lock *)
(* on a file that only one of them may hold.  Proc is the instances that   *)
(* are ever started on one lock file (cron starts a new one, it never      *)
(* restarts an old one); each has the options of its command line.         *)
(*                                                                         *)
(* An instance and its child are two processes: the child does not hold    *)
(* the lock, runs in a session of its own, and survives its parent.        *)
(***************************************************************************)
EXTENDS Integers, FiniteSets

CONSTANTS
  Proc,       \* instances of lockrun
  NoProc,     \* nobody: the file is not locked
  Options,    \* command lines, and what they find: [wait, quiet, retries, deaf, locks]
  Mortal,     \* instances that may be killed from outside
  Codes       \* exit codes of commands explored

\* retries is what atoi makes of an argument.  An instance is deaf if whoever
\* started it has left SIGCHLD ignored, and locks is whether lockf works for it.
ASSUME LockrunAssumption ==
  /\ NoProc \notin Proc
  /\ Options \subseteq [wait : BOOLEAN, quiet : BOOLEAN, retries : Int, deaf : BOOLEAN, locks : BOOLEAN]
  /\ Mortal \subseteq Proc
  /\ 0 \in Codes /\ Codes \subseteq 0 .. 255

VARIABLES
  opt,        \* the options of each instance
  pc,         \* where each instance is in main
  lock,       \* who holds the lock on the file
  attempts,   \* attempts, counted for the instances that limit them
  child,      \* the child of each instance
  result,     \* what the child left for waitpid
  rc,         \* the exit code of each instance that has exited
  why         \* history: what made the instance exit

vars == <<opt, pc, lock, attempts, child, result, rc, why>>

EXIT_SUCCESS == 0
EXIT_FAILURE == 1
Signalled    == 256      \* the child was ended by a signal
Nothing      == -1       \* no result, or no exit code, yet

Results == Codes \cup {EXIT_SUCCESS, EXIT_FAILURE, Signalled, Nothing}

TypeOK ==
  /\ opt \in [Proc -> Options]
  /\ pc \in [Proc -> {"new", "try", "sleep", "fork", "wait", "exited", "killed"}]
  /\ lock \in Proc \cup {NoProc}
  /\ attempts \in [Proc -> Nat]
  /\ child \in [Proc -> {"none", "forked", "running", "ended", "failed"}]
  /\ result \in [Proc -> Results] /\ rc \in [Proc -> Results]
  /\ why \in [Proc -> {"", "no_file", "locked", "no_child", "done"}]

Init ==
  /\ opt \in [Proc -> Options]
  /\ pc = [p \in Proc |-> "new"]
  /\ lock = NoProc
  /\ attempts = [p \in Proc |-> 0]
  /\ child = [p \in Proc |-> "none"]
  /\ result = [p \in Proc |-> Nothing] /\ rc = [p \in Proc |-> Nothing]
  /\ why = [p \in Proc |-> ""]

Goto(p, l) == pc' = [pc EXCEPT ![p] = l]

\* Variant: the lock outlives the process that holds it.
KeptBy(p) == lock

ReleasedBy(p) == IF lock = p THEN NoProc ELSE lock

\* exit: the kernel releases the lock.
Exit(p, code, reason) ==
  /\ Goto(p, "exited")
  /\ rc' = [rc EXCEPT ![p] = code]
  /\ why' = [why EXCEPT ![p] = reason]
  /\ lock' = ReleasedBy(p)
-----------------------------------------------------------------------------
(* The parent *)

\* The options, and the lock file opened.
Start(p) ==
  /\ pc[p] = "new"
  /\ Goto(p, "try")
  /\ UNCHANGED <<opt, lock, attempts, child, result, rc, why>>

OpenFails(p) ==
  /\ pc[p] = "new"
  /\ Exit(p, EXIT_FAILURE, "no_file")
  /\ UNCHANGED <<opt, attempts, child, result>>

LockTaken(p) ==
  /\ pc[p] = "try"
  /\ lock = NoProc /\ opt[p].locks
  /\ lock' = p
  /\ Goto(p, "fork")
  /\ UNCHANGED <<opt, attempts, child, result, rc, why>>

\* Variant: attempts > retries in place of >=.
LastAttemptOnceMore(p) == opt[p].retries > 0 /\ attempts[p] + 1 > opt[p].retries

LastAttempt(p) == opt[p].retries > 0 /\ attempts[p] + 1 >= opt[p].retries

\* lockf fails: the file is locked, or cannot be; the code does not ask which.
Denied(p) == lock # NoProc \/ ~opt[p].locks

\* The body of the loop up to sleep: without --wait the instance exits, with it
\* it gives up after the last attempt or sleeps.
Refused(p) ==
  /\ pc[p] = "try" /\ Denied(p)
  /\ ~opt[p].wait
  /\ Exit(p, IF opt[p].quiet THEN EXIT_SUCCESS ELSE EXIT_FAILURE, "locked")
  /\ UNCHANGED <<opt, attempts, child, result>>

GiveUp(p) ==
  /\ pc[p] = "try" /\ Denied(p)
  /\ opt[p].wait /\ LastAttempt(p)
  /\ attempts' = [attempts EXCEPT ![p] = @ + 1]
  /\ Exit(p, EXIT_FAILURE, "locked")
  /\ UNCHANGED <<opt, child, result>>

Sleep(p) ==
  /\ pc[p] = "try" /\ Denied(p)
  /\ opt[p].wait /\ ~LastAttempt(p)
  /\ attempts' = [attempts EXCEPT ![p] = IF opt[p].retries > 0 THEN @ + 1 ELSE @]
  /\ Goto(p, "sleep")
  /\ UNCHANGED <<opt, lock, child, result, rc, why>>

SleepOver(p) ==
  /\ pc[p] = "sleep"
  /\ Goto(p, "try")
  /\ UNCHANGED <<opt, lock, attempts, child, result, rc, why>>

\* Variant: the parent closes the lock file as well, which gives up the lock.
ForkUnlocked(p) ==
  /\ pc[p] = "fork"
  /\ Goto(p, "wait")
  /\ child' = [child EXCEPT ![p] = "forked"]
  /\ lock' = NoProc
  /\ UNCHANGED <<opt, attempts, result, rc, why>>

Fork(p) ==
  /\ pc[p] = "fork"
  /\ Goto(p, "wait")
  /\ child' = [child EXCEPT ![p] = "forked"]
  /\ UNCHANGED <<opt, lock, attempts, result, rc, why>>

ForkFails(p) ==
  /\ pc[p] = "fork"
  /\ Exit(p, EXIT_FAILURE, "no_child")
  /\ UNCHANGED <<opt, attempts, child, result>>

\* waitpid fails if SIGCHLD is ignored, once the child has ended; nobody looks,
\* and exitstatus is the 0 it was.
Status(p) ==
  IF opt[p].deaf THEN EXIT_SUCCESS ELSE IF result[p] = Signalled THEN 1 ELSE result[p]

\* waitpid returns: the exit status of the child becomes that of the instance.
Reap(p) ==
  /\ pc[p] = "wait"
  /\ child[p] \in {"ended", "failed"}
  /\ Exit(p, Status(p), "done")
  /\ UNCHANGED <<opt, attempts, child, result>>

\* An instance that is killed exits without reaping its child.
Kill(p) ==
  /\ p \in Mortal
  /\ pc[p] \notin {"new", "exited", "killed"}
  /\ Goto(p, "killed")
  /\ lock' = ReleasedBy(p)
  /\ UNCHANGED <<opt, attempts, child, result, rc, why>>
-----------------------------------------------------------------------------
(* The child *)

\* close, setsid, and execvp: the command runs.
Exec(p) ==
  /\ child[p] = "forked"
  /\ child' = [child EXCEPT ![p] = "running"]
  /\ UNCHANGED <<opt, pc, lock, attempts, result, rc, why>>

\* execvp returns, and the child goes on to exit(rc), which nothing has set.
ExecFails(p) ==
  /\ child[p] = "forked"
  /\ child' = [child EXCEPT ![p] = "failed"]
  /\ \E garbage \in Codes : result' = [result EXCEPT ![p] = garbage]
  /\ UNCHANGED <<opt, pc, lock, attempts, rc, why>>

\* The command exits, or a signal ends it.
CommandEnds(p) ==
  /\ child[p] = "running"
  /\ child' = [child EXCEPT ![p] = "ended"]
  /\ \E r \in Codes \cup {Signalled} : result' = [result EXCEPT ![p] = r]
  /\ UNCHANGED <<opt, pc, lock, attempts, rc, why>>
-----------------------------------------------------------------------------
Main(p) == Start(p) \/ OpenFails(p) \/ LockTaken(p) \/ Refused(p) \/ GiveUp(p) \/ Sleep(p)
             \/ SleepOver(p) \/ Fork(p) \/ ForkFails(p) \/ Reap(p)

Child(p) == Exec(p) \/ ExecFails(p) \/ CommandEnds(p)

Next == \E p \in Proc : Main(p) \/ Child(p) \/ Kill(p)

Spec == Init /\ [][Next]_vars

\* Every process goes on, and commands end.
Fairness == \A p \in Proc : WF_vars(Main(p)) /\ WF_vars(Child(p))

FairSpec == Spec /\ Fairness
-----------------------------------------------------------------------------
Alive(p) == child[p] \in {"forked", "running"}

\* Only one command runs at a time, which is what lockrun is for, unless somebody
\* kills an instance and leaves its child running: the lock is kept for as long
\* as the command runs, also by an instance whose waitpid fails.
OneAtATimeUnlessKilled ==
  \A p, q \in Proc :
    Alive(p) /\ Alive(q) /\ pc[p] # "killed" /\ pc[q] # "killed" => p = q

\* --retries bounds the attempts, and an instance that gives up has tried that
\* often: at least one attempt, even when the limit is one.
RetriesBounded ==
  \A p \in Proc :
    /\ opt[p].retries > 0 => attempts[p] <= opt[p].retries
    /\ pc[p] = "exited" /\ why[p] = "locked" /\ opt[p].wait =>
         opt[p].retries > 0 /\ attempts[p] = opt[p].retries

\* lockrun.c:329: the exit status is that of the command, so a success is one
\* of a command that has run.
SuccessMeansRan ==
  \A p \in Proc :
    pc[p] = "exited" /\ why[p] = "done" /\ rc[p] = EXIT_SUCCESS => child[p] = "ended"

\* Every instance exits in the end, the ones that wait for the lock included,
\* unless it is to wait without limit for a lock that the file never gives.
EveryRunEnds ==
  \A p \in Proc :
    pc[p] # "new" ~>
      \/ pc[p] \in {"exited", "killed"}
      \/ ~opt[p].locks /\ opt[p].wait /\ opt[p].retries <= 0
=============================================================================
