----------------------------- MODULE ProcHelpers -----------------------------
(***************************************************************************)
(* proc.c: a process becomes a daemon, and keeps its id in a file.  The    *)
(* text of an id is as many copies of the id as it has digits.             *)
(*                                                                         *)
(* From fork to the end of proc_daemonize the child has one thread and     *)
(* descriptors of its own: what it does there is one step.                 *)
(***************************************************************************)
EXTENDS Logger

CONSTANT Lengths    \* bound: numbers of digits of a process id

ASSUME ProcAssumption == Lengths \subseteq Nat \ {0}

VARIABLES
  pid,      \* the pid file: its text, or NoFile
  digits,   \* of each process id
  daemon,   \* how proc_daemonize ended in each process: "ok", "failed" or "no"
  saver,    \* history: the process whose id was written last, if it is still there
  clash     \* history: ids of different lengths were being saved at once

proc == <<pid, digits, daemon, saver, clash>>

NoFile  == <<NoProc>>
Text(p) == [i \in 1 .. digits[p] |-> p]

ProcInit ==
  /\ pid = NoFile
  /\ digits \in [Proc -> Lengths]
  /\ daemon = [p \in Proc |-> "no"]
  /\ saver = NoProc /\ clash = FALSE
-----------------------------------------------------------------------------
(* proc_daemonize *)

\* fork: the child has a copy of everything and only the thread that forked, so
\* what other threads were doing stays half done in it.
Fork(t) ==
  /\ pc[t] = "idle" /\ Main(t) /\ calls < MaxCalls
  /\ calls' = calls + 1
  /\ \E c \in Proc \ born :
       /\ born' = born \cup {c} /\ up' = up \cup {c}
       /\ desc' = Set(desc, c, desc[P(t)])
       /\ log' = Set(log, c, log[P(t)])
       /\ pc' = [pc EXCEPT ![t] = "exit", ![<<c, "main">>] = "setup"]
       /\ stdio' = IF P(t) \in stdio THEN stdio \cup {c} ELSE stdio
       /\ leak' = IF P(t) \in leak \/ \E u \in Thread : P(u) = P(t) /\ local[u].fds # {}
                    THEN leak \cup {c} ELSE leak
       /\ raced' = IF P(t) \in raced \/ Others(t, {"stamp"}) # {} THEN raced \cup {c} ELSE raced
       /\ foreign' = foreign \cup {c}
  /\ UNCHANGED <<local, now, proc>>

ForkFails(t) ==
  /\ Begin(t, "error", NoCall) /\ Main(t)
  /\ UNCHANGED <<desc, leak, logger, proc>>

\* exit of the parent, whatever its other threads are doing.
ParentExit(t) ==
  /\ pc[t] = "exit"
  /\ Ends(P(t))
  /\ UNCHANGED <<logger, proc>>

\* Variant: the second descriptor is forgotten.
NulledNotOutput(p, f, n) == [g \in Fd |-> IF g = f \/ (g < n /\ g # 1) THEN "null" ELSE desc[p][g]]

\* Descriptors with /dev/null on f and on the first n of the standard ones.
Nulled(p, f, n) == [g \in Fd |-> IF g = f \/ g < n THEN "null" ELSE desc[p][g]]

\* /dev/null is opened, dup2 puts it in three places, and its own descriptor is
\* closed, also if that is one of the three.  Then the program has two threads.
Setup(t) ==
  /\ pc[t] = "setup" /\ FreeFd(P(t)) # {}
  /\ LET f == LowestFd(P(t))
     IN  desc' = Set(desc, P(t), [Nulled(P(t), f, 3) EXCEPT ![f] = Closed])
  /\ daemon' = Set(daemon, P(t), "ok")
  /\ pc' = [pc EXCEPT ![t] = "idle", ![<<P(t), "worker">>] = "idle"]
  /\ UNCHANGED <<born, up, local, calls, stdio, leak, logger, pid, digits, saver, clash>>

\* setsid or open fails, or one of the calls of dup2: /dev/null stays open then.
\* The caller is in the child; the parent has exited with success.
SetupFails(t) ==
  /\ Resume(t, "setup", "error", NoCall)
  /\ \/ UNCHANGED <<desc, leak>>
     \/ /\ FreeFd(P(t)) # {}
        /\ \E n \in Stdio : desc' = Set(desc, P(t), Nulled(P(t), LowestFd(P(t)), n))
        /\ leak' = leak \cup {P(t)}
  /\ daemon' = Set(daemon, P(t), "failed")
  /\ UNCHANGED <<logger, pid, digits, saver, clash>>
-----------------------------------------------------------------------------
(* proc_pid_save, proc_pid_delete *)

\* fopen makes the file, or empties it.
PidOpen(t) ==
  /\ FreeFd(P(t)) # {} /\ Main(t)
  /\ Begin(t, "save", [fds |-> {LowestFd(P(t))}])
  /\ desc' = Opening(P(t), "pid")
  /\ pid' = <<>> /\ saver' = NoProc
  /\ clash' = (clash \/ \E u \in Thread : pc[u] = "save" /\ digits[P(u)] # digits[P(t)])
  /\ UNCHANGED <<leak, logger, digits, daemon>>

PidOpenFails(t) ==
  /\ Begin(t, "error", NoCall) /\ Main(t)
  /\ UNCHANGED <<desc, leak, logger, proc>>

\* Variant: the stream is opened for appending.
Appended(text) == pid \o text

\* The text is written to the beginning, over what is there by now.
Overwritten(text) == text \o SubSeq(pid, Len(text) + 1, Len(pid))

\* fprintf and fclose: the text goes to the file that was opened, which may have
\* lost its name.  If it cannot be written, the file is left as it is.
PidClose(t) ==
  /\ \/ /\ Resume(t, "save", "idle", NoCall)
        /\ IF \E f \in local[t].fds : desc[P(t)][f] = "pid"
             THEN pid' = Overwritten(Text(P(t))) /\ saver' = P(t)
             ELSE UNCHANGED <<pid, saver>>
     \/ Resume(t, "save", "error", NoCall) /\ UNCHANGED <<pid, saver>>
  /\ desc' = Closing(P(t), local[t].fds)
  /\ UNCHANGED <<leak, logger, digits, daemon, clash>>

\* unlink, by whoever knows the name.
PidDelete(t) ==
  /\ Begin(t, "idle", NoCall) /\ Main(t)
  /\ pid # NoFile
  /\ pid' = NoFile /\ saver' = NoProc
  /\ desc' = [p \in Proc |-> [f \in Fd |-> IF desc[p][f] = "pid" THEN "unlinked" ELSE desc[p][f]]]
  /\ UNCHANGED <<leak, logger, digits, daemon, clash>>

PidDeleteFails(t) ==
  /\ Begin(t, "error", NoCall) /\ Main(t)
  /\ pid = NoFile
  /\ UNCHANGED <<desc, leak, logger, proc>>

Helping(t) ==
  \/ Fork(t) \/ ForkFails(t) \/ ParentExit(t) \/ Setup(t) \/ SetupFails(t)
  \/ PidOpen(t) \/ PidOpenFails(t) \/ PidClose(t) \/ PidDelete(t) \/ PidDeleteFails(t)
-----------------------------------------------------------------------------
\* A daemon is off the terminal: its standard descriptors are /dev/null, but for
\* descriptor 0 of a process that was started without one, and none of its
\* descriptors is the terminal.
DaemonDetached ==
  \A p \in up : daemon[p] = "ok" =>
    /\ \A f \in Fd : desc[p][f] # "tty"
    /\ p \in stdio => \A f \in Stdio : desc[p][f] = "null"

\* The pid file reads as the id that was saved last, also if several processes
\* save theirs at once, unless their ids differ in length: then it may be
\* the id of none.
PidFileNames == saver # NoProc /\ ~clash => pid = Text(saver)
=============================================================================
