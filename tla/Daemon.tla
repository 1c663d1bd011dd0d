------------------------------- MODULE Daemon -------------------------------
(***************************************************************************)
(* Instances of a program that log, turn into daemons, keep their id in a  *)
(* file and copy files, with two threads each: logger.c, proc.c and file.c *)
(* over the descriptors that the threads of a process share.               *)
(***************************************************************************)
EXTENDS ProcHelpers, FileCopy

vars == <<files, logger, proc, to>>

Init == FilesInit /\ LoggerInit /\ ProcInit /\ CopyInit

Kill(p) ==
  /\ Ends(p)
  /\ UNCHANGED <<logger, proc, to>>

Next ==
  \/ Tick /\ UNCHANGED <<proc, to>>
  \/ \E p \in up : Kill(p)
  \/ \E t \in Thread :
       \/ Logging(t) /\ UNCHANGED <<proc, to>>
       \/ Helping(t) /\ UNCHANGED to
       \/ Copying(t) /\ UNCHANGED <<logger, proc>>

Spec == Init /\ [][Next]_vars
-----------------------------------------------------------------------------
\* The descriptors of a process and what its log and its calls take them for
\* agree: each that is open is a standard one, the log's, or that of a call in
\* progress, unless a call has failed or fork has come between; what a call in
\* progress has opened is what it opened; and the stream of a log is on the log
\* file, unless the process was started without descriptor 0 or the log has
\* been rotated without a name.
DescriptorsKept ==
  \A p \in up :
    LET mine == {t \in Thread : P(t) = p}
        kept == UNION {local[t].fds : t \in mine}
    IN  /\ p \notin leak =>
             \A f \in Fd \ Stdio : desc[p][f] # Closed => f \in kept \cup {log[p].fd}
        /\ \A t \in mine : \A f \in local[t].fds :
             desc[p][f] \in IF pc[t] = "save" THEN {"pid", "unlinked"} ELSE {"from", "to"}
        /\ p \in stdio /\ log[p].fd # NoFd =>
             desc[p][log[p].fd] = "log" \/ ~log[p].named
=============================================================================
