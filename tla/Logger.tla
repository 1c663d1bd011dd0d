------------------------------- MODULE Logger -------------------------------
(***************************************************************************)
(* logger.c: the log of a process, which keeps the second it has last      *)
(* printed and its text, the text of the process id, and a stream.  It has *)
(* no lock, and fork copies it.  A program has one log at a time, and does *)
(* not delete it under a thread that writes.  What a message says, its     *)
(* level and its length are left out.                                      *)
(***************************************************************************)
EXTENDS Files

CONSTANT MaxClock    \* bound: seconds

ASSUME LoggerAssumption == MaxClock \in Nat \ {0}

VARIABLES
  now,      \* time()
  log,      \* the log_t of each process
  raced,    \* history: processes with two threads in their log at once
  foreign   \* history: processes whose log was given its process id by another

logger == <<now, log, raced, foreign>>

NoFd  == -1
NoLog == [fd |-> NoFd]
InLog == {"stamp", "format", "write", "rotate"}

LoggerInit ==
  /\ now = 1
  /\ log = [p \in Proc |-> NoLog]
  /\ raced = {} /\ foreign = {}

\* A thread enters the log.
Entering(t) == raced' = IF Others(t, InLog) # {} THEN raced \cup {P(t)} ELSE raced

\* log_new.  It leaves log->file unset: the program may set it, or not.  If
\* the file cannot be opened nothing has changed.
LogNew(t) ==
  /\ Begin(t, "idle", NoCall) /\ Main(t)
  /\ log[P(t)] = NoLog /\ FreeFd(P(t)) # {}
  /\ desc' = Opening(P(t), "log")
  /\ \E named \in BOOLEAN : log' = Set(log, P(t),
       [fd |-> LowestFd(P(t)), named |-> named, ts |-> 0, text |-> 0, pid |-> P(t)])
  /\ UNCHANGED <<leak, now, raced, foreign>>

LogSetPid(t) ==
  /\ Begin(t, "idle", NoCall) /\ Main(t)
  /\ log[P(t)] # NoLog
  /\ log' = [log EXCEPT ![P(t)].pid = P(t)]
  /\ foreign' = foreign \ {P(t)}
  /\ Entering(t)
  /\ UNCHANGED <<desc, leak, now>>

LogDelete(t) ==
  /\ Begin(t, "idle", NoCall) /\ Main(t)
  /\ log[P(t)] # NoLog /\ Others(t, InLog) = {}
  /\ desc' = Closing(P(t), {log[P(t)].fd})
  /\ log' = Set(log, P(t), NoLog)
  /\ UNCHANGED <<leak, now, raced, foreign>>

\* log_rotate up to fopen.
RotateClose(t) ==
  /\ Begin(t, "rotate", NoCall) /\ Main(t)
  /\ log[P(t)] # NoLog
  /\ desc' = Closing(P(t), {log[P(t)].fd})
  /\ log' = [log EXCEPT ![P(t)].fd = NoFd]
  /\ Entering(t)
  /\ UNCHANGED <<leak, now, foreign>>

\* fopen of log->file, which may fail.  Unset, it is an address of anything: the
\* process crashes, the name is that of no file, or of some file.
RotateOpen(t) ==
  /\ \/ /\ Resume(t, "rotate", "idle", NoCall)
        /\ \/ /\ FreeFd(P(t)) # {}
              /\ desc' = Opening(P(t), IF log[P(t)].named THEN "log" ELSE "other")
              /\ log' = [log EXCEPT ![P(t)].fd = LowestFd(P(t))]
           \/ UNCHANGED <<desc, log>>
        /\ UNCHANGED leak
     \/ /\ pc[t] = "rotate" /\ ~log[P(t)].named
        /\ Ends(P(t)) /\ UNCHANGED log
  /\ UNCHANGED <<now, raced, foreign>>
-----------------------------------------------------------------------------
(* log_put *)

\* Variant: the time is made anew every other second.
OutOfDateByTwo(p) == now > log[p].ts + 1

OutOfDate(p) == now # log[p].ts

AfterTime(t) == IF OutOfDate(P(t)) THEN "stamp" ELSE "format"

\* The time is read; if it is not that of the text, log->ts is set to it first.
TimeRead(t) ==
  /\ log' = IF OutOfDate(P(t)) THEN [log EXCEPT ![P(t)].ts = now] ELSE log
  /\ Entering(t)
  /\ UNCHANGED <<desc, leak, now, foreign>>

PutTime(t) ==
  /\ log[P(t)] # NoLog
  /\ Begin(t, AfterTime(t), [fds |-> {}, ts |-> now])
  /\ TimeRead(t)

\* The same call, made by a function that fails, if it has been given the log.
ErrorTime(t) ==
  \/ /\ Resume(t, "error", "idle", NoCall)
     /\ log[P(t)] = NoLog
     /\ UNCHANGED <<desc, leak, logger>>
  \/ /\ log[P(t)] # NoLog
     /\ Resume(t, "error", AfterTime(t), [fds |-> {}, ts |-> now])
     /\ TimeRead(t)

\* The text of the time is made.
PutStamp(t) ==
  /\ Resume(t, "stamp", "format", local[t])
  /\ log' = [log EXCEPT ![P(t)].text = local[t].ts]
  /\ UNCHANGED <<desc, leak, now, raced, foreign>>

\* The line is put together from the log.
PutFormat(t) ==
  /\ Resume(t, "format", "write",
       [fds |-> {}, ts |-> local[t].ts, text |-> log[P(t)].text, pid |-> log[P(t)].pid])
  /\ UNCHANGED <<desc, leak, logger>>

\* The line goes to the stream; without one the process crashes.
PutWrite(t) ==
  /\ \/ log[P(t)].fd # NoFd /\ Resume(t, "write", "idle", NoCall) /\ UNCHANGED <<desc, leak>>
     \/ log[P(t)].fd = NoFd /\ pc[t] = "write" /\ Ends(P(t))
  /\ UNCHANGED logger

Tick ==
  /\ now < MaxClock
  /\ now' = now + 1
  /\ UNCHANGED <<files, log, raced, foreign>>

Logging(t) ==
  \/ LogNew(t) \/ LogDelete(t) \/ LogSetPid(t) \/ RotateClose(t) \/ RotateOpen(t)
  \/ PutTime(t) \/ ErrorTime(t) \/ PutStamp(t) \/ PutFormat(t) \/ PutWrite(t)
-----------------------------------------------------------------------------
\* A line that is about to be written bears the second in which its call read
\* the time and the id of its process, unless two threads have been in the log
\* at once, or fork has taken it over from a thread that was changing it, or
\* has left it with the id of the parent.
LinesExact ==
  \A t \in Thread : pc[t] = "write" =>
    /\ P(t) \notin raced => local[t].text = local[t].ts
    /\ P(t) \notin raced \cup foreign => local[t].pid = P(t)
=============================================================================
