---------------------------- MODULE DaemonProofs ----------------------------
(***************************************************************************)
(* Theorems about Daemon: any number of processes, descriptors, calls,     *)
(* seconds and blocks.                                                     *)
(***************************************************************************)
EXTENDS Daemon, SequenceTheorems, FiniteSetTheorems, WellFoundedInduction, TLAPS

File == {Closed, "tty", "null", "log", "other", "pid", "unlinked", "from", "to"}

\* The places of a thread; those where it may have descriptors of its own.
Holding == {"creat", "read", "copy_write", "copied", "save"}
Place == {"none", "idle", "stamp", "format", "write", "rotate", "error", "exit", "setup"} \cup Holding

\* What a thread keeps during a call: of log_put, of file_copy, of any other.
PutCall  == [fds : {{}}, ts : Nat] \cup [fds : {{}}, ts : Nat, text : Nat, pid : Proc]
CopyCall == [fds : SUBSET Fd, read : Nat, written : Nat, failed : BOOLEAN, shared : BOOLEAN]
Call     == [fds : SUBSET Fd] \cup PutCall \cup CopyCall

OpenLog == [fd : Fd \cup {NoFd}, named : BOOLEAN, ts : Nat, text : Nat, pid : Proc]

FilesOK ==
  /\ up \subseteq born /\ born \subseteq Proc
  /\ desc \in [Proc -> [Fd -> File]]
  /\ pc \in [Thread -> Place]
  /\ local \in [Thread -> Call]
  /\ stdio \subseteq born /\ leak \subseteq Proc
  /\ log \in [Proc -> {NoLog} \cup OpenLog]
  /\ daemon \in [Proc -> {"ok", "failed", "no"}]

AsideOK ==
  /\ now \in Nat
  /\ raced \subseteq Proc /\ foreign \subseteq Proc
  /\ digits \in [Proc -> Lengths]

TypeOK == FilesOK /\ AsideOK

\* What the place of a thread says of its call and of its log.
PlaceOf(t) ==
  /\ P(t) \notin up => pc[t] = "none"
  /\ pc[t] \notin Holding => local[t].fds = {}
  /\ pc[t] \in {"stamp", "format", "write"} => local[t] \in PutCall
  /\ pc[t] = "write" => local[t].text \in Nat /\ local[t].pid \in Proc
  /\ pc[t] \in {"creat", "read", "copy_write", "copied"} => local[t] \in CopyCall
  /\ pc[t] \in {"setup", "exit", "save", "rotate"} => Main(t)
  /\ pc[t] = "setup" => \A u \in Thread : P(u) = P(t) /\ u # t => pc[u] = "none"
  /\ pc[t] \in InLog => log[P(t)] # NoLog
  /\ pc[t] = "rotate" => log[P(t)].fd = NoFd

PlaceInv ==
  /\ \A t \in Thread : PlaceOf(t)
  /\ \A p \in Proc \ born : daemon[p] = "no"

\* The descriptors of a call are of the files that it opens, and of no other call;
\* those of a log are its file; the standard ones are those of a terminal or of
\* a daemon; and each that is open belongs to something.
Owns(t) ==
  \A f \in local[t].fds :
    desc[P(t)][f] \in IF pc[t] = "save" THEN {"pid", "unlinked"} ELSE {"from", "to"}

Apart(t, u) == t # u /\ P(t) = P(u) => local[t].fds \cap local[u].fds = {}

LogFile(p) ==
  log[p].fd # NoFd =>
    /\ desc[p][log[p].fd] \in {"log", "other", "null"}
    /\ p \in stdio => desc[p][log[p].fd] = "log" \/ (desc[p][log[p].fd] = "other" /\ ~log[p].named)

Standard(p) ==
  /\ p \in stdio => \A f \in Stdio : desc[p][f] \in {"tty", "null"}
  /\ \A f \in Fd \ Stdio : desc[p][f] # "tty"
  /\ daemon[p] = "ok" =>
       /\ \A f \in Fd : desc[p][f] # "tty"
       /\ p \in stdio => \A f \in Stdio : desc[p][f] = "null"

Accounted(p) ==
  p \notin leak =>
    \A f \in Fd \ Stdio : desc[p][f] # Closed =>
      f = log[p].fd \/ \E t \in Thread : P(t) = p /\ f \in local[t].fds

FdInv ==
  /\ \A t \in Thread : Owns(t)
  /\ \A t, u \in Thread : Apart(t, u)
  /\ \A p \in up : LogFile(p) /\ Standard(p) /\ Accounted(p)
-----------------------------------------------------------------------------
(* Calls and logs *)

LEMMA CallIs ==
  /\ \A x \in Call : x.fds \subseteq Fd
  /\ \A x \in PutCall : x \in Call /\ x.fds = {}
  /\ \A x \in CopyCall : x \in Call /\ x.fds \subseteq Fd /\ x.read \in Nat /\ x.written \in Nat
                         /\ x.failed \in BOOLEAN /\ x.shared \in BOOLEAN
  /\ \A F \in SUBSET Fd : [fds |-> F] \in Call /\ [fds |-> F].fds = F
  /\ \A n \in Nat : [fds |-> {}, ts |-> n] \in PutCall
  /\ \A n, m \in Nat, p \in Proc : [fds |-> {}, ts |-> n, text |-> m, pid |-> p] \in PutCall
BY DEF Call, PutCall, CopyCall

LEMMA PutCallIs ==
  /\ \A n \in Nat : [fds |-> {}, ts |-> n].ts = n
  /\ \A x \in PutCall : x.ts \in Nat
BY DEF PutCall

LEMMA NoCallIs == NoCall \in Call /\ NoCall.fds = {}
BY CallIs DEF NoCall

LEMMA LogIs ==
  /\ \A x \in OpenLog : x # NoLog /\ x.fd \in Fd \cup {NoFd} /\ x.named \in BOOLEAN /\ x.ts \in Nat
                        /\ x.text \in Nat /\ x.pid \in Proc
  /\ NoLog.fd = NoFd
  /\ NoFd \notin Fd
  /\ \A f \in Fd \cup {NoFd}, n \in BOOLEAN, i, j \in Nat, p \in Proc :
       [fd |-> f, named |-> n, ts |-> i, text |-> j, pid |-> p] \in OpenLog
<1>1. NoFd \notin Fd
  BY FilesAssumption DEF NoFd, Fd
<1>2. \A x \in OpenLog : x # NoLog
  <2>1. ASSUME NEW x \in OpenLog PROVE "ts" \in DOMAIN x
    BY DEF OpenLog
  <2>2. "ts" \notin DOMAIN NoLog
    BY DEF NoLog
  <2> QED BY <2>1, <2>2
<1> HIDE DEF NoFd
<1> QED BY <1>1, <1>2 DEF OpenLog, NoLog

\* A change of one part of a log leaves the others.
LEMMA LogChanges ==
  ASSUME NEW x \in OpenLog
  PROVE  /\ \A f \in Fd \cup {NoFd} : [x EXCEPT !.fd = f] \in OpenLog
              /\ [x EXCEPT !.fd = f].fd = f /\ [x EXCEPT !.fd = f].named = x.named
              /\ [x EXCEPT !.fd = f].ts = x.ts /\ [x EXCEPT !.fd = f].text = x.text
              /\ [x EXCEPT !.fd = f].pid = x.pid
         /\ \A n \in Nat : [x EXCEPT !.ts = n] \in OpenLog
              /\ [x EXCEPT !.ts = n].ts = n /\ [x EXCEPT !.ts = n].named = x.named
              /\ [x EXCEPT !.ts = n].fd = x.fd /\ [x EXCEPT !.ts = n].text = x.text
              /\ [x EXCEPT !.ts = n].pid = x.pid
         /\ \A n \in Nat : [x EXCEPT !.text = n] \in OpenLog
              /\ [x EXCEPT !.text = n].text = n /\ [x EXCEPT !.text = n].named = x.named
              /\ [x EXCEPT !.text = n].fd = x.fd /\ [x EXCEPT !.text = n].ts = x.ts
              /\ [x EXCEPT !.text = n].pid = x.pid
         /\ \A p \in Proc : [x EXCEPT !.pid = p] \in OpenLog
              /\ [x EXCEPT !.pid = p].pid = p /\ [x EXCEPT !.pid = p].named = x.named
              /\ [x EXCEPT !.pid = p].fd = x.fd /\ [x EXCEPT !.pid = p].ts = x.ts
              /\ [x EXCEPT !.pid = p].text = x.text
BY DEF OpenLog

\* open finds the lowest descriptor that is free.
LEMMA LowestFree ==
  ASSUME NEW p, FreeFd(p) # {}
  PROVE  LowestFd(p) \in Fd /\ desc[p][LowestFd(p)] = Closed
<1> DEFINE S == FreeFd(p)
<1>1. S \subseteq Nat /\ S # {} /\ S \subseteq Fd
  BY FilesAssumption DEF FreeFd, Fd
<1>2. PICK x \in S : \A y \in S : ~ (<<y, x>> \in OpToRel(<, Nat))
  <2> HIDE DEF S
  <2>1. IsWellFoundedOn(OpToRel(<, Nat), Nat)
    BY NatLessThanWellFounded
  <2> QED BY <1>1, <2>1, WFMin
<1>3. \A y \in S : ~ (y < x)
  BY <1>1, <1>2 DEF OpToRel
<1>4. \A y \in S : x <= y
  BY <1>1, <1>3
<1>5. Min(S) \in S
  <2> HIDE DEF S
  <2> QED BY <1>4 DEF Min
<1> QED BY <1>1, <1>5 DEF LowestFd, FreeFd
-----------------------------------------------------------------------------
(* What a step of a thread changes *)

\* Thread t goes to l with the call c; another may learn that its copy is shared.
Goes(t, l, c) ==
  /\ pc[t] # "none"
  /\ pc' \in [Thread -> Place] /\ local' \in [Thread -> Call]
  /\ pc'[t] = l /\ local'[t] = c
  /\ \A u \in Thread : u # t =>
       /\ pc'[u] = pc[u]
       /\ \/ local'[u] = local[u]
          \/ u \in InCopy /\ local'[u] \in CopyCall /\ local'[u].fds = local[u].fds
  /\ UNCHANGED <<born, up, stdio>>

\* The place and the call of t agree, and its log is there.
Agrees(t, l, c) ==
  /\ l \notin {"none", "setup"}
  /\ l \notin Holding => c.fds = {}
  /\ l \in {"stamp", "format", "write"} => c \in PutCall
  /\ l = "write" => c.text \in Nat /\ c.pid \in Proc
  /\ l \in {"creat", "read", "copy_write", "copied"} => c \in CopyCall
  /\ l \in {"exit", "save", "rotate"} => Main(t)
  /\ l \in InLog => log[P(t)] # NoLog

\* No log is opened, closed or given another stream.
LogsKeep ==
  /\ log' \in [Proc -> {NoLog} \cup OpenLog]
  /\ \A p \in Proc : /\ log'[p].fd = log[p].fd
                     /\ (log'[p] = NoLog <=> log[p] = NoLog)
                     /\ log[p] # NoLog => log'[p].named = log[p].named

\* No descriptor gets another file; the pid file may lose its name.
FilesKeep ==
  /\ desc' \in [Proc -> [Fd -> File]]
  /\ \A p \in Proc, f \in Fd :
       desc'[p][f] = desc[p][f] \/ (desc[p][f] = "pid" /\ desc'[p][f] = "unlinked")

\* A step that opens nothing and closes nothing.
Quiet(t) ==
  \E l \in Place, c \in Call :
    /\ Goes(t, l, c) /\ Agrees(t, l, c) /\ l # "rotate"
    /\ c.fds = local[t].fds /\ (l = "save" <=> pc[t] = "save")
    /\ LogsKeep /\ FilesKeep
    /\ UNCHANGED <<leak, daemon>>

\* A thread opens a file for itself.
Opens(t) ==
  \E l \in Place, c \in Call, file \in {"pid", "from", "to"} :
    /\ Goes(t, l, c) /\ Agrees(t, l, c) /\ l \in Holding
    /\ FreeFd(P(t)) # {} /\ desc' = Opening(P(t), file)
    /\ c.fds = local[t].fds \cup {LowestFd(P(t))}
    /\ IF file = "pid" THEN local[t].fds = {} /\ l = "save" ELSE pc[t] # "save" /\ l # "save"
    /\ LogsKeep
    /\ UNCHANGED <<leak, daemon>>

\* A thread closes all it has opened, or leaves it behind.
Closes(t) ==
  \E l \in Place, c \in Call :
    /\ Goes(t, l, c) /\ Agrees(t, l, c) /\ l \in {"idle", "error"}
    /\ LogsKeep
    /\ \/ desc' = Closing(P(t), local[t].fds) /\ leak' = leak
       \/ desc' = desc /\ leak' = leak \cup {P(t)}
    /\ UNCHANGED daemon

\* The log of the process of t is opened, or gets a file again.
OpensLog(t) ==
  \E x \in OpenLog :
    /\ Goes(t, "idle", NoCall) /\ pc[t] \in {"idle", "rotate"} /\ Main(t)
    /\ FreeFd(P(t)) # {} /\ x.fd = LowestFd(P(t)) /\ log' = Set(log, P(t), x)
    /\ log[P(t)].fd = NoFd
    /\ \E file \in {"log", "other"} :
         (file = "log" \/ ~x.named) /\ desc' = Opening(P(t), file)
    /\ UNCHANGED <<leak, daemon>>

\* Its file is closed.
ClosesLog(t) ==
  \E l \in {"idle", "rotate"}, x \in {NoLog} \cup OpenLog :
    /\ Goes(t, l, NoCall) /\ pc[t] = "idle" /\ Main(t)
    /\ x.fd = NoFd /\ (l = "idle" => x = NoLog /\ Others(t, InLog) = {}) /\ (l = "rotate" => x # NoLog)
    /\ log' = Set(log, P(t), x) /\ desc' = Closing(P(t), {log[P(t)].fd})
    /\ UNCHANGED <<leak, daemon>>

-----------------------------------------------------------------------------
(* Which steps do which *)

LEMMA BeginIs ==
  ASSUME TypeOK, NEW t \in Thread, NEW l \in Place, NEW c \in Call, Begin(t, l, c)
  PROVE  Goes(t, l, c) /\ pc[t] = "idle"
BY DEF TypeOK, FilesOK, AsideOK, Begin, Goes, Set

LEMMA ResumeIs ==
  ASSUME TypeOK, NEW t \in Thread, NEW from \in Place, from # "none",
         NEW l \in Place, NEW c \in Call, Resume(t, from, l, c)
  PROVE  Goes(t, l, c) /\ pc[t] = from
BY DEF TypeOK, FilesOK, AsideOK, Resume, Goes, Set

LEMMA Processes == \A t \in Thread : P(t) \in Proc /\ (t = <<P(t), "main">> \/ t = <<P(t), "worker">>)
BY DEF Thread, P

LEMMA OneMain == \A t, u \in Thread : Main(t) /\ Main(u) /\ P(t) = P(u) => t = u
BY DEF Thread, P, Main

LEMMA PutTimeIs ==
  ASSUME TypeOK, PlaceInv, NEW t \in Thread,
         (PutTime(t) \/ ErrorTime(t)) /\ UNCHANGED daemon
  PROVE  Quiet(t)
<1>p. P(t) \in Proc /\ now \in Nat /\ NoCall \in Call /\ NoCall.fds = {}
      /\ {"idle", "error", "stamp", "format"} \subseteq Place
      /\ {"idle", "error", "stamp", "format"} \cap Holding = {}
  BY Processes, NoCallIs DEF TypeOK, FilesOK, AsideOK, Place, Holding
<1>f. pc[t] \notin Holding => local[t].fds = {}
  BY DEF PlaceInv, PlaceOf
<1>1. CASE Resume(t, "error", "idle", NoCall) /\ UNCHANGED <<desc, leak, logger>>
  <2>1. Goes(t, "idle", NoCall) /\ pc[t] = "error"
    BY <1>1, <1>p, ResumeIs
  <2>2. LogsKeep /\ FilesKeep
    BY <1>1 DEF LogsKeep, FilesKeep, logger, TypeOK, FilesOK, AsideOK
  <2> QED BY <1>1, <1>p, <1>f, <2>1, <2>2 DEF Quiet, Agrees, InLog
<1>2. CASE /\ log[P(t)] # NoLog /\ TimeRead(t)
           /\ \/ Begin(t, AfterTime(t), [fds |-> {}, ts |-> now])
              \/ Resume(t, "error", AfterTime(t), [fds |-> {}, ts |-> now])
  <2> DEFINE k == [fds |-> {}, ts |-> now]
             r == AfterTime(t)
  <2>1. r \in {"stamp", "format"} /\ k \in PutCall /\ k \in Call /\ k.fds = {}
    BY <1>p, CallIs DEF AfterTime
  <2>2. Goes(t, r, k) /\ pc[t] \in {"idle", "error"}
    <3> HIDE DEF k, r
    <3>1. r \in Place
      BY <1>p, <2>1
    <3>2. CASE Begin(t, r, k)
      BY <2>1, <3>1, <3>2, BeginIs
    <3>3. CASE Resume(t, "error", r, k)
      BY <1>p, <2>1, <3>1, <3>3, ResumeIs
    <3> QED BY <1>2, <3>2, <3>3 DEF k, r
  <2>3. LogsKeep
    <3>1. log[P(t)] \in OpenLog /\ log \in [Proc -> {NoLog} \cup OpenLog]
      BY <1>2, <1>p DEF TypeOK, FilesOK, AsideOK
    <3> DEFINE x == [log[P(t)] EXCEPT !.ts = now]
    <3>2. log' = log \/ log' = [log EXCEPT ![P(t)] = x]
      BY <1>2 DEF TimeRead
    <3>3. x \in OpenLog /\ x # NoLog /\ x.fd = log[P(t)].fd /\ x.named = log[P(t)].named
      BY <1>p, <3>1, LogChanges, LogIs
    <3> HIDE DEF x
    <3> QED BY <1>p, <1>2, <3>1, <3>2, <3>3 DEF LogsKeep
  <2> HIDE DEF k, r
  <2>4. local[t].fds = {} /\ r \in Place /\ r \notin Holding /\ pc[t] # "save"
    BY <1>p, <1>f, <2>1, <2>2
  <2>5. Agrees(t, r, k)
    BY <1>2, <2>1, <2>4 DEF Agrees
  <2>6. FilesKeep /\ UNCHANGED <<leak, daemon>>
    BY <1>2 DEF TimeRead, FilesKeep, TypeOK, FilesOK, AsideOK
  <2> QED BY <2>1, <2>2, <2>3, <2>4, <2>5, <2>6 DEF Quiet
<1> QED BY <1>1, <1>2 DEF PutTime, ErrorTime

LEMMA PutStampIs ==
  ASSUME TypeOK, PlaceInv, NEW t \in Thread, PutStamp(t), UNCHANGED daemon
  PROVE  Quiet(t)
<1>1. P(t) \in Proc /\ "stamp" \in Place /\ "format" \in Place /\ local[t] \in Call /\ pc[t] = "stamp"
  BY Processes DEF TypeOK, FilesOK, AsideOK, Place, PutStamp, Resume
<1>2. local[t] \in PutCall /\ local[t].fds = {} /\ log[P(t)] # NoLog /\ local[t].ts \in Nat
  BY <1>1, PutCallIs DEF PlaceInv, PlaceOf, InLog, Holding
<1>3. Goes(t, "format", local[t])
  BY <1>1, ResumeIs DEF PutStamp
<1>4. log[P(t)] \in OpenLog /\ log \in [Proc -> {NoLog} \cup OpenLog]
  BY <1>1, <1>2 DEF TypeOK, FilesOK, AsideOK
<1> DEFINE x == [log[P(t)] EXCEPT !.text = local[t].ts]
<1>5. log' = [log EXCEPT ![P(t)] = x]
  BY DEF PutStamp
<1>6. x \in OpenLog /\ x # NoLog /\ x.fd = log[P(t)].fd /\ x.named = log[P(t)].named
  BY <1>2, <1>4, LogChanges, LogIs
<1> HIDE DEF x
<1>7. LogsKeep
  BY <1>1, <1>2, <1>4, <1>5, <1>6 DEF LogsKeep
<1>8. FilesKeep /\ UNCHANGED <<leak, daemon>>
  BY DEF PutStamp, FilesKeep, TypeOK, FilesOK, AsideOK
<1>9. Agrees(t, "format", local[t])
  BY <1>2 DEF Agrees, Holding
<1> QED BY <1>1, <1>3, <1>7, <1>8, <1>9 DEF Quiet

LEMMA PutFormatIs ==
  ASSUME TypeOK, PlaceInv, NEW t \in Thread, PutFormat(t), UNCHANGED daemon
  PROVE  Quiet(t)
<1>1. P(t) \in Proc /\ "format" \in Place /\ "write" \in Place /\ pc[t] = "format"
  BY Processes DEF TypeOK, FilesOK, AsideOK, Place, PutFormat, Resume
<1>2. local[t] \in PutCall /\ local[t].fds = {} /\ log[P(t)] # NoLog /\ local[t].ts \in Nat
  BY <1>1, PutCallIs DEF PlaceInv, PlaceOf, InLog, Holding
<1>3. log[P(t)] \in OpenLog
  BY <1>1, <1>2 DEF TypeOK, FilesOK, AsideOK
<1> DEFINE k == [fds |-> {}, ts |-> local[t].ts, text |-> log[P(t)].text, pid |-> log[P(t)].pid]
<1>4. k \in PutCall /\ k \in Call /\ k.fds = {} /\ k.text \in Nat /\ k.pid \in Proc
  BY <1>2, <1>3, CallIs, LogIs
<1>5. Resume(t, "format", "write", k)
  BY DEF PutFormat
<1> HIDE DEF k
<1>6. Goes(t, "write", k)
  BY <1>1, <1>4, <1>5, ResumeIs
<1>7. LogsKeep /\ FilesKeep /\ UNCHANGED <<leak, daemon>>
  BY DEF PutFormat, FilesKeep, LogsKeep, TypeOK, FilesOK, AsideOK, logger
<1>8. Agrees(t, "write", k)
  BY <1>2, <1>4 DEF Agrees, Holding
<1> QED BY <1>1, <1>2, <1>4, <1>6, <1>7, <1>8 DEF Quiet

\* Calls that only come back.
LEMMA BackIs ==
  ASSUME TypeOK, PlaceInv, NEW t \in Thread, NEW l \in {"idle", "error"},
         \/ Begin(t, l, NoCall)
         \/ \E from \in {"write", "rotate"} : Resume(t, from, l, NoCall),
         LogsKeep, FilesKeep, UNCHANGED <<leak, daemon>>
  PROVE  Quiet(t)
<1>1. l \in Place /\ l \notin Holding /\ NoCall \in Call /\ NoCall.fds = {}
  BY NoCallIs DEF Place, Holding
<1>2. Goes(t, l, NoCall) /\ pc[t] \in {"idle", "write", "rotate"}
  <2>1. CASE Begin(t, l, NoCall)
    BY <1>1, <2>1, BeginIs
  <2>2. ASSUME NEW from \in {"write", "rotate"}, Resume(t, from, l, NoCall)
        PROVE  Goes(t, l, NoCall) /\ pc[t] \in {"idle", "write", "rotate"}
    <3>1. from \in Place /\ from # "none"
      BY DEF Place
    <3> QED BY <1>1, <2>2, <3>1, ResumeIs
  <2> QED BY <2>1, <2>2
<1>3. local[t].fds = {}
  BY <1>2 DEF PlaceInv, PlaceOf, Holding
<1>4. Agrees(t, l, NoCall)
  BY <1>1 DEF Agrees, InLog
<1> QED BY <1>1, <1>2, <1>3, <1>4 DEF Quiet

LEMMA LogSetPidIs ==
  ASSUME TypeOK, PlaceInv, NEW t \in Thread, LogSetPid(t), UNCHANGED daemon
  PROVE  Quiet(t)
<1>1. P(t) \in Proc /\ log[P(t)] \in OpenLog /\ log \in [Proc -> {NoLog} \cup OpenLog]
  BY Processes DEF TypeOK, FilesOK, AsideOK, LogSetPid
<1> DEFINE x == [log[P(t)] EXCEPT !.pid = P(t)]
<1>2. log' = [log EXCEPT ![P(t)] = x]
  BY DEF LogSetPid
<1>3. x \in OpenLog /\ x # NoLog /\ x.fd = log[P(t)].fd /\ x.named = log[P(t)].named
  BY <1>1, LogChanges, LogIs
<1> HIDE DEF x
<1>4. LogsKeep
  BY <1>1, <1>2, <1>3, LogIs DEF LogsKeep
<1>5. FilesKeep /\ UNCHANGED <<leak, daemon>> /\ Begin(t, "idle", NoCall)
  BY DEF LogSetPid, FilesKeep, TypeOK, FilesOK, AsideOK
<1> QED BY <1>4, <1>5, BackIs

LEMMA FailIs ==
  ASSUME TypeOK, PlaceInv, NEW t \in Thread,
         ForkFails(t) \/ PidOpenFails(t) \/ PidDeleteFails(t)
  PROVE  Quiet(t)
<1>1. LogsKeep /\ FilesKeep /\ UNCHANGED <<leak, daemon>> /\ Begin(t, "error", NoCall)
  BY DEF ForkFails, PidOpenFails, PidDeleteFails, logger, proc, FilesKeep, LogsKeep, TypeOK, FilesOK, AsideOK
<1> QED BY <1>1, BackIs

LEMMA PidDeleteIs ==
  ASSUME TypeOK, PlaceInv, NEW t \in Thread, PidDelete(t)
  PROVE  Quiet(t)
<1>1. FilesKeep
  BY DEF PidDelete, FilesKeep, TypeOK, FilesOK, AsideOK, File
<1>2. LogsKeep /\ UNCHANGED <<leak, daemon>> /\ Begin(t, "idle", NoCall)
  BY DEF PidDelete, logger, LogsKeep, TypeOK, FilesOK, AsideOK
<1> QED BY <1>1, <1>2, BackIs

LEMMA LogNewIs ==
  ASSUME TypeOK, PlaceInv, NEW t \in Thread, LogNew(t), UNCHANGED daemon
  PROVE  OpensLog(t)
<1>1. P(t) \in Proc /\ LowestFd(P(t)) \in Fd
  BY Processes, LowestFree DEF LogNew
<1>2. Goes(t, "idle", NoCall) /\ pc[t] = "idle"
  BY NoCallIs, BeginIs DEF LogNew, Place
<1>3. PICK named \in BOOLEAN : log' = Set(log, P(t),
        [fd |-> LowestFd(P(t)), named |-> named, ts |-> 0, text |-> 0, pid |-> P(t)])
  BY DEF LogNew
<1> DEFINE x == [fd |-> LowestFd(P(t)), named |-> named, ts |-> 0, text |-> 0, pid |-> P(t)]
<1>4. x \in OpenLog /\ x.fd = LowestFd(P(t))
  BY <1>1, LogIs
<1>5. log' = Set(log, P(t), x)
  BY <1>3
<1>6. /\ log[P(t)].fd = NoFd /\ FreeFd(P(t)) # {} /\ Main(t)
      /\ desc' = Opening(P(t), "log") /\ UNCHANGED <<leak, daemon>>
  BY LogIs DEF LogNew
<1> HIDE DEF x
<1> QED BY <1>2, <1>4, <1>5, <1>6 DEF OpensLog

LEMMA RotateOpenIs ==
  ASSUME TypeOK, PlaceInv, NEW t \in Thread, RotateOpen(t), UNCHANGED daemon
  PROVE  OpensLog(t) \/ Quiet(t) \/ (Ends(P(t)) /\ UNCHANGED log)
<1>1. P(t) \in Proc /\ pc[t] = "rotate" /\ log[P(t)] # NoLog /\ log[P(t)].fd = NoFd /\ Main(t)
  BY Processes DEF RotateOpen, Resume, PlaceInv, PlaceOf, InLog
<1>2. CASE /\ Resume(t, "rotate", "idle", NoCall) /\ FreeFd(P(t)) # {} /\ UNCHANGED leak
           /\ desc' = Opening(P(t), IF log[P(t)].named THEN "log" ELSE "other")
           /\ log' = [log EXCEPT ![P(t)].fd = LowestFd(P(t))]
  <2> DEFINE x == [log[P(t)] EXCEPT !.fd = LowestFd(P(t))]
             file == IF log[P(t)].named THEN "log" ELSE "other"
  <2>1. log[P(t)] \in OpenLog /\ LowestFd(P(t)) \in Fd
    BY <1>1, <1>2, LowestFree DEF TypeOK, FilesOK, AsideOK
  <2>2. x \in OpenLog /\ x.fd = LowestFd(P(t)) /\ x.named = log[P(t)].named
    BY <2>1, LogChanges
  <2>3. file \in {"log", "other"} /\ (file = "log" \/ ~x.named)
    BY <2>2
  <2>4. log' = Set(log, P(t), x)
    BY <1>2 DEF Set
  <2>5. desc' = Opening(P(t), file)
    BY <1>2
  <2>6. Goes(t, "idle", NoCall)
    BY <1>2, NoCallIs, ResumeIs DEF Place
  <2> HIDE DEF x, file
  <2> QED BY <1>1, <1>2, <2>2, <2>3, <2>4, <2>5, <2>6 DEF OpensLog
<1>3. CASE Resume(t, "rotate", "idle", NoCall) /\ UNCHANGED <<desc, log, leak>>
  <2>1. LogsKeep /\ FilesKeep
    BY <1>3 DEF LogsKeep, FilesKeep, TypeOK, FilesOK, AsideOK
  <2> QED BY <1>3, <2>1, BackIs
<1> QED BY <1>2, <1>3 DEF RotateOpen

LEMMA ClosesLogIs ==
  ASSUME TypeOK, PlaceInv, NEW t \in Thread, LogDelete(t) \/ RotateClose(t), UNCHANGED daemon
  PROVE  ClosesLog(t)
<1>1. P(t) \in Proc /\ NoCall \in Call /\ "idle" \in Place /\ "rotate" \in Place
  BY Processes, NoCallIs DEF Place
<1>2. CASE LogDelete(t)
  <2>1. Goes(t, "idle", NoCall) /\ pc[t] = "idle"
    BY <1>1, <1>2, BeginIs DEF LogDelete
  <2> QED BY <1>1, <1>2, <2>1, LogIs DEF LogDelete, ClosesLog
<1>3. CASE RotateClose(t)
  <2> DEFINE x == [log[P(t)] EXCEPT !.fd = NoFd]
  <2>1. Goes(t, "rotate", NoCall) /\ pc[t] = "idle"
    BY <1>1, <1>3, BeginIs DEF RotateClose
  <2>2. log[P(t)] \in OpenLog
    BY <1>1, <1>3 DEF TypeOK, FilesOK, AsideOK, RotateClose
  <2>3. x \in OpenLog /\ x.fd = NoFd /\ x # NoLog
    BY <2>2, LogChanges, LogIs
  <2>4. log' = Set(log, P(t), x)
    BY <1>3 DEF RotateClose, Set
  <2>5. Main(t) /\ desc' = Closing(P(t), {log[P(t)].fd}) /\ UNCHANGED <<leak, daemon>>
    BY <1>3 DEF RotateClose
  <2> HIDE DEF x
  <2>6. x \in {NoLog} \cup OpenLog /\ "rotate" # "idle"
    BY <2>3
  <2> QED BY <1>1, <2>1, <2>3, <2>4, <2>5, <2>6 DEF ClosesLog
<1> QED BY <1>2, <1>3

LEMMA PutWriteIs ==
  ASSUME TypeOK, PlaceInv, NEW t \in Thread, PutWrite(t), UNCHANGED daemon
  PROVE  Quiet(t) \/ (Ends(P(t)) /\ UNCHANGED log)
<1>1. CASE Resume(t, "write", "idle", NoCall) /\ UNCHANGED <<desc, leak>>
  <2>1. LogsKeep /\ FilesKeep
    BY <1>1 DEF PutWrite, logger, LogsKeep, FilesKeep, TypeOK, FilesOK, AsideOK
  <2> QED BY <1>1, <2>1, BackIs
<1> QED BY <1>1 DEF PutWrite, logger

\* Logging is one of the classes, or the end of the process.
LEMMA LoggingIs ==
  ASSUME TypeOK, PlaceInv, NEW t \in Thread, Logging(t), UNCHANGED daemon
  PROVE  Quiet(t) \/ OpensLog(t) \/ ClosesLog(t) \/ (Ends(P(t)) /\ UNCHANGED log)
BY LogNewIs, ClosesLogIs, LogSetPidIs, RotateOpenIs, PutTimeIs, PutStampIs, PutFormatIs, PutWriteIs
   DEF Logging

LEMMA CopyOpenIs ==
  ASSUME TypeOK, PlaceInv, NEW t \in Thread, CopyOpen(t), UNCHANGED <<log, daemon>>
  PROVE  Opens(t)
<1> DEFINE k == NewCopy({LowestFd(P(t))})
<1>1. P(t) \in Proc /\ LowestFd(P(t)) \in Fd
  BY Processes, LowestFree DEF CopyOpen
<1>2. k \in CopyCall /\ k.fds = {LowestFd(P(t))}
  BY <1>1 DEF NewCopy, CopyCall
<1>3. k \in Call /\ "creat" \in Place /\ "creat" \in Holding
  BY <1>2, CallIs DEF Place, Holding
<1>4. Begin(t, "creat", k) /\ FreeFd(P(t)) # {} /\ desc' = Opening(P(t), "from") /\ UNCHANGED <<leak, daemon>>
  BY DEF CopyOpen
<1> HIDE DEF k
<1>5. Goes(t, "creat", k) /\ pc[t] = "idle" /\ local[t].fds = {}
  BY <1>3, <1>4, BeginIs DEF PlaceInv, PlaceOf, Holding
<1>6. LogsKeep
  BY DEF LogsKeep, TypeOK, FilesOK, AsideOK
<1>7. Agrees(t, "creat", k)
  BY <1>2, <1>3 DEF Agrees, InLog
<1> QED BY <1>2, <1>3, <1>4, <1>5, <1>6, <1>7 DEF Opens

LEMMA CreatIs ==
  ASSUME TypeOK, PlaceInv, NEW t \in Thread, Creat(t), UNCHANGED <<log, daemon>>
  PROVE  Opens(t)
<1> DEFINE k == [local[t] EXCEPT !.fds = @ \cup {LowestFd(P(t))}, !.shared = InCopy # {}]
<1>1. P(t) \in Proc /\ LowestFd(P(t)) \in Fd /\ pc[t] = "creat"
  BY Processes, LowestFree DEF Creat
<1>2. local[t] \in CopyCall
  BY <1>1 DEF PlaceInv, PlaceOf
<1>3. k \in CopyCall /\ k.fds = local[t].fds \cup {LowestFd(P(t))}
  BY <1>1, <1>2 DEF CopyCall
<1>4. k \in Call /\ "read" \in Place /\ "read" \in Holding /\ t \notin InCopy
  BY <1>1, <1>3, CallIs DEF Place, Holding, InCopy
<1>5. local'[t] = k
  BY DEF Creat
<1>6. ASSUME NEW u \in Thread, u # t
      PROVE  local'[u] = local[u] \/ (u \in InCopy /\ local'[u] \in CopyCall /\ local'[u].fds = local[u].fds)
  <2>1. CASE u \notin InCopy
    BY <1>6, <2>1 DEF Creat
  <2>2. CASE u \in InCopy
    <3>1. local'[u] = [local[u] EXCEPT !.shared = TRUE]
      BY <1>6, <2>2 DEF Creat
    <3>2. local[u] \in CopyCall
      BY <2>2 DEF PlaceInv, PlaceOf, InCopy
    <3>3. [local[u] EXCEPT !.shared = TRUE] \in CopyCall /\ [local[u] EXCEPT !.shared = TRUE].fds = local[u].fds
      BY <3>2 DEF CopyCall
    <3> QED BY <2>2, <3>1, <3>3
  <2> QED BY <2>1, <2>2
<1> HIDE DEF k
<1>7. local' \in [Thread -> Call]
  <2>1. local' = [u \in Thread |-> local'[u]]
    BY DEF Creat
  <2>2. \A u \in Thread : local'[u] \in Call
    BY <1>4, <1>5, <1>6, CallIs DEF TypeOK, FilesOK, AsideOK
  <2> QED BY <2>1, <2>2
<1>8. Goes(t, "read", k)
  BY <1>1, <1>4, <1>5, <1>6, <1>7 DEF Creat, Goes, Set, TypeOK, FilesOK, AsideOK
<1>9. LogsKeep
  BY DEF LogsKeep, TypeOK, FilesOK, AsideOK
<1>10. Agrees(t, "read", k)
  BY <1>3, <1>4 DEF Agrees, InLog
<1>11. FreeFd(P(t)) # {} /\ desc' = Opening(P(t), "to") /\ UNCHANGED <<leak, daemon>>
  BY DEF Creat
<1> QED BY <1>1, <1>3, <1>4, <1>8, <1>9, <1>10, <1>11 DEF Opens

LEMMA CopyReadWriteIs ==
  ASSUME TypeOK, PlaceInv, NEW t \in Thread, CopyRead(t) \/ CopyWrite(t), UNCHANGED <<log, daemon>>
  PROVE  Quiet(t)
<1>1. pc[t] \in {"read", "copy_write"} /\ local[t] \in CopyCall
  BY DEF CopyRead, CopyWrite, Resume, PlaceInv, PlaceOf
<1>2. PICK l \in {"read", "copy_write", "copied"}, k \in CopyCall :
        Resume(t, pc[t], l, k) /\ k.fds = local[t].fds
  <2>1. /\ [local[t] EXCEPT !.read = @ + 1] \in CopyCall
        /\ [local[t] EXCEPT !.read = @ + 1].fds = local[t].fds
        /\ [local[t] EXCEPT !.failed = TRUE] \in CopyCall
        /\ [local[t] EXCEPT !.failed = TRUE].fds = local[t].fds
        /\ [local[t] EXCEPT !.written = @ + 1] \in CopyCall
        /\ [local[t] EXCEPT !.written = @ + 1].fds = local[t].fds
    <3> DEFINE x == local[t]
    <3>1. x \in CopyCall /\ x.read + 1 \in Nat /\ x.written + 1 \in Nat
      BY <1>1, CallIs
    <3> HIDE DEF x
    <3>2. \A n \in Nat : /\ [x EXCEPT !.read = n] \in CopyCall /\ [x EXCEPT !.read = n].fds = x.fds
                         /\ [x EXCEPT !.written = n] \in CopyCall /\ [x EXCEPT !.written = n].fds = x.fds
      BY <3>1 DEF CopyCall
    <3>3. [x EXCEPT !.failed = TRUE] \in CopyCall /\ [x EXCEPT !.failed = TRUE].fds = x.fds
      BY <3>1 DEF CopyCall
    <3> QED BY <3>1, <3>2, <3>3 DEF x
  <2>2. \/ Resume(t, pc[t], "copy_write", [local[t] EXCEPT !.read = @ + 1])
        \/ Resume(t, pc[t], "copied", local[t])
        \/ Resume(t, pc[t], "copied", [local[t] EXCEPT !.failed = TRUE])
        \/ Resume(t, pc[t], "read", [local[t] EXCEPT !.written = @ + 1])
    BY DEF CopyRead, CopyWrite, Resume
  <2> QED BY <1>1, <2>1, <2>2
<1>3. k \in Call /\ l \in Place /\ l \in Holding /\ pc[t] \in Place /\ pc[t] # "none" /\ pc[t] # "save"
      /\ l \notin InLog /\ l \notin {"none", "setup", "save", "rotate", "exit", "stamp", "format", "write"}
  BY <1>1, <1>2, CallIs DEF Place, Holding, InLog
<1>4. Goes(t, l, k)
  BY <1>2, <1>3, ResumeIs
<1>5. Agrees(t, l, k)
  BY <1>2, <1>3 DEF Agrees
<1>6. LogsKeep /\ FilesKeep /\ UNCHANGED <<leak, daemon>>
  BY DEF CopyRead, CopyWrite, LogsKeep, FilesKeep, TypeOK, FilesOK, AsideOK
<1> QED BY <1>2, <1>3, <1>4, <1>5, <1>6 DEF Quiet

LEMMA CopyEndsIs ==
  ASSUME TypeOK, PlaceInv, NEW t \in Thread, Abandon(t) \/ CopyClose(t), UNCHANGED <<log, daemon>>
  PROVE  Closes(t)
<1>1. NoCall \in Call /\ NoCall.fds = {} /\ "idle" \in Place
  BY NoCallIs DEF Place
<1>2. PICK from \in {"creat", "copy_write", "copied"} : Resume(t, from, "idle", NoCall)
  BY DEF Abandon, CopyClose
<1>3. Goes(t, "idle", NoCall)
  <2>1. from \in Place /\ from # "none"
    BY DEF Place, Holding
  <2> QED BY <1>1, <1>2, <2>1, ResumeIs
<1>4. Agrees(t, "idle", NoCall)
  BY <1>1 DEF Agrees, InLog
<1>5. LogsKeep
  BY DEF LogsKeep, TypeOK, FilesOK, AsideOK
<1>6. \/ desc' = Closing(P(t), local[t].fds) /\ leak' = leak
      \/ desc' = desc /\ leak' = leak \cup {P(t)}
  BY DEF Abandon, CopyClose, ToClose
<1> QED BY <1>1, <1>3, <1>4, <1>5, <1>6 DEF Closes

LEMMA CopyingIs ==
  ASSUME TypeOK, PlaceInv, NEW t \in Thread, Copying(t), UNCHANGED <<log, daemon>>
  PROVE  Quiet(t) \/ Opens(t) \/ Closes(t)
BY CopyOpenIs, CreatIs, CopyReadWriteIs, CopyEndsIs DEF Copying

LEMMA PidOpenIs ==
  ASSUME TypeOK, PlaceInv, NEW t \in Thread, PidOpen(t)
  PROVE  Opens(t)
<1> DEFINE k == [fds |-> {LowestFd(P(t))}]
<1>1. P(t) \in Proc /\ LowestFd(P(t)) \in Fd
  BY Processes, LowestFree DEF PidOpen
<1>2. k \in Call /\ k.fds = {LowestFd(P(t))} /\ "save" \in Place /\ "save" \in Holding
  BY <1>1, CallIs DEF Place, Holding
<1>3. Begin(t, "save", k) /\ Main(t) /\ FreeFd(P(t)) # {} /\ desc' = Opening(P(t), "pid")
      /\ UNCHANGED <<leak, daemon>>
  BY DEF PidOpen
<1> HIDE DEF k
<1>4. Goes(t, "save", k) /\ pc[t] = "idle" /\ local[t].fds = {}
  BY <1>2, <1>3, BeginIs DEF PlaceInv, PlaceOf, Holding
<1>5. LogsKeep
  BY DEF LogsKeep, TypeOK, FilesOK, AsideOK, PidOpen, logger
<1>6. Agrees(t, "save", k)
  BY <1>2, <1>3 DEF Agrees, InLog
<1> QED BY <1>2, <1>3, <1>4, <1>5, <1>6 DEF Opens

LEMMA PidCloseIs ==
  ASSUME TypeOK, PlaceInv, NEW t \in Thread, PidClose(t)
  PROVE  Closes(t)
<1>1. NoCall \in Call /\ NoCall.fds = {}
  BY NoCallIs
<1>2. PICK l \in {"idle", "error"} : Resume(t, "save", l, NoCall)
  BY DEF PidClose
<1>3. Goes(t, l, NoCall) /\ l \in Place
  <2>1. l \in Place /\ "save" \in Place /\ "save" # "none"
    BY DEF Place, Holding
  <2> QED BY <1>1, <1>2, <2>1, ResumeIs
<1>4. Agrees(t, l, NoCall)
  BY <1>1, <1>2 DEF Agrees, InLog
<1>5. LogsKeep
  BY DEF LogsKeep, TypeOK, FilesOK, AsideOK, PidClose, logger
<1>6. desc' = Closing(P(t), local[t].fds) /\ leak' = leak /\ UNCHANGED daemon
  BY DEF PidClose
<1> QED BY <1>1, <1>2, <1>3, <1>4, <1>5, <1>6 DEF Closes

LEMMA HelpingIs ==
  ASSUME TypeOK, PlaceInv, NEW t \in Thread, Helping(t)
  PROVE  \/ Quiet(t) \/ Opens(t) \/ Closes(t)
         \/ Fork(t) \/ Setup(t) \/ SetupFails(t) \/ (Ends(P(t)) /\ UNCHANGED <<log, daemon>>)
BY FailIs, PidDeleteIs, PidOpenIs, PidCloseIs DEF Helping, ParentExit, logger, proc
-----------------------------------------------------------------------------
(* What each class keeps *)

LEMMA GoesAlone ==
  ASSUME FilesOK, NEW t \in Thread, NEW l, NEW c, Goes(t, l, c)
  PROVE  /\ \A u \in Thread : u # t => local'[u].fds = local[u].fds /\ pc'[u] = pc[u]
         /\ pc'[t] = l /\ local'[t] = c /\ up' = up /\ born' = born /\ stdio' = stdio
BY DEF Goes

LEMMA PlaceStays ==
  ASSUME TypeOK, PlaceInv, NEW t \in Thread, NEW l \in Place, NEW c \in Call,
         Goes(t, l, c), Agrees(t, l, c), l # "rotate", LogsKeep, UNCHANGED daemon
  PROVE  PlaceInv'
<1>1. P(t) \in up /\ P(t) \in Proc
  BY Processes DEF PlaceInv, PlaceOf, Goes
<1>2. ASSUME NEW u \in Thread, u # t PROVE PlaceOf(u)'
  <2>1. P(u) \in Proc /\ pc'[u] = pc[u] /\ up' = up /\ local'[u].fds = local[u].fds /\ pc[t] # "none"
    BY <1>2, Processes DEF Goes
  <2>2. local'[u] = local[u] \/ (u \in InCopy /\ local'[u] \in CopyCall)
    BY <1>2 DEF Goes
  <2>3. pc[u] = "setup" => \A v \in Thread : P(v) = P(u) /\ v # u => pc'[v] = "none"
    BY <1>2, <2>1 DEF PlaceInv, PlaceOf, Goes
  <2> QED BY <2>1, <2>2, <2>3 DEF PlaceInv, PlaceOf, InCopy, LogsKeep, InLog
<1>3. PlaceOf(t)'
  <2>1. pc'[t] = l /\ local'[t] = c /\ up' = up
    BY DEF Goes
  <2> QED BY <1>1, <2>1 DEF PlaceOf, Agrees, LogsKeep, InLog
<1>4. \A p \in Proc \ born : daemon'[p] = "no" /\ born' = born
  BY DEF PlaceInv, Goes
<1>5. (\A p \in Proc \ born : daemon[p] = "no")'
  BY <1>4 DEF Goes
<1> QED BY <1>2, <1>3, <1>5 DEF PlaceInv

LEMMA QuietKeeps ==
  ASSUME TypeOK, PlaceInv, FdInv, NEW t \in Thread, Quiet(t)
  PROVE  FilesOK' /\ PlaceInv' /\ FdInv'
<1>1. PICK l \in Place, c \in Call :
        /\ Goes(t, l, c) /\ Agrees(t, l, c) /\ l # "rotate"
        /\ c.fds = local[t].fds /\ (l = "save" <=> pc[t] = "save")
        /\ LogsKeep /\ FilesKeep
        /\ UNCHANGED <<leak, daemon>>
  BY DEF Quiet
<1>2. PlaceInv'
  BY <1>1, PlaceStays
<1>3. FilesOK'
  BY <1>1 DEF TypeOK, FilesOK, Goes, LogsKeep, FilesKeep
<1>4. /\ \A u \in Thread : local'[u].fds = local[u].fds /\ (pc'[u] = "save" <=> pc[u] = "save")
                           /\ local[u].fds \subseteq Fd /\ P(u) \in Proc
      /\ up' = up /\ stdio' = stdio /\ up \subseteq Proc /\ daemon' = daemon /\ leak' = leak
  BY <1>1, Processes, CallIs DEF TypeOK, FilesOK, Goes
<1>5. \A p \in Proc, f \in Fd :
        desc'[p][f] = desc[p][f] \/ (desc[p][f] = "pid" /\ desc'[p][f] = "unlinked")
  BY <1>1 DEF FilesKeep
<1>6. \A p \in Proc : log'[p].fd = log[p].fd /\ log[p].fd \in Fd \cup {NoFd}
                      /\ (log[p].fd # NoFd => log'[p].named = log[p].named)
  BY <1>1, LogIs DEF LogsKeep, TypeOK, FilesOK
<1>7. (\A u \in Thread : Owns(u))'
  BY <1>4, <1>5 DEF FdInv, Owns
<1>8. (\A u, v \in Thread : Apart(u, v))'
  BY <1>4 DEF FdInv, Apart
<1>9. ASSUME NEW p \in up PROVE LogFile(p)' /\ Standard(p)' /\ Accounted(p)'
  <2>1. p \in Proc /\ LogFile(p) /\ Standard(p) /\ Accounted(p) /\ Stdio \subseteq Fd
    BY <1>4, FilesAssumption DEF FdInv, Stdio, Fd
  <2>2. LogFile(p)'
    BY <1>4, <1>5, <1>6, <2>1 DEF LogFile
  <2>3. Standard(p)'
    BY <1>4, <1>5, <2>1 DEF Standard
  <2>4. Accounted(p)'
    BY <1>4, <1>5, <1>6, <2>1 DEF Accounted, Closed
  <2> QED BY <2>2, <2>3, <2>4
<1> QED BY <1>2, <1>3, <1>4, <1>7, <1>8, <1>9 DEF FdInv

LEMMA OpeningIs ==
  ASSUME FilesOK, NEW p \in Proc, FreeFd(p) # {}, NEW file \in File, desc' = Opening(p, file)
  PROVE  /\ LowestFd(p) \in Fd /\ desc[p][LowestFd(p)] = Closed
         /\ desc' \in [Proc -> [Fd -> File]]
         /\ desc'[p][LowestFd(p)] = file
         /\ \A q \in Proc, f \in Fd : q # p \/ f # LowestFd(p) => desc'[q][f] = desc[q][f]
BY LowestFree DEF FilesOK, Opening

LEMMA ClosingIs ==
  ASSUME FilesOK, NEW p \in Proc, NEW S, desc' = Closing(p, S)
  PROVE  /\ desc' \in [Proc -> [Fd -> File]]
         /\ \A q \in Proc, f \in Fd : desc'[q][f] = IF q = p /\ f \in S THEN Closed ELSE desc[q][f]
BY DEF FilesOK, Closing, File

LEMMA OpensKeeps ==
  ASSUME TypeOK, PlaceInv, FdInv, NEW t \in Thread, Opens(t)
  PROVE  FilesOK' /\ PlaceInv' /\ FdInv'
<1>1. PICK l \in Place, c \in Call, file \in {"pid", "from", "to"} :
        /\ Goes(t, l, c) /\ Agrees(t, l, c) /\ l \in Holding
        /\ FreeFd(P(t)) # {} /\ desc' = Opening(P(t), file)
        /\ c.fds = local[t].fds \cup {LowestFd(P(t))}
        /\ IF file = "pid" THEN local[t].fds = {} /\ l = "save" ELSE pc[t] # "save" /\ l # "save"
        /\ LogsKeep
        /\ UNCHANGED <<leak, daemon>>
  BY DEF Opens
<1>p. P(t) \in Proc /\ file \in File /\ FilesOK /\ l # "rotate"
  BY <1>1, Processes DEF TypeOK, File, Holding
<1> DEFINE n == LowestFd(P(t))
<1>d. /\ n \in Fd /\ desc[P(t)][n] = Closed
      /\ desc' \in [Proc -> [Fd -> File]]
      /\ desc'[P(t)][n] = file
      /\ \A q \in Proc, f \in Fd : q # P(t) \/ f # n => desc'[q][f] = desc[q][f]
  BY <1>1, <1>p, OpeningIs
<1> HIDE DEF n
<1>2. PlaceInv'
  BY <1>1, <1>p, PlaceStays
<1>3. FilesOK'
  BY <1>1, <1>d DEF TypeOK, FilesOK, Goes, LogsKeep
<1>4. /\ \A u \in Thread : local[u].fds \subseteq Fd /\ P(u) \in Proc
      /\ \A u \in Thread : u # t => local'[u].fds = local[u].fds /\ pc'[u] = pc[u]
      /\ local'[t].fds = local[t].fds \cup {n} /\ pc'[t] = l
      /\ up' = up /\ stdio' = stdio /\ up \subseteq Proc /\ daemon' = daemon /\ leak' = leak
  BY <1>1, Processes, CallIs DEF TypeOK, FilesOK, Goes, n
<1>6. \A p \in Proc : log'[p].fd = log[p].fd /\ log[p].fd \in Fd \cup {NoFd}
                      /\ (log[p].fd # NoFd => log'[p].named = log[p].named)
  BY <1>1, LogIs DEF LogsKeep, TypeOK, FilesOK
<1>a. \A u \in Thread : P(u) = P(t) => n \notin local[u].fds
  BY <1>d DEF FdInv, Owns, Closed
<1>7. ASSUME NEW u \in Thread PROVE Owns(u)'
  <2>1. CASE u = t
    BY <1>1, <1>4, <1>d, <1>a, <2>1 DEF FdInv, Owns
  <2>2. CASE u # t
    BY <1>4, <1>d, <1>a, <2>2 DEF FdInv, Owns
  <2> QED BY <2>1, <2>2
<1>8. ASSUME NEW u \in Thread, NEW v \in Thread PROVE Apart(u, v)'
  BY <1>4, <1>a DEF FdInv, Apart
<1>9. ASSUME NEW p \in up PROVE LogFile(p)' /\ Standard(p)' /\ Accounted(p)'
  <2>1. p \in Proc /\ LogFile(p) /\ Standard(p) /\ Accounted(p) /\ Stdio \subseteq Fd
    BY <1>4, FilesAssumption DEF FdInv, Stdio, Fd
  <2>2. LogFile(p)'
    <3>1. log[p].fd # NoFd => desc'[p][log[p].fd] = desc[p][log[p].fd]
      BY <1>d, <1>6, <2>1 DEF LogFile, Closed
    <3> QED BY <1>4, <1>6, <2>1, <3>1 DEF LogFile
  <2>3. Standard(p)'
    <3>1. p \in stdio => n \notin Stdio \/ p # P(t)
      BY <1>d, <2>1 DEF Standard, Closed
    <3> QED BY <1>4, <1>d, <2>1, <3>1 DEF Standard
  <2>4. Accounted(p)'
    BY <1>4, <1>d, <1>6, <2>1 DEF Accounted
  <2> QED BY <2>2, <2>3, <2>4
<1> QED BY <1>2, <1>3, <1>4, <1>7, <1>8, <1>9 DEF FdInv

LEMMA ClosesKeeps ==
  ASSUME TypeOK, PlaceInv, FdInv, NEW t \in Thread, Closes(t)
  PROVE  FilesOK' /\ PlaceInv' /\ FdInv'
<1>1. PICK l \in Place, c \in Call :
        /\ Goes(t, l, c) /\ Agrees(t, l, c) /\ l \in {"idle", "error"}
        /\ LogsKeep
        /\ \/ desc' = Closing(P(t), local[t].fds) /\ leak' = leak
           \/ desc' = desc /\ leak' = leak \cup {P(t)}
        /\ UNCHANGED daemon
  BY DEF Closes
<1>p. P(t) \in Proc /\ FilesOK /\ l # "rotate" /\ c.fds = {}
  BY <1>1, Processes DEF TypeOK, Agrees, Holding
<1>d. /\ desc' \in [Proc -> [Fd -> File]]
      /\ \A q \in Proc, f \in Fd : f \notin local[t].fds \/ q # P(t) => desc'[q][f] = desc[q][f]
      /\ P(t) \notin leak' => \A f \in local[t].fds : f \in Fd => desc'[P(t)][f] = Closed
  <2>1. CASE desc' = Closing(P(t), local[t].fds) /\ leak' = leak
    BY <1>p, <2>1, ClosingIs
  <2>2. CASE desc' = desc /\ leak' = leak \cup {P(t)}
    BY <2>2 DEF TypeOK, FilesOK
  <2> QED BY <1>1, <2>1, <2>2
<1>2. PlaceInv'
  BY <1>1, <1>p, PlaceStays
<1>3. FilesOK'
  BY <1>1, <1>p, <1>d DEF TypeOK, FilesOK, Goes, LogsKeep
<1>4. /\ \A u \in Thread : local[u].fds \subseteq Fd /\ P(u) \in Proc
      /\ \A u \in Thread : u # t => local'[u].fds = local[u].fds /\ pc'[u] = pc[u]
      /\ local'[t].fds = {}
      /\ up' = up /\ stdio' = stdio /\ up \subseteq Proc /\ daemon' = daemon /\ leak \subseteq leak'
  BY <1>1, <1>p, Processes, CallIs DEF TypeOK, FilesOK, Goes
<1>6. \A p \in Proc : log'[p].fd = log[p].fd /\ log[p].fd \in Fd \cup {NoFd}
                      /\ (log[p].fd # NoFd => log'[p].named = log[p].named)
  BY <1>1, LogIs DEF LogsKeep, TypeOK, FilesOK
<1>a. \A f \in local[t].fds : desc[P(t)][f] \in {"pid", "unlinked", "from", "to"}
  BY DEF FdInv, Owns
<1>7. ASSUME NEW u \in Thread PROVE Owns(u)'
  <2>1. CASE u = t
    BY <1>4, <2>1 DEF Owns
  <2>2. CASE u # t
    <3>1. \A f \in local[u].fds : desc'[P(u)][f] = desc[P(u)][f]
      BY <1>4, <1>d, <2>2 DEF FdInv, Apart
    <3> QED BY <1>4, <2>2, <3>1 DEF FdInv, Owns
  <2> QED BY <2>1, <2>2
<1>8. ASSUME NEW u \in Thread, NEW v \in Thread PROVE Apart(u, v)'
  BY <1>4 DEF FdInv, Apart
<1>9. ASSUME NEW p \in up PROVE LogFile(p)' /\ Standard(p)' /\ Accounted(p)'
  <2>1. p \in Proc /\ LogFile(p) /\ Standard(p) /\ Accounted(p) /\ Stdio \subseteq Fd
    BY <1>4, FilesAssumption DEF FdInv, Stdio, Fd
  <2>2. LogFile(p)'
    <3>1. log[p].fd # NoFd => desc'[p][log[p].fd] = desc[p][log[p].fd]
      BY <1>a, <1>d, <1>6, <2>1 DEF LogFile
    <3> QED BY <1>4, <1>6, <2>1, <3>1 DEF LogFile
  <2>3. Standard(p)'
    <3>1. p = P(t) /\ p \in stdio => \A f \in Stdio : f \notin local[t].fds
      BY <1>a, <2>1 DEF Standard
    <3>2. \A f \in Fd : desc'[p][f] = "tty" => desc[p][f] = "tty"
      BY <1>d, <1>a, <1>4, <2>1, <1>1, <1>p, ClosingIs DEF Closed
    <3> QED BY <1>4, <1>d, <2>1, <3>1, <3>2 DEF Standard
  <2>4. Accounted(p)'
    BY <1>4, <1>d, <1>6, <2>1 DEF Accounted
  <2> QED BY <2>2, <2>3, <2>4
<1> QED BY <1>2, <1>3, <1>4, <1>7, <1>8, <1>9 DEF FdInv

LEMMA OpensLogKeeps ==
  ASSUME TypeOK, PlaceInv, FdInv, NEW t \in Thread, OpensLog(t)
  PROVE  FilesOK' /\ PlaceInv' /\ FdInv'
<1>1. PICK x \in OpenLog, file \in {"log", "other"} :
        /\ Goes(t, "idle", NoCall) /\ pc[t] \in {"idle", "rotate"} /\ Main(t)
        /\ FreeFd(P(t)) # {} /\ x.fd = LowestFd(P(t)) /\ log' = Set(log, P(t), x)
        /\ log[P(t)].fd = NoFd
        /\ (file = "log" \/ ~x.named) /\ desc' = Opening(P(t), file)
        /\ UNCHANGED <<leak, daemon>>
  BY DEF OpensLog
<1>p. P(t) \in Proc /\ file \in File /\ FilesOK /\ NoCall.fds = {} /\ P(t) \in up
  BY <1>1, Processes, NoCallIs DEF TypeOK, File, PlaceInv, PlaceOf, Goes
<1> DEFINE n == LowestFd(P(t))
<1>d. /\ n \in Fd /\ desc[P(t)][n] = Closed
      /\ desc' \in [Proc -> [Fd -> File]]
      /\ desc'[P(t)][n] = file
      /\ \A q \in Proc, f \in Fd : q # P(t) \/ f # n => desc'[q][f] = desc[q][f]
  BY <1>1, <1>p, OpeningIs
<1>l. /\ log' \in [Proc -> {NoLog} \cup OpenLog] /\ log'[P(t)] = x
      /\ \A q \in Proc : q # P(t) => log'[q] = log[q]
  BY <1>1, <1>p DEF FilesOK, Set
<1>n. x.fd = n /\ n # NoFd /\ x # NoLog /\ (file = "log" \/ ~x.named)
  BY <1>1, <1>d, LogIs
<1> HIDE DEF n
<1>4. /\ \A u \in Thread : local[u].fds \subseteq Fd /\ P(u) \in Proc /\ local'[u].fds = local[u].fds
      /\ \A u \in Thread : u # t => pc'[u] = pc[u] /\ (local'[u] = local[u] \/ (u \in InCopy /\ local'[u] \in CopyCall))
      /\ pc'[t] = "idle" /\ local'[t] = NoCall /\ local[t].fds = {}
      /\ up' = up /\ born' = born /\ stdio' = stdio /\ up \subseteq Proc /\ daemon' = daemon /\ leak' = leak
  BY <1>1, <1>p, Processes, CallIs DEF TypeOK, FilesOK, Goes, PlaceInv, PlaceOf, Holding
<1>3. FilesOK'
  BY <1>1, <1>d, <1>l, <1>4 DEF FilesOK, Goes, TypeOK
<1>5. ASSUME NEW u \in Thread PROVE PlaceOf(u)'
  <2>1. CASE u = t
    BY <1>4, <1>p, <2>1 DEF PlaceOf, InLog, Holding
  <2>2. CASE u # t
    <3>1. pc[u] = "setup" => \A v \in Thread : P(v) = P(u) /\ v # u => pc'[v] = "none"
      BY <1>1, <2>2, <1>4 DEF PlaceInv, PlaceOf, Goes
    <3>2. pc[u] = "rotate" => P(u) # P(t)
      BY <1>1, <2>2, OneMain DEF PlaceInv, PlaceOf
    <3>3. log[P(u)] # NoLog => log'[P(u)] # NoLog
      BY <1>4, <1>l, <1>n
    <3> QED BY <1>4, <1>l, <2>2, <3>1, <3>2, <3>3 DEF PlaceInv, PlaceOf, InCopy, InLog
  <2> QED BY <2>1, <2>2
<1>6. PlaceInv'
  BY <1>4, <1>5 DEF PlaceInv
<1>a. \A u \in Thread : P(u) = P(t) => n \notin local[u].fds
  BY <1>d DEF FdInv, Owns, Closed
<1>7. ASSUME NEW u \in Thread PROVE Owns(u)'
  <2>1. CASE u = t
    BY <1>4, <2>1 DEF Owns
  <2>2. CASE u # t
    BY <1>4, <1>d, <1>a, <2>2 DEF FdInv, Owns
  <2> QED BY <2>1, <2>2
<1>8. ASSUME NEW u \in Thread, NEW v \in Thread PROVE Apart(u, v)'
  BY <1>4 DEF FdInv, Apart
<1>9. ASSUME NEW p \in up PROVE LogFile(p)' /\ Standard(p)' /\ Accounted(p)'
  <2>1. p \in Proc /\ LogFile(p) /\ Standard(p) /\ Accounted(p) /\ Stdio \subseteq Fd
        /\ log[p].fd \in Fd \cup {NoFd}
    BY <1>4, FilesAssumption, LogIs DEF FdInv, Stdio, Fd, TypeOK, FilesOK
  <2>2. LogFile(p)'
    <3>1. CASE p = P(t)
      BY <1>d, <1>l, <1>n, <3>1 DEF LogFile
    <3>2. CASE p # P(t)
      BY <1>d, <1>l, <1>4, <2>1, <3>2 DEF LogFile
    <3> QED BY <3>1, <3>2
  <2>3. Standard(p)'
    <3>1. p \in stdio => n \notin Stdio \/ p # P(t)
      BY <1>d, <2>1 DEF Standard, Closed
    <3> QED BY <1>4, <1>d, <2>1, <3>1 DEF Standard
  <2>4. Accounted(p)'
    <3>1. CASE p = P(t)
      <4>1. \A f \in Fd : f # log[p].fd
        BY <1>1, <3>1, LogIs
      <4>2. ASSUME NEW f \in Fd \ Stdio, p \notin leak, desc'[p][f] # Closed, f # n
            PROVE  \E u \in Thread : P(u) = p /\ f \in local'[u].fds
        <5>1. desc[p][f] # Closed
          BY <1>d, <2>1, <4>2
        <5>2. PICK u \in Thread : P(u) = p /\ f \in local[u].fds
          BY <2>1, <4>1, <4>2, <5>1 DEF Accounted
        <5> QED BY <1>4, <5>2
      <4>3. log'[p].fd = n /\ leak' = leak
        BY <1>4, <1>l, <1>n, <3>1
      <4> QED BY <4>2, <4>3 DEF Accounted
    <3>2. CASE p # P(t)
      BY <1>d, <1>l, <1>4, <2>1, <3>2 DEF Accounted
    <3> QED BY <3>1, <3>2
  <2> QED BY <2>2, <2>3, <2>4
<1> QED BY <1>3, <1>4, <1>6, <1>7, <1>8, <1>9 DEF FdInv

LEMMA ClosesLogKeeps ==
  ASSUME TypeOK, PlaceInv, FdInv, NEW t \in Thread, ClosesLog(t)
  PROVE  FilesOK' /\ PlaceInv' /\ FdInv'
<1>1. PICK l \in {"idle", "rotate"}, x \in {NoLog} \cup OpenLog :
        /\ Goes(t, l, NoCall) /\ pc[t] = "idle" /\ Main(t)
        /\ x.fd = NoFd /\ (l = "idle" => x = NoLog /\ Others(t, InLog) = {}) /\ (l = "rotate" => x # NoLog)
        /\ log' = Set(log, P(t), x) /\ desc' = Closing(P(t), {log[P(t)].fd})
        /\ UNCHANGED <<leak, daemon>>
  BY DEF ClosesLog
<1>p. P(t) \in Proc /\ FilesOK /\ NoCall.fds = {} /\ P(t) \in up
  BY <1>1, Processes, NoCallIs DEF TypeOK, PlaceInv, PlaceOf, Goes
<1>d. /\ desc' \in [Proc -> [Fd -> File]]
      /\ \A q \in Proc, f \in Fd : desc'[q][f] = IF q = P(t) /\ f = log[P(t)].fd THEN Closed ELSE desc[q][f]
  <2> DEFINE S == {log[P(t)].fd}
  <2>1. desc' = Closing(P(t), S)
    BY <1>1
  <2>2. \A f \in Fd : f \in S <=> f = log[P(t)].fd
    OBVIOUS
  <2> HIDE DEF S
  <2> QED BY <1>p, <2>1, <2>2, ClosingIs
<1>l. /\ log' \in [Proc -> {NoLog} \cup OpenLog] /\ log'[P(t)] = x
      /\ \A q \in Proc : q # P(t) => log'[q] = log[q]
  BY <1>1, <1>p DEF FilesOK, Set
<1>4. /\ \A u \in Thread : local[u].fds \subseteq Fd /\ P(u) \in Proc /\ local'[u].fds = local[u].fds
      /\ \A u \in Thread : u # t => pc'[u] = pc[u] /\ (local'[u] = local[u] \/ (u \in InCopy /\ local'[u] \in CopyCall))
      /\ pc'[t] = l /\ local'[t] = NoCall /\ local[t].fds = {}
      /\ up' = up /\ born' = born /\ stdio' = stdio /\ up \subseteq Proc /\ daemon' = daemon /\ leak' = leak
  BY <1>1, <1>p, Processes, CallIs DEF TypeOK, FilesOK, Goes, PlaceInv, PlaceOf, Holding
<1>3. FilesOK'
  BY <1>1, <1>d, <1>l, <1>4 DEF FilesOK, Goes, TypeOK
<1>5. ASSUME NEW u \in Thread PROVE PlaceOf(u)'
  <2>1. CASE u = t
    BY <1>1, <1>4, <1>p, <1>l, <2>1 DEF PlaceOf, InLog, Holding
  <2>2. CASE u # t
    <3>1. pc[u] = "setup" => \A v \in Thread : P(v) = P(u) /\ v # u => pc'[v] = "none"
      BY <1>1, <2>2, <1>4 DEF PlaceInv, PlaceOf, Goes
    <3>2. pc[u] \in InLog => log'[P(u)] # NoLog
      <4>1. CASE P(u) = P(t)
        BY <1>1, <1>4, <1>l, <2>2, <4>1 DEF Others
      <4>2. CASE P(u) # P(t)
        BY <1>4, <1>l, <2>2, <4>2 DEF PlaceInv, PlaceOf
      <4> QED BY <4>1, <4>2
    <3>3. pc[u] = "rotate" => P(u) # P(t)
      BY <1>1, <2>2, OneMain DEF PlaceInv, PlaceOf
    <3> QED BY <1>4, <1>l, <2>2, <3>1, <3>2, <3>3 DEF PlaceInv, PlaceOf, InCopy, InLog
  <2> QED BY <2>1, <2>2
<1>6. PlaceInv'
  BY <1>4, <1>5 DEF PlaceInv
<1>a. log[P(t)].fd # NoFd => \A u \in Thread : P(u) = P(t) => log[P(t)].fd \notin local[u].fds
  BY <1>p DEF FdInv, Owns, LogFile
<1>b. log[P(t)].fd = NoFd => log[P(t)].fd \notin Fd
  BY LogIs
<1>7. ASSUME NEW u \in Thread PROVE Owns(u)'
  <2>1. CASE u = t
    BY <1>4, <2>1 DEF Owns
  <2>2. CASE u # t
    BY <1>4, <1>d, <1>a, <1>b, <2>2 DEF FdInv, Owns
  <2> QED BY <2>1, <2>2
<1>8. ASSUME NEW u \in Thread, NEW v \in Thread PROVE Apart(u, v)'
  BY <1>4 DEF FdInv, Apart
<1>9. ASSUME NEW p \in up PROVE LogFile(p)' /\ Standard(p)' /\ Accounted(p)'
  <2>1. p \in Proc /\ LogFile(p) /\ Standard(p) /\ Accounted(p) /\ Stdio \subseteq Fd
        /\ log[p].fd \in Fd \cup {NoFd}
    BY <1>4, FilesAssumption, LogIs DEF FdInv, Stdio, Fd, TypeOK, FilesOK
  <2>2. LogFile(p)'
    <3>1. CASE p = P(t)
      BY <1>1, <1>l, <3>1 DEF LogFile
    <3>2. CASE p # P(t)
      BY <1>d, <1>l, <1>4, <2>1, <3>2 DEF LogFile
    <3> QED BY <3>1, <3>2
  <2>3. Standard(p)'
    <3>1. p = P(t) /\ p \in stdio => log[p].fd \notin Stdio
      BY <1>b, <2>1 DEF Standard, LogFile
    <3> QED BY <1>4, <1>d, <2>1, <3>1 DEF Standard, Closed
  <2>4. Accounted(p)'
    <3>1. CASE p = P(t)
      BY <1>d, <1>l, <1>4, <2>1, <3>1 DEF Accounted
    <3>2. CASE p # P(t)
      BY <1>d, <1>l, <1>4, <2>1, <3>2 DEF Accounted
    <3> QED BY <3>1, <3>2
  <2> QED BY <2>2, <2>3, <2>4
<1> QED BY <1>3, <1>4, <1>6, <1>7, <1>8, <1>9 DEF FdInv

LEMMA EndsKeeps ==
  ASSUME TypeOK, PlaceInv, FdInv, NEW p \in Proc, Ends(p), UNCHANGED <<log, daemon>>
  PROVE  FilesOK' /\ PlaceInv' /\ FdInv'
<1>1. /\ up' = up \ {p} /\ UNCHANGED <<born, stdio, leak, log, daemon>>
      /\ \A t \in Thread : IF P(t) = p THEN pc'[t] = "none" /\ local'[t] = NoCall
                           ELSE pc'[t] = pc[t] /\ local'[t] = local[t]
      /\ \A q \in Proc : q # p => desc'[q] = desc[q]
  BY DEF Ends, Set, TypeOK, FilesOK
<1>2. FilesOK'
  <2>1. NoCall \in Call /\ "none" \in Place /\ Closed \in File
    BY NoCallIs DEF Place, File
  <2>2. desc' \in [Proc -> [Fd -> File]]
    BY <2>1 DEF Ends, Set, TypeOK, FilesOK
  <2>3. pc' \in [Thread -> Place] /\ local' \in [Thread -> Call]
    BY <2>1 DEF Ends, TypeOK, FilesOK
  <2> QED BY <1>1, <2>2, <2>3 DEF TypeOK, FilesOK
<1>3. NoCall.fds = {}
  BY NoCallIs
<1>4. ASSUME NEW t \in Thread PROVE PlaceOf(t)' /\ Owns(t)'
  <2>1. CASE P(t) = p
    BY <1>1, <1>3, <2>1 DEF PlaceOf, Owns, Holding, InLog
  <2>2. CASE P(t) # p
    BY <1>1, <2>2, Processes DEF PlaceInv, PlaceOf, FdInv, Owns, InLog
  <2> QED BY <2>1, <2>2
<1>5. ASSUME NEW t \in Thread, NEW u \in Thread PROVE Apart(t, u)'
  BY <1>1, <1>3 DEF FdInv, Apart
<1>6. ASSUME NEW q \in up, q # p PROVE LogFile(q)' /\ Standard(q)' /\ Accounted(q)'
  <2>1. q \in Proc /\ desc'[q] = desc[q] /\ LogFile(q) /\ Standard(q) /\ Accounted(q)
    BY <1>1, <1>6 DEF TypeOK, FilesOK, FdInv
  <2>2. LogFile(q)' /\ Standard(q)'
    BY <1>1, <2>1 DEF LogFile, Standard
  <2>3. \A t \in Thread : P(t) = q => local'[t] = local[t]
    BY <1>1, <1>6
  <2>4. Accounted(q)'
    BY <1>1, <2>1, <2>3 DEF Accounted
  <2> QED BY <2>2, <2>4
<1>7. (\A q \in Proc \ born : daemon[q] = "no")'
  BY <1>1 DEF PlaceInv
<1> QED BY <1>1, <1>2, <1>4, <1>5, <1>6, <1>7 DEF PlaceInv, FdInv

LEMMA ForkKeeps ==
  ASSUME TypeOK, PlaceInv, FdInv, NEW t \in Thread, Fork(t)
  PROVE  FilesOK' /\ PlaceInv' /\ FdInv'
<1>1. PICK c \in Proc \ born :
        /\ born' = born \cup {c} /\ up' = up \cup {c}
        /\ desc' = Set(desc, c, desc[P(t)])
        /\ log' = Set(log, c, log[P(t)])
        /\ pc' = [pc EXCEPT ![t] = "exit", ![<<c, "main">>] = "setup"]
        /\ stdio' = IF P(t) \in stdio THEN stdio \cup {c} ELSE stdio
        /\ leak' = IF P(t) \in leak \/ \E u \in Thread : P(u) = P(t) /\ local[u].fds # {}
                     THEN leak \cup {c} ELSE leak
  BY DEF Fork
<1>2. /\ pc[t] = "idle" /\ Main(t) /\ local' = local /\ daemon' = daemon
      /\ P(t) \in Proc /\ P(t) \in up /\ P(t) # c /\ c \notin up /\ daemon[c] = "no"
  BY <1>1, Processes DEF Fork, proc, TypeOK, FilesOK, PlaceInv, PlaceOf
<1>3. <<c, "main">> \in Thread /\ P(<<c, "main">>) = c /\ Main(<<c, "main">>)
  BY <1>1 DEF Thread, P, Main
<1>4. /\ \A u \in Thread : P(u) = c => local[u].fds = {}
      /\ \A u \in Thread : P(u) = c /\ u # <<c, "main">> => pc'[u] = "none"
      /\ pc'[<<c, "main">>] = "setup" /\ pc'[t] = "exit" /\ local[t].fds = {}
      /\ \A u \in Thread : P(u) # c /\ u # t => pc'[u] = pc[u]
  <2>1. \A u \in Thread : P(u) = c => pc[u] = "none" /\ local[u].fds = {}
    BY <1>2 DEF PlaceInv, PlaceOf, Holding
  <2>2. pc \in [Thread -> Place] /\ t # <<c, "main">> /\ local[t].fds = {}
    BY <1>2, <1>3 DEF TypeOK, FilesOK, PlaceInv, PlaceOf, Holding
  <2> QED BY <1>1, <1>2, <1>3, <2>1, <2>2
<1>5. /\ desc'[c] = desc[P(t)] /\ \A q \in Proc : q # c => desc'[q] = desc[q]
      /\ log'[c] = log[P(t)] /\ \A q \in Proc : q # c => log'[q] = log[q]
  BY <1>1 DEF TypeOK, FilesOK, Set
<1>6. FilesOK'
  <2>1. "exit" \in Place /\ "setup" \in Place
    BY DEF Place
  <2>2. pc' \in [Thread -> Place]
    BY <1>1, <2>1 DEF TypeOK, FilesOK
  <2>3. desc' \in [Proc -> [Fd -> File]] /\ log' \in [Proc -> {NoLog} \cup OpenLog]
    BY <1>1, <1>2 DEF TypeOK, FilesOK, Set
  <2> QED BY <1>1, <1>2, <2>2, <2>3 DEF TypeOK, FilesOK
<1>7. ASSUME NEW u \in Thread PROVE PlaceOf(u)'
  <2>1. CASE P(u) = c
    <3>1. pc'[u] \in {"none", "setup"} /\ local'[u].fds = {} /\ c \in up'
          /\ (pc'[u] = "setup" => u = <<c, "main">>)
      BY <1>1, <1>2, <1>4, <2>1
    <3>2. pc'[u] = "setup" => Main(u) /\ \A v \in Thread : P(v) = P(u) /\ v # u => pc'[v] = "none"
      BY <1>3, <1>4, <2>1, <3>1
    <3> QED BY <2>1, <3>1, <3>2 DEF PlaceOf, InLog, Holding
  <2>2. CASE u = t
    <3>1. pc'[u] = "exit" /\ local'[u].fds = {} /\ P(u) \in up' /\ Main(u)
      BY <1>1, <1>2, <1>4, <2>2
    <3> QED BY <3>1 DEF PlaceOf, InLog, Holding
  <2>3. CASE P(u) # c /\ u # t
    <3>1. pc'[u] = pc[u] /\ local'[u] = local[u] /\ log'[P(u)] = log[P(u)] /\ (P(u) \notin up' => P(u) \notin up)
      BY <1>1, <1>2, <1>4, <1>5, <2>3, Processes
    <3>2. pc[u] = "setup" => \A v \in Thread : P(v) = P(u) /\ v # u => pc'[v] = "none"
      <4>1. ASSUME pc[u] = "setup", NEW v \in Thread, P(v) = P(u), v # u PROVE pc'[v] = "none"
        <5>1. pc[v] = "none" /\ v # t /\ P(v) # c
          BY <1>2, <2>3, <4>1 DEF PlaceInv, PlaceOf
        <5> QED BY <1>4, <5>1
      <4> QED BY <4>1
    <3> QED BY <3>1, <3>2 DEF PlaceInv, PlaceOf
  <2> QED BY <2>1, <2>2, <2>3
<1>8. ASSUME NEW u \in Thread PROVE Owns(u)'
  <2>1. CASE P(u) = c \/ u = t
    BY <1>2, <1>4, <2>1 DEF Owns
  <2>2. CASE P(u) # c /\ u # t
    BY <1>2, <1>4, <1>5, <2>2, Processes DEF FdInv, Owns
  <2> QED BY <2>1, <2>2
<1>9. ASSUME NEW u \in Thread, NEW v \in Thread PROVE Apart(u, v)'
  BY <1>2 DEF FdInv, Apart
<1>10. ASSUME NEW p \in up PROVE LogFile(p)' /\ Standard(p)' /\ Accounted(p)'
  <2>1. /\ p \in Proc /\ p # c /\ desc'[p] = desc[p] /\ log'[p] = log[p] /\ local' = local /\ daemon' = daemon
        /\ (p \in stdio' <=> p \in stdio) /\ (p \in leak' <=> p \in leak)
        /\ LogFile(p) /\ Standard(p) /\ Accounted(p)
    BY <1>1, <1>2, <1>5 DEF TypeOK, FilesOK, FdInv
  <2> QED BY <2>1 DEF LogFile, Standard, Accounted
<1>11. LogFile(c)' /\ Standard(c)' /\ Accounted(c)'
  <2> DEFINE p == P(t)
  <2>1. /\ desc'[c] = desc[p] /\ log'[c] = log[p] /\ local' = local /\ daemon'[c] = "no"
        /\ (c \in stdio' => p \in stdio) /\ (c \notin leak' => p \notin leak)
        /\ LogFile(p) /\ Standard(p) /\ Accounted(p)
    <3>1. c \notin born /\ (c \in stdio => p \in stdio)
      BY <1>1, <1>2 DEF TypeOK, FilesOK
    <3> QED BY <1>1, <1>2, <1>5, <3>1 DEF FdInv
  <2>2. c \notin leak' => \A u \in Thread : P(u) = p => local[u].fds = {}
    BY <1>1
  <2> HIDE DEF p
  <2> QED BY <2>1, <2>2 DEF LogFile, Standard, Accounted, p
<1> QED BY <1>1, <1>2, <1>6, <1>7, <1>8, <1>9, <1>10, <1>11 DEF PlaceInv, FdInv

\* The child is alone when it sets up its descriptors, and the call has none.
LEMMA SetupAlone ==
  ASSUME TypeOK, PlaceInv, NEW t \in Thread, pc[t] = "setup"
  PROVE  /\ P(t) \in Proc /\ P(t) \in up /\ Main(t) /\ t = <<P(t), "main">>
         /\ \A u \in Thread : P(u) = P(t) => local[u].fds = {}
         /\ \A u \in Thread : P(u) = P(t) /\ u # t => pc[u] = "none"
<1>1. Main(t) /\ P(t) \in up /\ \A u \in Thread : P(u) = P(t) /\ u # t => pc[u] = "none"
  BY DEF PlaceInv, PlaceOf
<1>2. \A u \in Thread : P(u) = P(t) => local[u].fds = {}
  BY <1>1 DEF PlaceInv, PlaceOf, Holding
<1> QED BY <1>1, <1>2, Processes DEF Main

\* Descriptors of the child that are /dev/null, or closed where they were free.
LEMMA NulledKeeps ==
  ASSUME TypeOK, FdInv, NEW p \in up, NEW d \in {"ok", "failed"}, NEW r \in File,
         FreeFd(p) # {}, NEW n \in 0 .. 3,
         \A u \in Thread : P(u) = p => local'[u].fds = {},
         desc' = Set(desc, p, [Nulled(p, LowestFd(p), n) EXCEPT ![LowestFd(p)] = r]),
         \/ d = "ok" /\ n = 3 /\ r = Closed /\ leak' = leak
         \/ d = "failed" /\ r = "null" /\ leak' = leak \cup {p},
         daemon' = Set(daemon, p, d), UNCHANGED <<log, stdio>>,
         \A u \in Thread : P(u) = p => local[u].fds = {}
  PROVE  /\ desc' \in [Proc -> [Fd -> File]] /\ daemon' \in [Proc -> {"ok", "failed", "no"}]
         /\ LogFile(p)' /\ Standard(p)' /\ Accounted(p)'
<1> DEFINE m == LowestFd(p)
<1>1. p \in Proc /\ m \in Fd /\ desc[p][m] = Closed
  BY LowestFree DEF TypeOK, FilesOK
<1>2. \A f \in Fd : /\ Nulled(p, m, n)[f] = IF f = m \/ f < n THEN "null" ELSE desc[p][f]
                    /\ Nulled(p, m, n)[f] \in File
  BY <1>1 DEF Nulled, File, TypeOK, FilesOK
<1> HIDE DEF m
<1>3. /\ desc' \in [Proc -> [Fd -> File]] /\ desc'[p][m] = r
      /\ \A f \in Fd : f # m => desc'[p][f] = IF f < n THEN "null" ELSE desc[p][f]
  <2> DEFINE g == [Nulled(p, m, n) EXCEPT ![m] = r]
  <2>1. g \in [Fd -> File] /\ g[m] = r /\ \A f \in Fd : f # m => g[f] = IF f < n THEN "null" ELSE desc[p][f]
    <3>1. Nulled(p, m, n) \in [Fd -> File]
      BY <1>2 DEF Nulled
    <3> QED BY <1>1, <1>2, <3>1
  <2>2. desc' = Set(desc, p, g)
    BY DEF m
  <2> HIDE DEF g
  <2>3. desc \in [Proc -> [Fd -> File]]
    BY DEF TypeOK, FilesOK
  <2>4. desc' \in [Proc -> [Fd -> File]] /\ desc'[p] = g
    BY <1>1, <2>1, <2>2, <2>3 DEF Set
  <2> QED BY <2>1, <2>4
<1>4. daemon' \in [Proc -> {"ok", "failed", "no"}] /\ daemon'[p] = d
  BY <1>1 DEF Set, TypeOK, FilesOK
<1>5. LogFile(p) /\ Standard(p) /\ Accounted(p) /\ log[p].fd \in Fd \cup {NoFd}
  BY <1>1, LogIs DEF FdInv, TypeOK, FilesOK
<1>6. Stdio \subseteq Fd /\ (\A f \in Stdio : f < 3) /\ (\A f \in Fd : f < 3 => f \in Stdio) /\ Fd \subseteq Nat
  BY FilesAssumption DEF Stdio, Fd
<1>7. LogFile(p)'
  <2>1. SUFFICES ASSUME log[p].fd # NoFd PROVE LogFile(p)'
    BY DEF LogFile
  <2>2. log[p].fd \in Fd /\ log[p].fd # m
    BY <1>1, <1>5, <2>1 DEF LogFile, Closed
  <2>3. CASE log[p].fd < n
    <3>1. desc'[p][log[p].fd] = "null"
      BY <1>3, <2>2, <2>3
    <3>2. p \notin stdio
      BY <1>5, <1>6, <2>1, <2>2, <2>3 DEF LogFile, Standard
    <3> QED BY <2>1, <3>1, <3>2 DEF LogFile
  <2>4. CASE ~(log[p].fd < n)
    BY <1>3, <1>5, <2>2, <2>4 DEF LogFile
  <2> QED BY <2>3, <2>4
<1>8. Standard(p)'
  <2>1. p \in stdio => m \notin Stdio
    BY <1>1, <1>5 DEF Standard, Closed
  <2>2. \A f \in Fd \ Stdio : desc'[p][f] # "tty"
    BY <1>3, <1>5, <1>6 DEF Standard, Closed
  <2>3. p \in stdio => \A f \in Stdio : desc'[p][f] \in {"tty", "null"}
    BY <1>3, <1>5, <1>6, <2>1 DEF Standard
  <2>4. CASE d = "ok"
    <3>1. n = 3 /\ r = Closed
      BY <2>4
    <3>2. \A f \in Stdio : f # m => desc'[p][f] = "null"
      BY <1>3, <1>6, <3>1
    <3>3. \A f \in Fd : desc'[p][f] # "tty"
      BY <1>3, <1>6, <2>2, <3>1, <3>2 DEF Closed
    <3> QED BY <2>1, <2>2, <2>3, <3>2, <3>3 DEF Standard
  <2>5. CASE d = "failed"
    BY <1>4, <2>2, <2>3, <2>5 DEF Standard
  <2> QED BY <2>4, <2>5
<1>9. Accounted(p)'
  <2>1. CASE d = "ok"
    BY <1>3, <1>5, <1>6, <2>1 DEF Accounted
  <2>2. CASE d = "failed"
    BY <2>2 DEF Accounted
  <2> QED BY <2>1, <2>2
<1> QED BY <1>3, <1>4, <1>7, <1>8, <1>9

LEMMA SetupKeeps ==
  ASSUME TypeOK, PlaceInv, FdInv, NEW t \in Thread, Setup(t) \/ SetupFails(t)
  PROVE  FilesOK' /\ PlaceInv' /\ FdInv'
<1>1. pc[t] = "setup"
  BY DEF Setup, SetupFails, Resume
<1>2. /\ P(t) \in Proc /\ P(t) \in up /\ Main(t) /\ t = <<P(t), "main">>
      /\ \A u \in Thread : P(u) = P(t) => local[u].fds = {}
      /\ \A u \in Thread : P(u) = P(t) /\ u # t => pc[u] = "none"
  BY <1>1, SetupAlone
<1>3. /\ UNCHANGED <<born, up, stdio, log>>
      /\ \A u \in Thread : local'[u].fds = local[u].fds /\ (P(u) # P(t) => local'[u] = local[u])
      /\ local' \in [Thread -> Call]
  <2>1. local' = local \/ local' = [local EXCEPT ![t] = NoCall]
    BY DEF Setup, SetupFails, Resume, Set
  <2>2. UNCHANGED <<born, up, stdio, log>>
    BY DEF Setup, SetupFails, Resume, logger
  <2>3. local \in [Thread -> Call] /\ NoCall \in Call /\ NoCall.fds = {} /\ local[t].fds = {}
    BY <1>2, NoCallIs DEF TypeOK, FilesOK
  <2> QED BY <2>1, <2>2, <2>3
<1>4. /\ pc' \in [Thread -> Place]
      /\ \A u \in Thread : P(u) = P(t) => pc'[u] \in {"idle", "error", "none"}
      /\ \A u \in Thread : P(u) # P(t) => pc'[u] = pc[u]
  <2> DEFINE w == <<P(t), "worker">>
  <2>1. w \in Thread /\ P(w) = P(t) /\ {"idle", "error", "none"} \subseteq Place
    BY <1>2 DEF Thread, P, Place
  <2>2. CASE Setup(t)
    <3>1. pc' = [pc EXCEPT ![t] = "idle", ![w] = "idle"]
      BY <2>2 DEF Setup
    <3> HIDE DEF w
    <3> QED BY <1>2, <2>1, <3>1 DEF TypeOK, FilesOK
  <2>3. CASE SetupFails(t)
    <3>1. pc' = [pc EXCEPT ![t] = "error"]
      BY <2>3 DEF SetupFails, Resume, Set
    <3> QED BY <1>2, <2>1, <3>1 DEF TypeOK, FilesOK
  <2> QED BY <2>2, <2>3
<1>5. /\ desc' \in [Proc -> [Fd -> File]] /\ daemon' \in [Proc -> {"ok", "failed", "no"}]
      /\ LogFile(P(t))' /\ Standard(P(t))' /\ Accounted(P(t))'
      /\ \A q \in Proc : q # P(t) => desc'[q] = desc[q] /\ daemon'[q] = daemon[q]
      /\ leak \subseteq leak' /\ leak' \subseteq leak \cup {P(t)}
  <2> DEFINE p == P(t)
             m == LowestFd(p)
  <2>1. p \in up /\ \A u \in Thread : P(u) = p => local[u].fds = {} /\ local'[u].fds = {}
    BY <1>2, <1>3
  <2>2. CASE Setup(t)
    <3>1. desc' = Set(desc, p, [Nulled(p, m, 3) EXCEPT ![m] = Closed])
          /\ daemon' = Set(daemon, p, "ok") /\ leak' = leak /\ FreeFd(p) # {}
      BY <2>2 DEF Setup
    <3>2. \A q \in Proc : q # p => desc'[q] = desc[q] /\ daemon'[q] = daemon[q]
      BY <3>1 DEF Set, TypeOK, FilesOK
    <3>3. Closed \in File /\ 3 \in 0 .. 3
      BY DEF File
    <3> HIDE DEF p
    <3>4. /\ desc' \in [Proc -> [Fd -> File]] /\ daemon' \in [Proc -> {"ok", "failed", "no"}]
          /\ LogFile(p)' /\ Standard(p)' /\ Accounted(p)'
      BY <1>3, <2>1, <3>1, <3>3, NulledKeeps
    <3> QED BY <3>1, <3>2, <3>4 DEF p
  <2>3. CASE SetupFails(t) /\ UNCHANGED <<desc, leak>>
    <3>1. daemon' = Set(daemon, p, "failed")
      BY <2>3 DEF SetupFails
    <3>2. daemon'[p] = "failed" /\ daemon' \in [Proc -> {"ok", "failed", "no"}]
          /\ \A q \in Proc : q # p => daemon'[q] = daemon[q]
      BY <1>2, <3>1 DEF Set, TypeOK, FilesOK
    <3>3. LogFile(p) /\ Standard(p) /\ Accounted(p)
      BY <1>2 DEF FdInv
    <3>4. LogFile(p)' /\ Standard(p)'
      BY <1>3, <2>3, <3>2, <3>3 DEF LogFile, Standard
    <3>5. Accounted(p)'
      BY <1>3, <2>3, <3>3 DEF Accounted
    <3> QED BY <2>3, <3>2, <3>4, <3>5 DEF TypeOK, FilesOK
  <2>4. CASE SetupFails(t) /\ ~UNCHANGED <<desc, leak>>
    <3>1. FreeFd(p) # {} /\ leak' = leak \cup {p} /\ daemon' = Set(daemon, p, "failed")
      BY <2>4 DEF SetupFails
    <3>2. PICK n \in Stdio : desc' = Set(desc, p, Nulled(p, m, n))
      BY <2>4 DEF SetupFails
    <3>3. m \in Fd
      BY <3>1, LowestFree
    <3>4. Nulled(p, m, n) = [Nulled(p, m, n) EXCEPT ![m] = "null"]
      BY <3>3 DEF Nulled
    <3>5. desc' = Set(desc, p, [Nulled(p, m, n) EXCEPT ![m] = "null"])
      BY <3>2, <3>4
    <3>6. \A q \in Proc : q # p => desc'[q] = desc[q] /\ daemon'[q] = daemon[q]
      BY <3>1, <3>2 DEF Set, TypeOK, FilesOK
    <3>7. "null" \in File /\ n \in 0 .. 3
      BY DEF File, Stdio
    <3> HIDE DEF p
    <3>8. /\ desc' \in [Proc -> [Fd -> File]] /\ daemon' \in [Proc -> {"ok", "failed", "no"}]
          /\ LogFile(p)' /\ Standard(p)' /\ Accounted(p)'
      BY <1>3, <2>1, <3>1, <3>5, <3>7, NulledKeeps
    <3> QED BY <3>1, <3>6, <3>8 DEF p
  <2> QED BY <2>2, <2>3, <2>4
<1>6. FilesOK'
  BY <1>2, <1>3, <1>4, <1>5 DEF TypeOK, FilesOK
<1>7. ASSUME NEW u \in Thread PROVE PlaceOf(u)' /\ Owns(u)'
  <2>1. CASE P(u) = P(t)
    <3>1. pc'[u] \in {"idle", "error", "none"} /\ local'[u].fds = {} /\ P(u) \in up'
      BY <1>2, <1>3, <1>4, <2>1
    <3> QED BY <3>1 DEF PlaceOf, Owns, InLog, Holding
  <2>2. CASE P(u) # P(t)
    <3>1. pc'[u] = pc[u] /\ local'[u] = local[u] /\ desc'[P(u)] = desc[P(u)] /\ UNCHANGED <<up, log>>
          /\ \A v \in Thread : P(v) = P(u) => pc'[v] = pc[v]
      BY <1>3, <1>4, <1>5, <2>2, Processes
    <3> QED BY <3>1 DEF PlaceInv, PlaceOf, FdInv, Owns
  <2> QED BY <2>1, <2>2
<1>8. ASSUME NEW u \in Thread, NEW v \in Thread PROVE Apart(u, v)'
  BY <1>3 DEF FdInv, Apart
<1>9. ASSUME NEW q \in up, q # P(t) PROVE LogFile(q)' /\ Standard(q)' /\ Accounted(q)'
  <2>1. /\ q \in Proc /\ desc'[q] = desc[q] /\ daemon'[q] = daemon[q] /\ (q \in leak' <=> q \in leak)
        /\ LogFile(q) /\ Standard(q) /\ Accounted(q) /\ UNCHANGED <<log, stdio>>
    BY <1>3, <1>5, <1>9 DEF TypeOK, FilesOK, FdInv
  <2> QED BY <1>3, <2>1 DEF LogFile, Standard, Accounted
<1>10. (\A q \in Proc \ born : daemon[q] = "no")'
  BY <1>2, <1>3, <1>5 DEF PlaceInv, TypeOK, FilesOK
<1> QED BY <1>3, <1>5, <1>6, <1>7, <1>8, <1>9, <1>10 DEF PlaceInv, FdInv
-----------------------------------------------------------------------------
(* The descriptors *)

LEMMA FdsAtFirst == Init => TypeOK /\ PlaceInv /\ FdInv
<1> SUFFICES ASSUME Init PROVE TypeOK /\ PlaceInv /\ FdInv
  OBVIOUS
<1>1. /\ born \subseteq Proc /\ up = born /\ stdio \subseteq born /\ leak = {}
      /\ desc = [p \in Proc |-> [f \in Fd |->
                   IF p \in born /\ f \in Stdio /\ (f # 0 \/ p \in stdio) THEN "tty" ELSE Closed]]
      /\ pc = [t \in Thread |-> IF P(t) \in born THEN "idle" ELSE "none"]
      /\ local = [t \in Thread |-> NoCall]
      /\ now = 1 /\ log = [p \in Proc |-> NoLog] /\ raced = {} /\ foreign = {}
      /\ digits \in [Proc -> Lengths] /\ daemon = [p \in Proc |-> "no"]
  BY DEF Init, FilesInit, LoggerInit, ProcInit
<1>2. /\ \A t \in Thread : local[t].fds = {} /\ pc[t] \in {"idle", "none"} /\ (P(t) \notin up => pc[t] = "none")
      /\ \A p \in Proc : log[p].fd = NoFd
  BY <1>1, NoCallIs, LogIs, Processes
<1>3. Stdio \subseteq Fd
  BY FilesAssumption DEF Stdio, Fd
<1>4. TypeOK
  <2>1. desc \in [Proc -> [Fd -> File]]
    BY <1>1 DEF File
  <2>2. pc \in [Thread -> Place] /\ local \in [Thread -> Call] /\ daemon \in [Proc -> {"ok", "failed", "no"}]
        /\ log \in [Proc -> {NoLog} \cup OpenLog]
    BY <1>1, NoCallIs DEF Place
  <2> QED BY <1>1, <2>1, <2>2 DEF TypeOK, FilesOK, AsideOK
<1>5. PlaceInv
  BY <1>1, <1>2 DEF PlaceInv, PlaceOf, Holding, InLog
<1>6. \A p \in up : LogFile(p) /\ Standard(p) /\ Accounted(p)
  BY <1>1, <1>2, <1>3 DEF LogFile, Standard, Accounted, Closed
<1> QED BY <1>2, <1>4, <1>5, <1>6 DEF FdInv, Owns, Apart

LEMMA AsideKept ==
  ASSUME TypeOK, Next \/ UNCHANGED vars
  PROVE  AsideOK'
<1> USE DEF AsideOK, TypeOK
<1>1. CASE UNCHANGED vars
  BY <1>1 DEF vars, logger, proc
<1>2. CASE Tick /\ UNCHANGED <<proc, to>>
  BY <1>2 DEF Tick, proc
<1>3. ASSUME NEW p \in up, Kill(p) PROVE AsideOK'
  BY <1>3 DEF Kill, logger, proc
<1>4. ASSUME NEW t \in Thread, Logging(t), UNCHANGED <<proc, to>> PROVE AsideOK'
  <2>1. P(t) \in Proc /\ UNCHANGED digits
    BY <1>4, Processes DEF proc
  <2>2. now' = now /\ raced' \subseteq raced \cup {P(t)} /\ foreign' \subseteq foreign
    BY <1>4 DEF Logging, LogNew, LogDelete, LogSetPid, RotateClose, RotateOpen, PutTime, ErrorTime,
                TimeRead, PutStamp, PutFormat, PutWrite, Entering, logger
  <2> QED BY <2>1, <2>2
<1>5. ASSUME NEW t \in Thread, Helping(t), UNCHANGED to PROVE AsideOK'
  <2>1. now' = now /\ digits' = digits
        /\ \E c \in Proc : raced' \subseteq raced \cup {c} /\ foreign' \subseteq foreign \cup {c}
    <3>1. P(t) \in Proc
      BY Processes
    <3> QED BY <1>5, <3>1 DEF Helping, Fork, ForkFails, ParentExit, Setup, SetupFails, PidOpen, PidOpenFails,
                       PidClose, PidDelete, PidDeleteFails, logger, proc
  <2> QED BY <2>1
<1>6. ASSUME NEW t \in Thread, Copying(t), UNCHANGED <<logger, proc>> PROVE AsideOK'
  BY <1>6 DEF logger, proc
<1> QED BY <1>1, <1>2, <1>3, <1>4, <1>5, <1>6 DEF Next

LEMMA FdsKept ==
  ASSUME TypeOK, PlaceInv, FdInv, Next \/ UNCHANGED vars
  PROVE  TypeOK' /\ PlaceInv' /\ FdInv'
<1> SUFFICES FilesOK' /\ PlaceInv' /\ FdInv'
  BY AsideKept DEF TypeOK
<1>1. CASE UNCHANGED <<files, log, daemon>>
  BY <1>1 DEF files, TypeOK, FilesOK, PlaceInv, PlaceOf, FdInv, Owns, Apart, LogFile, Standard, Accounted
<1>2. ASSUME NEW p \in Proc, Ends(p), UNCHANGED <<log, daemon>> PROVE FilesOK' /\ PlaceInv' /\ FdInv'
  BY <1>2, EndsKeeps
<1>3. ASSUME NEW t \in Thread, Quiet(t) \/ Opens(t) \/ Closes(t) \/ OpensLog(t) \/ ClosesLog(t)
                               \/ Fork(t) \/ Setup(t) \/ SetupFails(t)
      PROVE  FilesOK' /\ PlaceInv' /\ FdInv'
  BY <1>3, QuietKeeps, OpensKeeps, ClosesKeeps, OpensLogKeeps, ClosesLogKeeps, ForkKeeps, SetupKeeps
<1>4. CASE UNCHANGED vars \/ (Tick /\ UNCHANGED <<proc, to>>)
  BY <1>1, <1>4 DEF vars, logger, proc, Tick
<1>5. ASSUME NEW p \in up, Kill(p) PROVE FilesOK' /\ PlaceInv' /\ FdInv'
  BY <1>2, <1>5 DEF Kill, logger, proc, TypeOK, FilesOK
<1>6. ASSUME NEW t \in Thread, Logging(t), UNCHANGED <<proc, to>> PROVE FilesOK' /\ PlaceInv' /\ FdInv'
  <2>1. UNCHANGED daemon /\ P(t) \in Proc
    BY <1>6, Processes DEF proc
  <2> QED BY <1>2, <1>3, <1>6, <2>1, LoggingIs
<1>7. ASSUME NEW t \in Thread, Helping(t) PROVE FilesOK' /\ PlaceInv' /\ FdInv'
  BY <1>2, <1>3, <1>7, Processes, HelpingIs
<1>8. ASSUME NEW t \in Thread, Copying(t), UNCHANGED <<logger, proc>> PROVE FilesOK' /\ PlaceInv' /\ FdInv'
  <2>1. UNCHANGED <<log, daemon>>
    BY <1>8 DEF logger, proc
  <2> QED BY <1>3, <1>8, <2>1, CopyingIs
<1> QED BY <1>4, <1>5, <1>6, <1>7, <1>8 DEF Next

\* The inductive invariant of the descriptors.
FInv == TypeOK /\ PlaceInv /\ FdInv

\* Every reachable state has it.
THEOREM FdInvariance == Spec => []FInv
<1>1. Init => FInv
  BY FdsAtFirst DEF FInv
<1>2. FInv /\ [Next]_vars => FInv'
  BY FdsKept DEF FInv
<1> QED BY <1>1, <1>2, PTL DEF Spec

\* Descriptors are not confused: of any number of processes, each with two
\* threads that open, copy, save, log, rotate, fork and fail in any order, every
\* open descriptor beyond the standard ones belongs to the log or to a call of
\* the process, unless one was left behind, and is of the file that was opened.
THEOREM DescriptorsAgree == Spec => []DescriptorsKept
<1>1. FInv => DescriptorsKept
  <2> SUFFICES ASSUME FInv, NEW p \in up PROVE
        LET mine == {t \in Thread : P(t) = p}
            kept == UNION {local[t].fds : t \in mine}
        IN  /\ p \notin leak =>
                 \A f \in Fd \ Stdio : desc[p][f] # Closed => f \in kept \cup {log[p].fd}
            /\ \A t \in mine : \A f \in local[t].fds :
                 desc[p][f] \in IF pc[t] = "save" THEN {"pid", "unlinked"} ELSE {"from", "to"}
            /\ p \in stdio /\ log[p].fd # NoFd =>
                 desc[p][log[p].fd] = "log" \/ ~log[p].named
    BY DEF DescriptorsKept
  <2>1. LogFile(p) /\ Accounted(p) /\ \A t \in Thread : Owns(t)
    BY DEF FInv, FdInv
  <2> QED BY <2>1 DEF LogFile, Accounted, Owns
<1> QED BY <1>1, FdInvariance, PTL

\* A daemon is off the terminal in every state, whatever its descriptors were
\* when proc_daemonize was called and whatever it opens later.
THEOREM DaemonsDetach == Spec => []DaemonDetached
<1>1. FInv => DaemonDetached
  BY DEF FInv, FdInv, Standard, DaemonDetached
<1> QED BY <1>1, FdInvariance, PTL
-----------------------------------------------------------------------------
(* The lines of the log *)

\* The log of a process that no two threads have been in at once: the text of
\* the time is that of log->ts unless a thread is about to make it, each thread
\* works on the second that it read, and the id is the process's own.
LogOf(p) ==
  p \notin raced =>
    /\ \A t, u \in Thread : P(t) = p /\ P(u) = p /\ pc[t] \in InLog /\ pc[u] \in InLog => t = u
    /\ log[p] # NoLog /\ (\A t \in Thread : P(t) = p => pc[t] # "stamp") => log[p].text = log[p].ts
    /\ \A t \in Thread : P(t) = p =>
         /\ pc[t] \in {"stamp", "format"} => local[t].ts = log[p].ts
         /\ pc[t] = "write" => local[t].text = local[t].ts
         /\ pc[t] = "write" /\ p \notin foreign => local[t].pid = p
    /\ p \notin foreign /\ log[p] # NoLog => log[p].pid = p

LogInv == \A p \in up : LogOf(p)

\* A step that leaves the log of p as it is, but that a thread may leave it.
SameLog(p) ==
  /\ \A u \in Thread : P(u) = p =>
       \/ pc'[u] = pc[u] /\ (pc[u] \in InLog => local'[u] = local[u])
       \/ pc'[u] \notin InLog /\ pc[u] # "stamp"
  /\ log'[p] = log[p]
     \/ (log[p] # NoLog /\ log'[p].ts = log[p].ts /\ log'[p].text = log[p].text /\ log'[p].pid = log[p].pid)
  /\ p \in raced => p \in raced'
  /\ p \in foreign' <=> p \in foreign

\* A step of t alone.
Moves(t, l, c) ==
  /\ pc'[t] = l /\ local'[t] = c
  /\ \A u \in Thread : u # t => pc'[u] = pc[u] /\ local'[u] = local[u]
  /\ up' = up

LEMMA Moving ==
  ASSUME FilesOK, NEW t \in Thread, NEW l, NEW c
  PROVE  /\ Begin(t, l, c) => Moves(t, l, c) /\ pc[t] = "idle"
         /\ \A from : Resume(t, from, l, c) => Moves(t, l, c) /\ pc[t] = from
BY DEF FilesOK, Begin, Resume, Set, Moves

LEMMA SameKeeps ==
  ASSUME NEW p \in Proc, LogOf(p), SameLog(p)
  PROVE  LogOf(p)'
BY DEF LogOf, SameLog, InLog

\* What t does in its log is nothing to other processes.
LEMMA OtherLogs ==
  ASSUME NEW t \in Thread, NEW l, NEW c, Moves(t, l, c), NEW p \in Proc, p # P(t),
         log'[p] = log[p], p \in raced => p \in raced', p \in foreign' <=> p \in foreign
  PROVE  SameLog(p)
BY DEF Moves, SameLog

\* Nobody else is in the log when a thread enters it and is not recorded as
\* having met another.
LEMMA EntersAlone ==
  ASSUME NEW t \in Thread, Entering(t)
  PROVE  /\ P(t) \notin raced' => \A u \in Thread : P(u) = P(t) /\ u # t => pc[u] \notin InLog
         /\ \A p \in Proc : p \in raced => p \in raced'
         /\ \A p \in Proc : p # P(t) => (p \in raced' <=> p \in raced)
BY DEF Entering, Others

LEMMA LogOnce ==
  ASSUME TypeOK, PlaceInv, LogInv, NEW t \in Thread, LogNew(t)
  PROVE  LogInv'
<1>1. Moves(t, "idle", NoCall) /\ pc[t] = "idle" /\ P(t) \in Proc /\ up' = up /\ up \subseteq Proc
  BY Moving, Processes DEF LogNew, TypeOK, FilesOK, Moves
<1>2. PICK named \in BOOLEAN : log' = Set(log, P(t),
        [fd |-> LowestFd(P(t)), named |-> named, ts |-> 0, text |-> 0, pid |-> P(t)])
  BY DEF LogNew
<1>3. /\ log'[P(t)].ts = 0 /\ log'[P(t)].text = 0 /\ log'[P(t)].pid = P(t)
      /\ \A q \in Proc : q # P(t) => log'[q] = log[q]
      /\ UNCHANGED <<raced, foreign>>
  BY <1>1, <1>2 DEF LogNew, Set, TypeOK, FilesOK
<1>4. \A u \in Thread : P(u) = P(t) => pc[u] \notin InLog /\ pc'[u] \notin InLog
  BY <1>1 DEF LogNew, PlaceInv, PlaceOf, Moves, InLog
<1>5. LogOf(P(t))'
  BY <1>3, <1>4 DEF LogOf, InLog
<1>6. ASSUME NEW p \in up, p # P(t) PROVE LogOf(p)'
  BY <1>1, <1>3, <1>6, OtherLogs, SameKeeps DEF LogInv
<1> QED BY <1>1, <1>5, <1>6 DEF LogInv

LEMMA LogPid ==
  ASSUME TypeOK, PlaceInv, LogInv, NEW t \in Thread, LogSetPid(t)
  PROVE  LogInv'
<1>1. Moves(t, "idle", NoCall) /\ pc[t] = "idle" /\ P(t) \in Proc /\ up' = up /\ up \subseteq Proc
  BY Moving, Processes DEF LogSetPid, TypeOK, FilesOK, Moves
<1> DEFINE x == [log[P(t)] EXCEPT !.pid = P(t)]
<1>2. x.ts = log[P(t)].ts /\ x.text = log[P(t)].text /\ x.pid = P(t) /\ log[P(t)] # NoLog
  BY <1>1, LogChanges DEF LogSetPid, TypeOK, FilesOK
<1>3. /\ log'[P(t)] = x /\ \A q \in Proc : q # P(t) => log'[q] = log[q]
      /\ foreign' = foreign \ {P(t)}
  BY <1>1 DEF LogSetPid, TypeOK, FilesOK
<1> HIDE DEF x
<1>e. Entering(t)
  BY DEF LogSetPid
<1>4. P(t) \notin raced' => \A u \in Thread : P(u) = P(t) => pc[u] \notin InLog /\ pc'[u] \notin InLog
  BY <1>1, <1>e, EntersAlone DEF Moves, InLog
<1>5. LogOf(P(t))'
  <2>1. LogOf(P(t)) /\ (P(t) \notin raced' => P(t) \notin raced)
    BY <1>1, <1>e, EntersAlone DEF LogInv, LogSetPid, TypeOK, FilesOK, PlaceInv, PlaceOf
  <2> QED BY <1>2, <1>3, <1>4, <2>1 DEF LogOf, InLog
<1>6. ASSUME NEW p \in up, p # P(t) PROVE LogOf(p)'
  <2>1. SameLog(p)
    BY <1>1, <1>3, <1>6, <1>e, EntersAlone, OtherLogs
  <2> QED BY <1>1, <2>1, SameKeeps DEF LogInv
<1> QED BY <1>1, <1>5, <1>6 DEF LogInv

LEMMA LogGone ==
  ASSUME TypeOK, PlaceInv, LogInv, NEW t \in Thread, LogDelete(t)
  PROVE  LogInv'
<1>1. Moves(t, "idle", NoCall) /\ pc[t] = "idle" /\ P(t) \in Proc /\ up' = up /\ up \subseteq Proc
  BY Moving, Processes DEF LogDelete, TypeOK, FilesOK, Moves
<1>2. /\ log'[P(t)] = NoLog /\ UNCHANGED <<raced, foreign>>
      /\ \A q \in Proc : q # P(t) => log'[q] = log[q]
  BY <1>1 DEF LogDelete, Set, TypeOK, FilesOK
<1>3. \A u \in Thread : P(u) = P(t) => pc'[u] \notin InLog
  BY <1>1 DEF LogDelete, Others, Moves, InLog
<1>4. LogOf(P(t))'
  BY <1>2, <1>3 DEF LogOf, InLog
<1>5. ASSUME NEW p \in up, p # P(t) PROVE LogOf(p)'
  BY <1>1, <1>2, <1>5, OtherLogs, SameKeeps DEF LogInv
<1> QED BY <1>1, <1>4, <1>5 DEF LogInv

LEMMA LogRotates ==
  ASSUME TypeOK, PlaceInv, LogInv, NEW t \in Thread, RotateClose(t)
  PROVE  LogInv'
<1>1. Moves(t, "rotate", NoCall) /\ pc[t] = "idle" /\ P(t) \in Proc /\ P(t) \in up /\ up' = up /\ up \subseteq Proc
  BY Moving, Processes DEF RotateClose, TypeOK, FilesOK, Moves, PlaceInv, PlaceOf
<1> DEFINE x == [log[P(t)] EXCEPT !.fd = NoFd]
<1>2. /\ x.ts = log[P(t)].ts /\ x.text = log[P(t)].text /\ x.pid = log[P(t)].pid /\ log[P(t)] # NoLog
  BY <1>1, LogChanges DEF RotateClose, TypeOK, FilesOK
<1>3. /\ log'[P(t)] = x /\ \A q \in Proc : q # P(t) => log'[q] = log[q]
      /\ foreign' = foreign
  BY <1>1 DEF RotateClose, TypeOK, FilesOK
<1> HIDE DEF x
<1>e. Entering(t)
  BY DEF RotateClose
<1>4. P(t) \notin raced' => \A u \in Thread : P(u) = P(t) /\ u # t => pc[u] \notin InLog /\ pc'[u] \notin InLog
  BY <1>1, <1>e, EntersAlone DEF Moves
<1>5. LogOf(P(t))'
  <2>1. LogOf(P(t)) /\ (P(t) \notin raced' => P(t) \notin raced)
    BY <1>1, <1>e, EntersAlone DEF LogInv
  <2>2. \A u \in Thread : P(u) = P(t) => (pc[u] \in InLog => u # t) /\ (pc'[u] \notin InLog => pc'[u] # "stamp")
    BY <1>1 DEF InLog
  <2> QED BY <1>1, <1>2, <1>3, <1>4, <2>1, <2>2 DEF LogOf, InLog, Moves
<1>6. ASSUME NEW p \in up, p # P(t) PROVE LogOf(p)'
  <2>1. SameLog(p)
    BY <1>1, <1>3, <1>6, <1>e, EntersAlone, OtherLogs
  <2> QED BY <1>1, <2>1, SameKeeps DEF LogInv
<1> QED BY <1>1, <1>5, <1>6 DEF LogInv

\* The processes that go on keep their logs when one ends.
LEMMA LogEnds ==
  ASSUME TypeOK, LogInv, NEW p \in Proc, Ends(p), UNCHANGED <<log, raced, foreign>>
  PROVE  LogInv'
<1>1. ASSUME NEW q \in up, q # p PROVE LogOf(q)'
  <2>1. SameLog(q)
    BY <1>1 DEF Ends, SameLog, TypeOK, FilesOK
  <2> QED BY <1>1, <2>1, SameKeeps DEF LogInv, TypeOK, FilesOK
<1> QED BY <1>1 DEF Ends, LogInv

\* A step of t in which it is not in the log, or leaves it with nothing half done.
LEMMA LogLeft ==
  ASSUME TypeOK, LogInv, NEW t \in Thread, NEW l, NEW c, Moves(t, l, c),
         l \notin InLog, pc[t] # "stamp", UNCHANGED <<raced, foreign>>,
         \A p \in Proc : log'[p] = log[p]
           \/ (log[p] # NoLog /\ log'[p].ts = log[p].ts /\ log'[p].text = log[p].text /\ log'[p].pid = log[p].pid)
  PROVE  LogInv'
<1>1. ASSUME NEW p \in up PROVE LogOf(p)'
  <2>1. SameLog(p) /\ p \in Proc
    BY DEF Moves, SameLog, TypeOK, FilesOK
  <2> QED BY <2>1, SameKeeps DEF LogInv
<1> QED BY <1>1 DEF Moves, LogInv

LEMMA LogReopens ==
  ASSUME TypeOK, PlaceInv, LogInv, NEW t \in Thread, RotateOpen(t)
  PROVE  LogInv'
<1>1. P(t) \in Proc /\ pc[t] = "rotate" /\ log[P(t)] \in OpenLog /\ UNCHANGED <<raced, foreign>>
  BY Processes DEF RotateOpen, Resume, PlaceInv, PlaceOf, InLog, TypeOK, FilesOK
<1>2. CASE Resume(t, "rotate", "idle", NoCall)
           /\ (UNCHANGED log \/ (FreeFd(P(t)) # {} /\ log' = [log EXCEPT ![P(t)].fd = LowestFd(P(t))]))
  <2> DEFINE x == [log[P(t)] EXCEPT !.fd = LowestFd(P(t))]
  <2>1. FreeFd(P(t)) # {} => x.ts = log[P(t)].ts /\ x.text = log[P(t)].text /\ x.pid = log[P(t)].pid
    BY <1>1, LowestFree, LogChanges
  <2>2. UNCHANGED log \/ (FreeFd(P(t)) # {} /\ log' = [log EXCEPT ![P(t)] = x])
    BY <1>2
  <2> HIDE DEF x
  <2>3. \A p \in Proc : log'[p] = log[p]
           \/ (log[p] # NoLog /\ log'[p].ts = log[p].ts /\ log'[p].text = log[p].text /\ log'[p].pid = log[p].pid)
    BY <1>1, <2>1, <2>2, LogIs DEF TypeOK, FilesOK
  <2>4. Moves(t, "idle", NoCall)
    BY <1>2, Moving DEF TypeOK
  <2> QED BY <1>1, <2>3, <2>4, LogLeft DEF InLog
<1>3. CASE Ends(P(t)) /\ UNCHANGED log
  BY <1>1, <1>3, LogEnds
<1> QED BY <1>2, <1>3 DEF RotateOpen

LEMMA LogTime ==
  ASSUME TypeOK, PlaceInv, LogInv, NEW t \in Thread, PutTime(t) \/ ErrorTime(t)
  PROVE  LogInv'
<1>1. CASE Resume(t, "error", "idle", NoCall) /\ UNCHANGED logger
  <2>1. Moves(t, "idle", NoCall) /\ pc[t] = "error"
    BY <1>1, Moving DEF TypeOK
  <2> QED BY <1>1, <2>1, LogLeft DEF InLog, logger
<1>2. CASE /\ log[P(t)] # NoLog /\ TimeRead(t)
           /\ \/ Begin(t, AfterTime(t), [fds |-> {}, ts |-> now])
              \/ Resume(t, "error", AfterTime(t), [fds |-> {}, ts |-> now])
  <2> DEFINE k == [fds |-> {}, ts |-> now]
             r == AfterTime(t)
             x == [log[P(t)] EXCEPT !.ts = now]
  <2>1. P(t) \in Proc /\ log[P(t)] \in OpenLog /\ now \in Nat
    BY <1>2, Processes DEF TypeOK, FilesOK, AsideOK
  <2>2. k.ts = now /\ r = IF now # log[P(t)].ts THEN "stamp" ELSE "format"
    BY DEF AfterTime, OutOfDate
  <2>3. x.ts = now /\ x.text = log[P(t)].text /\ x.pid = log[P(t)].pid
    BY <2>1, LogChanges
  <2>4. /\ log'[P(t)] = IF now # log[P(t)].ts THEN x ELSE log[P(t)]
        /\ \A q \in Proc : q # P(t) => log'[q] = log[q]
        /\ foreign' = foreign
    BY <1>2, <2>1 DEF TimeRead, OutOfDate, TypeOK, FilesOK
  <2>5. Begin(t, r, k) \/ Resume(t, "error", r, k)
    BY <1>2
  <2> HIDE DEF k, r, x
  <2>6. Moves(t, r, k) /\ pc[t] \in {"idle", "error"}
    BY <2>5, Moving DEF TypeOK
  <2>7. P(t) \in up /\ up' = up /\ up \subseteq Proc /\ Entering(t)
    BY <1>2, <2>6 DEF Moves, PlaceInv, PlaceOf, TypeOK, FilesOK, TimeRead
  <2>8. /\ LogOf(P(t)) /\ (P(t) \notin raced' => P(t) \notin raced)
        /\ P(t) \notin raced' => \A u \in Thread : P(u) = P(t) /\ u # t => pc[u] \notin InLog /\ pc'[u] \notin InLog
    BY <2>1, <2>6, <2>7, EntersAlone DEF LogInv, Moves
  <2>9. LogOf(P(t))'
    <3>1. SUFFICES ASSUME P(t) \notin raced' PROVE LogOf(P(t))'
      BY DEF LogOf
    <3>2. log[P(t)].text = log[P(t)].ts
      BY <1>2, <2>6, <2>8, <3>1 DEF LogOf, InLog
    <3>3. pc'[t] = r /\ local'[t] = k /\ r # "write"
      BY <2>2, <2>6 DEF Moves
    <3>4. \A u \in Thread : P(u) = P(t) /\ pc'[u] \in InLog => u = t
      BY <2>8, <3>1
    <3>5. (\A u \in Thread : P(u) = P(t) => pc'[u] # "stamp") => log'[P(t)].text = log'[P(t)].ts
      BY <2>2, <2>4, <3>2, <3>3
    <3>6. local'[t].ts = log'[P(t)].ts
      BY <2>2, <2>3, <2>4, <3>3
    <3>7. P(t) \notin foreign' => log'[P(t)].pid = P(t)
      BY <1>2, <2>3, <2>4, <2>8, <3>1 DEF LogOf
    <3> QED BY <3>3, <3>4, <3>5, <3>6, <3>7 DEF LogOf, InLog
  <2>10. ASSUME NEW p \in up, p # P(t) PROVE LogOf(p)'
    <3>1. SameLog(p)
      BY <2>4, <2>6, <2>7, <2>10, EntersAlone, OtherLogs
    <3> QED BY <2>7, <3>1, SameKeeps DEF LogInv
  <2> QED BY <2>7, <2>9, <2>10 DEF LogInv
<1> QED BY <1>1, <1>2 DEF PutTime, ErrorTime

LEMMA LogStamp ==
  ASSUME TypeOK, PlaceInv, LogInv, NEW t \in Thread, PutStamp(t)
  PROVE  LogInv'
<1>1. Moves(t, "format", local[t]) /\ pc[t] = "stamp" /\ P(t) \in Proc
  BY Moving, Processes DEF PutStamp, TypeOK
<1> DEFINE x == [log[P(t)] EXCEPT !.text = local[t].ts]
<1>2. log[P(t)] \in OpenLog /\ local[t].ts \in Nat /\ P(t) \in up
  BY <1>1, PutCallIs DEF PlaceInv, PlaceOf, InLog, TypeOK, FilesOK
<1>3. x.ts = log[P(t)].ts /\ x.text = local[t].ts /\ x.pid = log[P(t)].pid
  BY <1>2, LogChanges
<1>4. log'[P(t)] = x /\ (\A q \in Proc : q # P(t) => log'[q] = log[q]) /\ UNCHANGED <<raced, foreign>>
  BY <1>1 DEF PutStamp, TypeOK, FilesOK
<1>5. up' = up /\ up \subseteq Proc
  BY <1>1 DEF Moves, TypeOK, FilesOK
<1> HIDE DEF x
<1>6. LogOf(P(t))'
  <2>1. SUFFICES ASSUME P(t) \notin raced PROVE LogOf(P(t))'
    BY <1>4 DEF LogOf
  <2>2. \A u \in Thread : P(u) = P(t) /\ u # t => pc[u] \notin InLog /\ pc'[u] \notin InLog
    BY <1>1, <1>2, <2>1 DEF LogInv, LogOf, Moves, InLog
  <2>3. local[t].ts = log[P(t)].ts /\ (P(t) \notin foreign => log[P(t)].pid = P(t))
    BY <1>1, <1>2, <2>1, LogIs DEF LogInv, LogOf
  <2>4. pc'[t] = "format" /\ local'[t] = local[t]
    BY <1>1 DEF Moves
  <2> QED BY <1>3, <1>4, <2>2, <2>3, <2>4 DEF LogOf, InLog
<1>7. ASSUME NEW p \in up, p # P(t) PROVE LogOf(p)'
  BY <1>1, <1>4, <1>5, <1>7, OtherLogs, SameKeeps DEF LogInv
<1> QED BY <1>5, <1>6, <1>7 DEF LogInv

LEMMA LogFormat ==
  ASSUME TypeOK, PlaceInv, LogInv, NEW t \in Thread, PutFormat(t)
  PROVE  LogInv'
<1> DEFINE k == [fds |-> {}, ts |-> local[t].ts, text |-> log[P(t)].text, pid |-> log[P(t)].pid]
<1>1. k.ts = local[t].ts /\ k.text = log[P(t)].text /\ k.pid = log[P(t)].pid
  OBVIOUS
<1>2. Resume(t, "format", "write", k) /\ UNCHANGED <<log, raced, foreign>>
  BY DEF PutFormat, logger
<1> HIDE DEF k
<1>3. Moves(t, "write", k) /\ pc[t] = "format" /\ P(t) \in Proc
  BY <1>2, Moving, Processes DEF TypeOK
<1>4. P(t) \in up /\ log[P(t)] # NoLog /\ up' = up /\ up \subseteq Proc
  BY <1>3 DEF PlaceInv, PlaceOf, InLog, TypeOK, FilesOK, Moves
<1>5. LogOf(P(t))'
  <2>1. SUFFICES ASSUME P(t) \notin raced PROVE LogOf(P(t))'
    BY <1>2 DEF LogOf
  <2>2. \A u \in Thread : P(u) = P(t) /\ u # t => pc[u] \notin InLog /\ pc'[u] \notin InLog
    BY <1>3, <1>4, <2>1 DEF LogInv, LogOf, Moves, InLog
  <2>3. local[t].ts = log[P(t)].ts /\ (P(t) \notin foreign => log[P(t)].pid = P(t))
        /\ log[P(t)].text = log[P(t)].ts
    BY <1>3, <1>4, <2>1, <2>2 DEF LogInv, LogOf, InLog
  <2>4. pc'[t] = "write" /\ local'[t] = k
    BY <1>3 DEF Moves
  <2> QED BY <1>1, <1>2, <2>2, <2>3, <2>4 DEF LogOf, InLog
<1>6. ASSUME NEW p \in up, p # P(t) PROVE LogOf(p)'
  BY <1>2, <1>3, <1>4, <1>6, OtherLogs, SameKeeps DEF LogInv
<1> QED BY <1>4, <1>5, <1>6 DEF LogInv

LEMMA LogWrite ==
  ASSUME TypeOK, LogInv, NEW t \in Thread, PutWrite(t)
  PROVE  LogInv'
<1>1. UNCHANGED <<log, raced, foreign>> /\ P(t) \in Proc
  BY Processes DEF PutWrite, logger
<1>2. CASE Resume(t, "write", "idle", NoCall)
  <2>1. Moves(t, "idle", NoCall) /\ pc[t] = "write"
    BY <1>2, Moving DEF TypeOK
  <2> QED BY <1>1, <2>1, LogLeft DEF InLog
<1>3. CASE Ends(P(t))
  BY <1>1, <1>3, LogEnds
<1> QED BY <1>2, <1>3 DEF PutWrite

LEMMA LogForks ==
  ASSUME TypeOK, PlaceInv, LogInv, NEW t \in Thread, Fork(t)
  PROVE  LogInv'
<1>1. PICK c \in Proc \ born :
        /\ born' = born \cup {c} /\ up' = up \cup {c}
        /\ log' = Set(log, c, log[P(t)])
        /\ pc' = [pc EXCEPT ![t] = "exit", ![<<c, "main">>] = "setup"]
        /\ raced' = IF P(t) \in raced \/ Others(t, {"stamp"}) # {} THEN raced \cup {c} ELSE raced
        /\ foreign' = foreign \cup {c}
  BY DEF Fork
<1>2. /\ pc[t] = "idle" /\ local' = local /\ P(t) \in Proc /\ P(t) \in up /\ c \notin up /\ up \subseteq Proc
  BY <1>1, Processes DEF Fork, TypeOK, FilesOK, PlaceInv, PlaceOf
<1>3. /\ log'[c] = log[P(t)] /\ \A q \in Proc : q # c => log'[q] = log[q]
  BY <1>1 DEF Set, TypeOK, FilesOK
<1>4. <<c, "main">> \in Thread /\ P(<<c, "main">>) = c
  BY <1>1 DEF Thread, P
<1>5. /\ \A u \in Thread : P(u) # c /\ u # t => pc'[u] = pc[u]
      /\ pc'[t] = "exit"
      /\ \A u \in Thread : P(u) = c => pc'[u] \in {"setup", "none"}
  <2>1. \A u \in Thread : P(u) = c => pc[u] = "none"
    BY <1>2 DEF PlaceInv, PlaceOf
  <2>2. pc \in [Thread -> Place] /\ t # <<c, "main">>
    BY <1>2, <1>4 DEF TypeOK, FilesOK
  <2> QED BY <1>1, <1>2, <1>4, <2>1, <2>2
<1>6. LogOf(c)'
  <2>1. SUFFICES ASSUME c \notin raced' PROVE LogOf(c)'
    BY DEF LogOf
  <2>2. P(t) \notin raced /\ Others(t, {"stamp"}) = {}
    BY <1>1, <2>1
  <2>3. \A u \in Thread : P(u) = P(t) => pc[u] # "stamp"
    BY <1>2, <2>2 DEF Others
  <2>4. log[P(t)] # NoLog => log[P(t)].text = log[P(t)].ts
    BY <1>2, <2>2, <2>3 DEF LogInv, LogOf
  <2>5. c \in foreign'
    BY <1>1
  <2> QED BY <1>3, <1>5, <2>4, <2>5 DEF LogOf, InLog
<1>7. ASSUME NEW p \in up PROVE LogOf(p)'
  <2>1. p \in Proc /\ p # c
    BY <1>2
  <2>2. SameLog(p)
    BY <1>1, <1>2, <1>3, <1>5, <2>1 DEF SameLog, InLog
  <2> QED BY <2>1, <2>2, SameKeeps DEF LogInv
<1> QED BY <1>1, <1>6, <1>7 DEF LogInv

\* Steps of threads that are not in the log.
LEMMA LogElsewhere ==
  ASSUME TypeOK, LogInv, UNCHANGED <<log, raced, foreign, up>>,
         \A u \in Thread : \/ pc'[u] = pc[u] /\ (pc[u] \in InLog => local'[u] = local[u])
                           \/ pc[u] \notin InLog /\ pc'[u] \notin InLog
  PROVE  LogInv'
<1>1. ASSUME NEW p \in up PROVE LogOf(p)'
  <2>1. SameLog(p) /\ p \in Proc
    BY DEF SameLog, InLog, TypeOK, FilesOK
  <2> QED BY <2>1, SameKeeps DEF LogInv
<1> QED BY <1>1 DEF LogInv

LEMMA CopyElsewhere ==
  ASSUME TypeOK, LogInv, NEW t \in Thread, Copying(t), UNCHANGED <<log, raced, foreign>>
  PROVE  LogInv'
<1>1. CASE Creat(t)
  <2>1. pc[t] = "creat" /\ pc' = [pc EXCEPT ![t] = "read"] /\ up' = up
    BY <1>1 DEF Creat, Set
  <2>2. \A u \in Thread : u # t /\ u \notin InCopy => local'[u] = local[u]
    BY <1>1 DEF Creat
  <2>3. \A u \in Thread : pc[u] \in InLog => u # t /\ u \notin InCopy
    BY <2>1 DEF InLog, InCopy
  <2>4. \A u \in Thread : \/ pc'[u] = pc[u] /\ (pc[u] \in InLog => local'[u] = local[u])
                          \/ pc[u] \notin InLog /\ pc'[u] \notin InLog
    BY <2>1, <2>2, <2>3 DEF TypeOK, FilesOK, InLog
  <2> QED BY <2>1, <2>4, LogElsewhere
<1>2. CASE ~Creat(t)
  <2>1. \E l \in {"creat", "read", "copy_write", "copied", "idle"} : \E c :
          Moves(t, l, c) /\ pc[t] \in {"idle", "creat", "read", "copy_write", "copied"}
    BY <1>2, Moving DEF Copying, CopyOpen, CopyRead, CopyWrite, Abandon, CopyClose, TypeOK
  <2> QED BY <2>1, LogElsewhere DEF Moves, InLog
<1> QED BY <1>1, <1>2

LEMMA HelpElsewhere ==
  ASSUME TypeOK, PlaceInv, LogInv, NEW t \in Thread, Helping(t)
  PROVE  LogInv'
<1>1. CASE Fork(t)
  BY <1>1, LogForks
<1>2. CASE ParentExit(t)
  BY <1>2, LogEnds, Processes DEF ParentExit, logger
<1>3. CASE Setup(t)
  <2>1. pc[t] = "setup" /\ pc' = [pc EXCEPT ![t] = "idle", ![<<P(t), "worker">>] = "idle"]
        /\ UNCHANGED <<up, local, log, raced, foreign>>
    BY <1>3 DEF Setup, logger
  <2>2. /\ P(<<P(t), "worker">>) = P(t) /\ <<P(t), "worker">> \in Thread
        /\ \A u \in Thread : P(u) = P(t) => u = t \/ pc[u] = "none"
    BY <2>1, SetupAlone DEF P, Thread
  <2>3. \A u \in Thread : u # t /\ u # <<P(t), "worker">> => pc'[u] = pc[u]
    BY <2>1 DEF TypeOK, FilesOK
  <2>4. pc[t] \notin InLog /\ pc'[t] \notin InLog
        /\ pc[<<P(t), "worker">>] \notin InLog /\ pc'[<<P(t), "worker">>] \notin InLog
    <3> DEFINE w == <<P(t), "worker">>
    <3>1. w \in Thread /\ pc[w] \in {"none", "setup"} /\ pc' = [pc EXCEPT ![t] = "idle", ![w] = "idle"]
      BY <2>1, <2>2
    <3> HIDE DEF w
    <3>2. pc[w] \notin InLog /\ pc'[w] \notin InLog /\ pc[t] \notin InLog /\ pc'[t] \notin InLog
      BY <2>1, <3>1 DEF TypeOK, FilesOK, InLog
    <3> QED BY <3>2 DEF w
  <2> QED BY <2>1, <2>3, <2>4, LogElsewhere
<1>4. CASE \/ SetupFails(t) \/ ForkFails(t) \/ PidOpen(t) \/ PidOpenFails(t)
           \/ PidClose(t) \/ PidDelete(t) \/ PidDeleteFails(t)
  <2>1. UNCHANGED <<log, raced, foreign>>
    BY <1>4 DEF SetupFails, ForkFails, PidOpen, PidOpenFails, PidClose, PidDelete, PidDeleteFails, logger
  <2>2. \E l \in {"idle", "error", "save"} : \E c :
          Moves(t, l, c) /\ pc[t] \in {"idle", "setup", "save"}
    BY <1>4, Moving DEF SetupFails, ForkFails, PidOpen, PidOpenFails, PidClose, PidDelete, PidDeleteFails, TypeOK
  <2> QED BY <2>1, <2>2, LogElsewhere DEF Moves, InLog
<1> QED BY <1>1, <1>2, <1>3, <1>4 DEF Helping

LEMMA LogsAtFirst == Init => LogInv
<1> SUFFICES ASSUME Init PROVE LogInv
  OBVIOUS
<1>1. pc = [t \in Thread |-> IF P(t) \in born THEN "idle" ELSE "none"] /\ log = [p \in Proc |-> NoLog]
      /\ up \subseteq Proc
  BY DEF Init, FilesInit, LoggerInit
<1> QED BY <1>1 DEF LogInv, LogOf, InLog

LEMMA LogsKept ==
  ASSUME TypeOK, PlaceInv, LogInv, Next \/ UNCHANGED vars
  PROVE  LogInv'
<1>1. CASE UNCHANGED vars \/ (Tick /\ UNCHANGED <<proc, to>>)
  <2>1. UNCHANGED <<log, raced, foreign, up, pc, local>>
    BY <1>1 DEF vars, files, logger, Tick
  <2> QED BY <2>1, LogElsewhere
<1>2. ASSUME NEW p \in up, Kill(p) PROVE LogInv'
  BY <1>2, LogEnds DEF Kill, logger, TypeOK, FilesOK
<1>3. ASSUME NEW t \in Thread, Logging(t) PROVE LogInv'
  BY <1>3, LogOnce, LogGone, LogPid, LogRotates, LogReopens, LogTime, LogStamp, LogFormat, LogWrite
     DEF Logging
<1>4. ASSUME NEW t \in Thread, Helping(t) PROVE LogInv'
  BY <1>4, HelpElsewhere
<1>5. ASSUME NEW t \in Thread, Copying(t), UNCHANGED <<logger, proc>> PROVE LogInv'
  BY <1>5, CopyElsewhere DEF logger
<1> QED BY <1>1, <1>2, <1>3, <1>4, <1>5 DEF Next

\* A line bears the second and the id it should: however many processes log,
\* rotate, fork and set their ids, a line is only wrong in a process where two
\* threads have been in the log at once, or fork has come in between.
THEOREM LinesAreExact == Spec => []LinesExact
<1>1. Init => LogInv
  BY LogsAtFirst
<1>2. FInv /\ LogInv /\ [Next]_vars => LogInv'
  BY LogsKept DEF FInv
<1>3. FInv /\ LogInv => LinesExact
  <2>1. ASSUME FInv, LogInv, NEW t \in Thread, pc[t] = "write"
        PROVE  /\ P(t) \notin raced => local[t].text = local[t].ts
               /\ P(t) \notin raced \cup foreign => local[t].pid = P(t)
    <3>1. P(t) \in up
      BY <2>1 DEF FInv, PlaceInv, PlaceOf
    <3> QED BY <2>1, <3>1 DEF LogInv, LogOf
  <2> QED BY <2>1 DEF LinesExact
<1> QED BY <1>1, <1>2, <1>3, FdInvariance, PTL DEF Spec
-----------------------------------------------------------------------------
(* The copies *)

\* A copy that nobody has joined: what has been read is written, but for the
\* block in hand, the target is what has been written, and the end was found.
CopyOf(t) ==
  /\ pc[t] = "creat" => local[t].read = 0 /\ local[t].written = 0
  /\ t \in InCopy /\ ~local[t].shared =>
       /\ InCopy = {t}
       /\ local[t].read <= Blocks
       /\ local[t].read = local[t].written + (IF pc[t] = "copy_write" THEN 1 ELSE 0)
       /\ to = [i \in 1 .. local[t].written |-> i]
       /\ pc[t] = "copied" /\ ~local[t].failed => local[t].read = Blocks

CopyInv == \A t \in Thread : CopyOf(t)

\* A step in which no thread gets on with a copy.
NoCopying ==
  /\ to' = to
  /\ \A u \in Thread : pc'[u] \in {"creat", "read", "copy_write", "copied"} =>
       pc'[u] = pc[u] /\ local'[u] = local[u]

LEMMA CopyRests ==
  ASSUME CopyInv, NoCopying
  PROVE  CopyInv'
<1>1. InCopy' \subseteq InCopy
  BY DEF NoCopying, InCopy
<1>2. ASSUME NEW t \in Thread PROVE CopyOf(t)'
  <2>1. CASE pc'[t] \in {"creat", "read", "copy_write", "copied"}
    <3>1. pc'[t] = pc[t] /\ local'[t] = local[t] /\ to' = to /\ CopyOf(t)
      BY <2>1 DEF NoCopying, CopyInv
    <3>2. t \in InCopy' <=> t \in InCopy
      BY <3>1 DEF InCopy
    <3> QED BY <1>1, <3>1, <3>2 DEF CopyOf
  <2>2. CASE pc'[t] \notin {"creat", "read", "copy_write", "copied"}
    BY <2>2 DEF CopyOf, InCopy
  <2> QED BY <2>1, <2>2
<1> QED BY <1>2 DEF CopyInv

LEMMA EndsRests ==
  ASSUME TypeOK, NEW p \in Proc, Ends(p), to' = to
  PROVE  NoCopying
BY DEF Ends, NoCopying, TypeOK, FilesOK

LEMMA MovesRests ==
  ASSUME NEW t \in Thread, NEW l, NEW c, Moves(t, l, c),
         l \notin {"creat", "read", "copy_write", "copied"}, to' = to
  PROVE  NoCopying
BY DEF Moves, NoCopying

LEMMA OthersRest ==
  ASSUME TypeOK, PlaceInv, NEW t \in Thread, Logging(t) \/ Helping(t), to' = to
  PROVE  NoCopying
<1>1. CASE Logging(t)
  <2>1. \/ \E l \in {"idle", "rotate", "stamp", "format", "write"} : \E c : Moves(t, l, c)
        \/ Ends(P(t))
    <3>1. CASE LogNew(t) \/ LogDelete(t) \/ LogSetPid(t) \/ RotateClose(t)
      BY <3>1, Moving DEF LogNew, LogDelete, LogSetPid, RotateClose, TypeOK
    <3>2. CASE RotateOpen(t) \/ PutWrite(t)
      BY <3>2, Moving DEF RotateOpen, PutWrite, TypeOK
    <3>3. CASE PutTime(t) \/ ErrorTime(t)
      BY <3>3, Moving DEF PutTime, ErrorTime, AfterTime, TypeOK
    <3>4. CASE PutStamp(t) \/ PutFormat(t)
      BY <3>4, Moving DEF PutStamp, PutFormat, TypeOK
    <3> QED BY <1>1, <3>1, <3>2, <3>3, <3>4 DEF Logging
  <2> QED BY <2>1, MovesRests, EndsRests, Processes
<1>2. CASE Fork(t)
  <2>1. PICK c \in Proc : pc' = [pc EXCEPT ![t] = "exit", ![<<c, "main">>] = "setup"] /\ local' = local
    BY <1>2 DEF Fork
  <2>2. \A u \in Thread : pc'[u] = pc[u] \/ pc'[u] \in {"exit", "setup"}
    BY <2>1 DEF TypeOK, FilesOK
  <2> QED BY <2>1, <2>2 DEF NoCopying
<1>3. CASE Setup(t)
  <2>1. pc' = [pc EXCEPT ![t] = "idle", ![<<P(t), "worker">>] = "idle"] /\ local' = local
    BY <1>3 DEF Setup
  <2>2. \A u \in Thread : pc'[u] = pc[u] \/ pc'[u] = "idle"
    BY <2>1 DEF TypeOK, FilesOK
  <2> QED BY <2>1, <2>2 DEF NoCopying
<1>4. CASE \/ SetupFails(t) \/ ForkFails(t) \/ PidOpen(t) \/ PidOpenFails(t)
           \/ PidClose(t) \/ PidDelete(t) \/ PidDeleteFails(t)
  <2>1. \E l \in {"idle", "error", "save"} : \E c : Moves(t, l, c)
    BY <1>4, Moving DEF SetupFails, ForkFails, PidOpen, PidOpenFails, PidClose, PidDelete, PidDeleteFails, TypeOK
  <2> QED BY <2>1, MovesRests
<1>5. CASE ParentExit(t)
  BY <1>5, EndsRests, Processes DEF ParentExit
<1> QED BY <1>1, <1>2, <1>3, <1>4, <1>5 DEF Helping

\* The places after the last block, and one more.
LEMMA WrittenNext ==
  ASSUME NEW w \in Nat, to = [i \in 1 .. w |-> i]
  PROVE  Written(to, w + 1, w + 1) = [i \in 1 .. (w + 1) |-> i]
<1>1. Len(to) = w
  OBVIOUS
<1>2. Max({w, w + 1}) = w + 1
  BY DEF Max
<1>3. \A j \in 1 .. (w + 1) :
        (IF j = w + 1 THEN w + 1 ELSE IF j <= Len(to) THEN to[j] ELSE 0) = j
  BY <1>1
<1> QED BY <1>1, <1>2, <1>3 DEF Written

LEMMA CopyStarts ==
  ASSUME TypeOK, PlaceInv, CopyInv, NEW t \in Thread, CopyOpen(t)
  PROVE  CopyInv'
<1> DEFINE k == NewCopy({LowestFd(P(t))})
<1>1. k.read = 0 /\ k.written = 0
  BY DEF NewCopy
<1>2. Begin(t, "creat", k) /\ to' = to
  BY DEF CopyOpen
<1> HIDE DEF k
<1>3. Moves(t, "creat", k)
  BY <1>2, Moving DEF TypeOK
<1>4. InCopy' \subseteq InCopy
  BY <1>3 DEF Moves, InCopy
<1>5. ASSUME NEW u \in Thread PROVE CopyOf(u)'
  <2>1. CASE u = t
    BY <1>1, <1>3, <2>1 DEF CopyOf, Moves, InCopy
  <2>2. CASE u # t
    <3>1. pc'[u] = pc[u] /\ local'[u] = local[u] /\ to' = to /\ CopyOf(u)
      BY <1>2, <1>3, <2>2 DEF Moves, CopyInv
    <3>2. u \in InCopy' <=> u \in InCopy
      BY <3>1 DEF InCopy
    <3> QED BY <1>4, <3>1, <3>2 DEF CopyOf
  <2> QED BY <2>1, <2>2
<1> QED BY <1>5 DEF CopyInv

LEMMA CopyEmpties ==
  ASSUME TypeOK, PlaceInv, CopyInv, NEW t \in Thread, Creat(t)
  PROVE  CopyInv'
<1>1. /\ pc[t] = "creat" /\ to' = <<>> /\ pc'[t] = "read"
      /\ \A u \in Thread : u # t => pc'[u] = pc[u]
  BY DEF Creat, Set, TypeOK, FilesOK
<1>2. local[t] \in CopyCall /\ local[t].read = 0 /\ local[t].written = 0 /\ t \notin InCopy
  BY <1>1 DEF PlaceInv, PlaceOf, CopyInv, CopyOf, InCopy
<1>3. local'[t].read = 0 /\ local'[t].written = 0 /\ local'[t].shared = (InCopy # {})
  <2> DEFINE k == [local[t] EXCEPT !.fds = @ \cup {LowestFd(P(t))}, !.shared = InCopy # {}]
  <2>1. k.read = 0 /\ k.written = 0 /\ k.shared = (InCopy # {})
    BY <1>2 DEF CopyCall
  <2>2. local'[t] = k
    BY DEF Creat
  <2> HIDE DEF k
  <2> QED BY <2>1, <2>2
<1>4. ASSUME NEW u \in Thread, u # t
      PROVE  (u \in InCopy => local'[u].shared) /\ (u \notin InCopy => local'[u] = local[u])
  <2>1. CASE u \in InCopy
    <3>1. local[u] \in CopyCall /\ local'[u] = [local[u] EXCEPT !.shared = TRUE]
      BY <1>4, <2>1 DEF PlaceInv, PlaceOf, InCopy, Creat
    <3>2. [local[u] EXCEPT !.shared = TRUE].shared = TRUE
      BY <3>1 DEF CopyCall
    <3> QED BY <2>1, <3>1, <3>2
  <2>2. CASE u \notin InCopy
    BY <1>4, <2>2 DEF Creat
  <2> QED BY <2>1, <2>2
<1>5. InCopy' = InCopy \cup {t}
  BY <1>1 DEF InCopy
<1>6. ASSUME NEW u \in Thread PROVE CopyOf(u)'
  <2>1. CASE u = t
    <3>1. <<>> = [i \in 1 .. 0 |-> i]
      OBVIOUS
    <3>2. 0 <= Blocks
      BY CopyAssumption
    <3>3. ~local'[t].shared => InCopy' = {t}
      BY <1>3, <1>5
    <3>4. local'[t].read = local'[t].written + (IF pc'[t] = "copy_write" THEN 1 ELSE 0)
          /\ local'[t].read <= Blocks /\ pc'[t] # "copied" /\ pc'[t] # "creat"
      BY <1>1, <1>3, <3>2
    <3>5. to' = [i \in 1 .. local'[t].written |-> i]
      BY <1>1, <1>3, <3>1
    <3> QED BY <2>1, <3>3, <3>4, <3>5 DEF CopyOf
  <2>2. CASE u # t
    BY <1>1, <1>4, <1>5, <2>2 DEF CopyOf, CopyInv, InCopy
  <2> QED BY <2>1, <2>2
<1> QED BY <1>6 DEF CopyInv

LEMMA CopyGoesOn ==
  ASSUME TypeOK, PlaceInv, CopyInv, NEW t \in Thread, CopyRead(t) \/ CopyWrite(t)
  PROVE  CopyInv'
<1>1. t \in InCopy /\ local[t] \in CopyCall /\ pc[t] \in {"read", "copy_write"}
  BY DEF CopyRead, CopyWrite, Resume, PlaceInv, PlaceOf, InCopy
<1> DEFINE x == local[t]
           a == [x EXCEPT !.read = @ + 1]
           b == [x EXCEPT !.failed = TRUE]
           d == [x EXCEPT !.written = @ + 1]
<1>2. /\ x.read \in Nat /\ x.written \in Nat
      /\ a.read = x.read + 1 /\ a.written = x.written /\ a.failed = x.failed /\ a.shared = x.shared
      /\ b.read = x.read /\ b.written = x.written /\ b.failed = TRUE /\ b.shared = x.shared
      /\ d.read = x.read /\ d.written = x.written + 1 /\ d.failed = x.failed /\ d.shared = x.shared
  BY <1>1 DEF CopyCall
<1>3. \/ Resume(t, "read", "copy_write", a) /\ x.read < Blocks /\ to' = to
      \/ Resume(t, "read", "copied", x) /\ ~(x.read < Blocks) /\ to' = to
      \/ Resume(t, "read", "copied", b) /\ to' = to
      \/ Resume(t, "copy_write", "read", d) /\ to' = Written(to, x.written + 1, x.read)
  BY DEF CopyRead, CopyWrite, More
<1> HIDE DEF a, b, d
<1>4. \/ Moves(t, "copy_write", a) /\ pc[t] = "read" /\ x.read < Blocks /\ to' = to
      \/ Moves(t, "copied", x) /\ pc[t] = "read" /\ ~(x.read < Blocks) /\ to' = to
      \/ Moves(t, "copied", b) /\ pc[t] = "read" /\ to' = to
      \/ Moves(t, "read", d) /\ pc[t] = "copy_write" /\ to' = Written(to, x.written + 1, x.read)
  BY <1>3, Moving DEF TypeOK
<1>5. InCopy' = InCopy /\ \A u \in Thread : u # t => pc'[u] = pc[u] /\ local'[u] = local[u]
  BY <1>1, <1>4 DEF Moves, InCopy
<1>6. pc'[t] # "creat"
  BY <1>4 DEF Moves
<1>7. CASE local[t].shared
  <2>1. local'[t].shared
    BY <1>2, <1>4, <1>7 DEF Moves
  <2>2. ASSUME NEW u \in Thread, u # t PROVE CopyOf(u)'
    <3>1. u \in InCopy => local[u].shared
      BY <1>1, <2>2 DEF CopyInv, CopyOf
    <3> QED BY <1>5, <2>2, <3>1 DEF CopyInv, CopyOf
  <2>3. CopyOf(t)'
    BY <1>6, <2>1 DEF CopyOf
  <2> QED BY <2>2, <2>3 DEF CopyInv
<1>8. CASE ~local[t].shared
  <2>1. /\ InCopy = {t} /\ x.read <= Blocks
        /\ x.read = x.written + (IF pc[t] = "copy_write" THEN 1 ELSE 0)
        /\ to = [i \in 1 .. x.written |-> i]
    BY <1>1, <1>8 DEF CopyInv, CopyOf
  <2>2. ASSUME NEW u \in Thread, u # t PROVE CopyOf(u)'
    BY <1>5, <2>1, <2>2 DEF CopyInv, CopyOf
  <2> HIDE DEF x
  <2>3. CopyOf(t)'
    <3>1. Blocks \in Nat
      BY CopyAssumption
    <3>2. CASE Moves(t, "copy_write", a) /\ pc[t] = "read" /\ x.read < Blocks /\ to' = to
      BY <1>2, <1>5, <2>1, <3>1, <3>2 DEF CopyOf, Moves
    <3>3. CASE Moves(t, "copied", x) /\ pc[t] = "read" /\ ~(x.read < Blocks) /\ to' = to
      BY <1>2, <1>5, <2>1, <3>1, <3>3 DEF CopyOf, Moves
    <3>4. CASE Moves(t, "copied", b) /\ pc[t] = "read" /\ to' = to
      BY <1>2, <1>5, <2>1, <3>1, <3>4 DEF CopyOf, Moves
    <3>5. CASE Moves(t, "read", d) /\ pc[t] = "copy_write" /\ to' = Written(to, x.written + 1, x.read)
      <4>1. x.read = x.written + 1
        BY <2>1, <3>5
      <4>2. to' = [i \in 1 .. (x.written + 1) |-> i]
        BY <1>2, <2>1, <3>5, <4>1, WrittenNext
      <4>3. /\ pc'[t] = "read" /\ local'[t].read = x.read /\ local'[t].written = x.written + 1
            /\ InCopy' = {t}
        BY <1>2, <1>5, <2>1, <3>5 DEF Moves
      <4>4. x.read = (x.written + 1) + 0 /\ x.read <= Blocks
        BY <1>2, <2>1, <4>1
      <4> QED BY <4>2, <4>3, <4>4 DEF CopyOf
    <3> QED BY <1>4, <3>2, <3>3, <3>4, <3>5
  <2> QED BY <2>2, <2>3 DEF CopyInv
<1> QED BY <1>7, <1>8

LEMMA CopiesKept ==
  ASSUME TypeOK, PlaceInv, CopyInv, Next \/ UNCHANGED vars
  PROVE  CopyInv'
<1>1. CASE UNCHANGED vars \/ (Tick /\ UNCHANGED <<proc, to>>)
  BY <1>1, CopyRests DEF vars, files, Tick, NoCopying
<1>2. ASSUME NEW p \in up, Kill(p) PROVE CopyInv'
  BY <1>2, EndsRests, CopyRests DEF Kill, TypeOK, FilesOK
<1>3. ASSUME NEW t \in Thread, Logging(t) \/ Helping(t), to' = to PROVE CopyInv'
  BY <1>3, OthersRest, CopyRests
<1>4. ASSUME NEW t \in Thread, Abandon(t) \/ CopyClose(t) PROVE CopyInv'
  <2>1. Moves(t, "idle", NoCall) /\ to' = to
    BY <1>4, Moving DEF Abandon, CopyClose, TypeOK
  <2> QED BY <2>1, MovesRests, CopyRests
<1>5. ASSUME NEW t \in Thread, Copying(t) PROVE CopyInv'
  BY <1>4, <1>5, CopyStarts, CopyEmpties, CopyGoesOn DEF Copying
<1> QED BY <1>1, <1>2, <1>3, <1>5 DEF Next

\* A copy that file_copy reports as made is the source, of any number of blocks,
\* whatever fails on the way and whoever else copies, unless a read has failed
\* or another thread has been copying to the same target.
THEOREM CopiesAreWhole == Spec => []CopyWhole
<1>1. Init => CopyInv
  BY DEF Init, FilesInit, CopyInv, CopyOf, InCopy
<1>2. FInv /\ CopyInv /\ [Next]_vars => CopyInv'
  BY CopiesKept DEF FInv
<1>3. FInv /\ CopyInv => CopyWhole
  <2>1. ASSUME FInv, CopyInv, NEW t \in Thread, pc[t] = "copied", ~local[t].failed, ~local[t].shared
        PROVE  to = From
    <3>1. t \in InCopy /\ local[t] \in CopyCall
      BY <2>1 DEF InCopy, FInv, PlaceInv, PlaceOf
    <3>2. local[t].written = Blocks /\ to = [i \in 1 .. local[t].written |-> i]
      BY <2>1, <3>1, CallIs DEF CopyInv, CopyOf
    <3> QED BY <3>2 DEF From
  <2> QED BY <2>1 DEF CopyWhole
<1> QED BY <1>1, <1>2, <1>3, FdInvariance, PTL DEF Spec
-----------------------------------------------------------------------------
(* The pid file *)

\* Thread t is saving an id, and the file that it has opened has its name.
Saving(t) == pc[t] = "save" /\ \E f \in local[t].fds : desc[P(t)][f] = "pid"

\* While only ids of one length are being saved, the file that they are saved to
\* is empty or has a text of that length; and it has the text of the last.
SaveInv ==
  ~clash =>
    /\ \A t, u \in Thread : pc[t] = "save" /\ pc[u] = "save" => digits[P(t)] = digits[P(u)]
    /\ \A t \in Thread : Saving(t) => pid = <<>> \/ (pid \in Seq(Proc) /\ Len(pid) = digits[P(t)])
    /\ saver # NoProc => saver \in Proc /\ pid = Text(saver)

\* No thread comes to save an id, and no descriptor of one becomes the file's.
NoSaving ==
  \A u \in Thread : pc'[u] = "save" =>
    /\ pc[u] = "save" /\ local'[u].fds = local[u].fds
    /\ \A f \in Fd : desc'[P(u)][f] = "pid" => desc[P(u)][f] = "pid"

LEMMA SaveRests ==
  ASSUME TypeOK, SaveInv, NoSaving, UNCHANGED <<pid, digits, saver, clash>>
  PROVE  SaveInv'
<1>1. \A u \in Thread : local[u].fds \subseteq Fd
  BY CallIs DEF TypeOK, FilesOK
<1>2. \A u \in Thread : (pc'[u] = "save" => pc[u] = "save") /\ (Saving(u)' => Saving(u))
  BY <1>1 DEF NoSaving, Saving
<1> QED BY <1>2 DEF SaveInv, Text

LEMMA RestsIfQuiet ==
  ASSUME TypeOK, NEW t \in Thread, Quiet(t)
  PROVE  NoSaving
<1>1. PICK l \in Place, c \in Call :
        Goes(t, l, c) /\ c.fds = local[t].fds /\ (l = "save" <=> pc[t] = "save") /\ FilesKeep
  BY DEF Quiet
<1>2. ASSUME NEW u \in Thread, pc'[u] = "save"
      PROVE  pc[u] = "save" /\ local'[u].fds = local[u].fds
  BY <1>1, <1>2 DEF Goes
<1>3. ASSUME NEW u \in Thread, NEW f \in Fd, desc'[P(u)][f] = "pid" PROVE desc[P(u)][f] = "pid"
  BY <1>1, <1>3, Processes DEF FilesKeep
<1> QED BY <1>2, <1>3 DEF NoSaving

LEMMA RestsIfOpens ==
  ASSUME TypeOK, NEW t \in Thread, Opens(t), pc'[t] # "save"
  PROVE  NoSaving
<1>1. PICK l \in Place, c \in Call, file \in {"from", "to"} :
        Goes(t, l, c) /\ FreeFd(P(t)) # {} /\ desc' = Opening(P(t), file)
  BY DEF Opens, Goes
<1>2. \A q \in Proc, f \in Fd : desc'[q][f] = "pid" => desc[q][f] = "pid"
  <2>1. file \in File /\ P(t) \in Proc /\ FilesOK
    BY Processes DEF File, TypeOK
  <2> QED BY <1>1, <2>1, OpeningIs
<1> QED BY <1>1, <1>2, Processes DEF Goes, NoSaving

LEMMA RestsIfCloses ==
  ASSUME TypeOK, NEW t \in Thread, Closes(t)
  PROVE  NoSaving
<1>1. PICK l \in {"idle", "error"}, c \in Call :
        Goes(t, l, c) /\ (desc' = Closing(P(t), local[t].fds) \/ desc' = desc)
  BY DEF Closes
<1>2. \A q \in Proc, f \in Fd : desc'[q][f] = "pid" => desc[q][f] = "pid"
  <2>1. P(t) \in Proc /\ FilesOK
    BY Processes DEF TypeOK
  <2> QED BY <1>1, <2>1, ClosingIs DEF Closed
<1> QED BY <1>1, <1>2, Processes DEF Goes, NoSaving

LEMMA RestsIfOpensLog ==
  ASSUME TypeOK, NEW t \in Thread, OpensLog(t)
  PROVE  NoSaving
<1>1. PICK file \in {"log", "other"} :
        Goes(t, "idle", NoCall) /\ FreeFd(P(t)) # {} /\ desc' = Opening(P(t), file)
  BY DEF OpensLog
<1>2. \A q \in Proc, f \in Fd : desc'[q][f] = "pid" => desc[q][f] = "pid"
  <2>1. file \in File /\ P(t) \in Proc /\ FilesOK
    BY Processes DEF File, TypeOK
  <2> QED BY <1>1, <2>1, OpeningIs
<1> QED BY <1>1, <1>2, Processes DEF Goes, NoSaving

LEMMA RestsIfClosesLog ==
  ASSUME TypeOK, NEW t \in Thread, ClosesLog(t)
  PROVE  NoSaving
<1> DEFINE S == {log[P(t)].fd}
<1>1. PICK l \in {"idle", "rotate"} : Goes(t, l, NoCall) /\ desc' = Closing(P(t), S)
  BY DEF ClosesLog
<1> HIDE DEF S
<1>2. \A q \in Proc, f \in Fd : desc'[q][f] = "pid" => desc[q][f] = "pid"
  <2>1. P(t) \in Proc /\ FilesOK
    BY Processes DEF TypeOK
  <2> QED BY <1>1, <2>1, ClosingIs DEF Closed
<1> QED BY <1>1, <1>2, Processes DEF Goes, NoSaving

LEMMA RestsIfEnds ==
  ASSUME TypeOK, NEW p \in Proc, Ends(p)
  PROVE  NoSaving
<1>1. \A u \in Thread : pc'[u] = "save" => P(u) # p /\ pc[u] = "save" /\ local'[u] = local[u]
  BY DEF Ends
<1>2. \A q \in Proc : q # p => desc'[q] = desc[q]
  BY DEF Ends, Set, TypeOK, FilesOK
<1> QED BY <1>1, <1>2, Processes DEF NoSaving

LEMMA RestsIfForks ==
  ASSUME TypeOK, PlaceInv, NEW t \in Thread, Fork(t)
  PROVE  NoSaving
<1>1. PICK c \in Proc \ born :
        /\ desc' = Set(desc, c, desc[P(t)]) /\ local' = local
        /\ pc' = [pc EXCEPT ![t] = "exit", ![<<c, "main">>] = "setup"]
  BY DEF Fork
<1>2. \A u \in Thread : pc'[u] = "save" => pc[u] = "save" /\ P(u) # c
  <2>1. \A u \in Thread : P(u) = c => pc[u] = "none"
    BY DEF PlaceInv, PlaceOf, TypeOK, FilesOK
  <2>2. \A u \in Thread : pc'[u] = pc[u] \/ pc'[u] \in {"exit", "setup"}
    BY <1>1 DEF TypeOK, FilesOK
  <2> QED BY <2>1, <2>2
<1>3. \A q \in Proc : q # c => desc'[q] = desc[q]
  BY <1>1 DEF Set, TypeOK, FilesOK
<1> QED BY <1>1, <1>2, <1>3, Processes DEF NoSaving

LEMMA RestsIfSetup ==
  ASSUME TypeOK, PlaceInv, NEW t \in Thread, Setup(t) \/ SetupFails(t)
  PROVE  NoSaving
<1>1. pc[t] = "setup"
  BY DEF Setup, SetupFails, Resume
<1>2. \A u \in Thread : P(u) = P(t) => u = t \/ pc[u] = "none"
  BY <1>1, SetupAlone
<1>3. \A u \in Thread : pc'[u] = pc[u] \/ pc'[u] \in {"idle", "error"}
  BY DEF Setup, SetupFails, Resume, Set, TypeOK, FilesOK
<1>4. \A u \in Thread : u # t => local'[u] = local[u]
  BY DEF Setup, SetupFails, Resume, Set, TypeOK, FilesOK
<1>5. \A q \in Proc : q # P(t) => desc'[q] = desc[q]
  BY DEF Setup, SetupFails, Set, TypeOK, FilesOK
<1> QED BY <1>1, <1>2, <1>3, <1>4, <1>5, Processes DEF NoSaving

\* What was opened empty, or holds a text as long, holds the text that is written.
LEMMA OverwrittenIs ==
  ASSUME NEW text \in Seq(Proc), pid = <<>> \/ (pid \in Seq(Proc) /\ Len(pid) = Len(text))
  PROVE  Overwritten(text) = text
<1> DEFINE rest == SubSeq(pid, Len(text) + 1, Len(pid))
<1>1. Len(text) \in Nat /\ Len(pid) \in Nat /\ pid \in Seq(Proc) /\ Len(text) + 1 > Len(pid)
  <2>1. Len(text) \in Nat
    OBVIOUS
  <2>2. CASE pid = <<>>
    BY <2>1, <2>2
  <2>3. CASE pid \in Seq(Proc) /\ Len(pid) = Len(text)
    BY <2>1, <2>3
  <2> QED BY <2>2, <2>3
<1>2. rest \in Seq(Proc) /\ Len(rest) = 0
  BY <1>1
<1>3. rest = <<>>
  BY <1>2, EmptySeq
<1> QED BY <1>3 DEF Overwritten

LEMMA TextIs ==
  ASSUME TypeOK, NEW p \in Proc
  PROVE  Text(p) \in Seq(Proc) /\ Len(Text(p)) = digits[p] /\ digits[p] \in Nat
<1>1. digits[p] \in Nat
  BY ProcAssumption DEF TypeOK, AsideOK
<1> QED BY <1>1 DEF Text

LEMMA SaveOpens ==
  ASSUME TypeOK, PlaceInv, SaveInv, NEW t \in Thread, PidOpen(t)
  PROVE  SaveInv'
<1>1. /\ pid' = <<>> /\ saver' = NoProc /\ digits' = digits
      /\ ~clash' => ~clash /\ \A u \in Thread : pc[u] = "save" => digits[P(u)] = digits[P(t)]
  BY DEF PidOpen
<1>2. \A u \in Thread : pc'[u] = "save" => u = t \/ pc[u] = "save"
  BY DEF PidOpen, Begin, Set, TypeOK, FilesOK
<1> QED BY <1>1, <1>2 DEF SaveInv

LEMMA SaveEnds ==
  ASSUME TypeOK, PlaceInv, SaveInv, NEW t \in Thread, PidClose(t)
  PROVE  SaveInv'
<1>1. NoSaving
  BY PidCloseIs, RestsIfCloses
<1>2. UNCHANGED <<digits, clash>> /\ pc[t] = "save" /\ P(t) \in Proc
  BY Processes DEF PidClose, Resume
<1>3. CASE UNCHANGED <<pid, saver>>
  BY <1>1, <1>2, <1>3, SaveRests
<1>4. CASE Saving(t) /\ pid' = Overwritten(Text(P(t))) /\ saver' = P(t)
  <2>1. SUFFICES ASSUME ~clash PROVE SaveInv'
    BY <1>2 DEF SaveInv
  <2>2. pid' = Text(P(t))
    BY <1>2, <1>4, <2>1, OverwrittenIs, TextIs DEF SaveInv
  <2>3. \A u \in Thread : pc'[u] = "save" => pc[u] = "save" /\ digits[P(u)] = digits[P(t)]
    BY <1>1, <1>2, <2>1 DEF NoSaving, SaveInv
  <2>4. pid' \in Seq(Proc) /\ Len(pid') = digits[P(t)]
    BY <1>2, <2>2, TextIs
  <2>5. Text(P(t))' = Text(P(t))
    BY <1>2 DEF Text
  <2>6. \A u \in Thread : Saving(u)' => pc'[u] = "save"
    BY DEF Saving
  <2>7. saver' \in Proc /\ pid' = Text(saver)'
    BY <1>2, <1>4, <2>2 DEF Text
  <2>8. \A u, v \in Thread : pc'[u] = "save" /\ pc'[v] = "save" => digits'[P(u)] = digits'[P(v)]
    BY <1>2, <2>3
  <2>9. \A u \in Thread : Saving(u)' => pid' \in Seq(Proc) /\ Len(pid') = digits'[P(u)]
    BY <1>2, <2>3, <2>4, <2>6
  <2> QED BY <2>7, <2>8, <2>9 DEF SaveInv
<1> QED BY <1>2, <1>3, <1>4 DEF PidClose, Saving

LEMMA SaveDeletes ==
  ASSUME TypeOK, PlaceInv, SaveInv, NEW t \in Thread, PidDelete(t)
  PROVE  SaveInv'
<1>1. NoSaving
  BY PidDeleteIs, RestsIfQuiet
<1>2. \A q \in Proc, f \in Fd : desc'[q][f] # "pid"
  BY DEF PidDelete
<1>3. \A u \in Thread : pc'[u] = "save" => local'[u].fds \subseteq Fd
  BY <1>1, CallIs DEF NoSaving, TypeOK, FilesOK
<1>4. \A u \in Thread : ~Saving(u)'
  BY <1>2, <1>3, Processes DEF Saving
<1>5. saver' = NoProc /\ UNCHANGED <<digits, clash>>
  BY DEF PidDelete
<1> QED BY <1>1, <1>4, <1>5 DEF SaveInv, NoSaving

LEMMA SavesKept ==
  ASSUME TypeOK, PlaceInv, SaveInv, Next \/ UNCHANGED vars
  PROVE  SaveInv'
<1>1. CASE UNCHANGED vars \/ (Tick /\ UNCHANGED <<proc, to>>)
  BY <1>1, SaveRests DEF vars, files, proc, Tick, NoSaving
<1>2. ASSUME NEW p \in Proc, Ends(p), UNCHANGED proc PROVE SaveInv'
  BY <1>2, RestsIfEnds, SaveRests DEF proc
<1>3. ASSUME NEW p \in up, Kill(p) PROVE SaveInv'
  BY <1>2, <1>3 DEF Kill, TypeOK, FilesOK
<1>4. ASSUME NEW t \in Thread, Logging(t), UNCHANGED <<proc, to>> PROVE SaveInv'
  <2>1. UNCHANGED <<daemon, pid, digits, saver, clash>> /\ P(t) \in Proc
    BY <1>4, Processes DEF proc
  <2> QED BY <1>2, <1>4, <2>1, LoggingIs, RestsIfQuiet, RestsIfOpensLog, RestsIfClosesLog, SaveRests
<1>5. ASSUME NEW t \in Thread, Helping(t) PROVE SaveInv'
  <2>1. P(t) \in Proc
    BY Processes
  <2>2. CASE ForkFails(t) \/ PidOpenFails(t) \/ PidDeleteFails(t)
    BY <2>2, FailIs, RestsIfQuiet, SaveRests DEF ForkFails, PidOpenFails, PidDeleteFails, proc
  <2>3. CASE Fork(t)
    BY <2>3, RestsIfForks, SaveRests DEF Fork, proc
  <2>4. CASE Setup(t) \/ SetupFails(t)
    BY <2>4, RestsIfSetup, SaveRests DEF Setup, SetupFails
  <2>5. CASE ParentExit(t)
    BY <1>2, <2>1, <2>5 DEF ParentExit
  <2> QED BY <1>5, <2>2, <2>3, <2>4, <2>5, SaveOpens, SaveEnds, SaveDeletes DEF Helping
<1>6. ASSUME NEW t \in Thread, Copying(t), UNCHANGED <<logger, proc>> PROVE SaveInv'
  <2>1. UNCHANGED <<log, daemon, pid, digits, saver, clash>>
    BY <1>6 DEF logger, proc
  <2>2. pc'[t] # "save"
    BY <1>6 DEF Copying, CopyOpen, Creat, CopyRead, CopyWrite, Abandon, CopyClose, Begin, Resume, Set,
                TypeOK, FilesOK
  <2> QED BY <1>6, <2>1, <2>2, CopyingIs, RestsIfQuiet, RestsIfOpens, RestsIfCloses, SaveRests
<1> QED BY <1>1, <1>3, <1>4, <1>5, <1>6 DEF Next

\* The pid file reads as the id saved last: however many processes save and
\* delete at once, die and fork, only ids of different lengths, saved at once,
\* leave a text that is neither's.
THEOREM PidFileIsNamed == Spec => []PidFileNames
<1>1. Init => SaveInv
  BY DEF Init, FilesInit, ProcInit, SaveInv, Saving
<1>2. FInv /\ SaveInv /\ [Next]_vars => SaveInv'
  BY SavesKept DEF FInv
<1>3. SaveInv => PidFileNames
  BY DEF SaveInv, PidFileNames
<1> QED BY <1>1, <1>2, <1>3, FdInvariance, PTL DEF Spec
=============================================================================
