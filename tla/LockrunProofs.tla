--------------------------- MODULE LockrunProofs ---------------------------
(***************************************************************************)
(* What holds of Lockrun for any number of instances, any command lines    *)
(* and whatever is killed.                                                 *)
(***************************************************************************)
EXTENDS Lockrun, TLAPS

\* An instance past the loop holds the lock; its child lives only while it
\* waits for it, unless it has been killed.
Held ==
  \A p \in Proc :
    /\ pc[p] \in {"fork", "wait"} => lock = p
    /\ Alive(p) => pc[p] \in {"wait", "killed"}

\* An instance gives a reason only as it exits, and a child that has ended has
\* left a result.
Leaving ==
  \A p \in Proc :
    /\ pc[p] # "exited" => why[p] = ""
    /\ child[p] \in {"ended", "failed"} => result[p] \in Codes \cup {Signalled}

\* An instance that still tries has attempts left.
Trying ==
  \A p \in Proc :
    /\ opt[p].retries > 0 => attempts[p] <= opt[p].retries
    /\ opt[p].retries > 0 /\ pc[p] \in {"new", "try", "sleep"} =>
         attempts[p] < opt[p].retries

IInv == TypeOK /\ Held /\ Leaving /\ Trying /\ RetriesBounded

\* What an instance leaves behind is a result.
LEMMA InResults ==
  /\ Codes \cup {Signalled} \subseteq Results
  /\ {EXIT_SUCCESS, EXIT_FAILURE, Nothing, 1} \subseteq Results
  BY DEF Results, EXIT_FAILURE

LEMMA Nobody == NoProc \notin Proc
  BY LockrunAssumption

LEMMA Lines ==
  ASSUME NEW o \in Options
  PROVE  /\ o.retries \in Int /\ o.deaf \in BOOLEAN /\ o.locks \in BOOLEAN
         /\ o.wait \in BOOLEAN /\ o.quiet \in BOOLEAN
  BY LockrunAssumption

LEMMA InitInv == Init => IInv
<1> SUFFICES ASSUME Init PROVE IInv
  OBVIOUS
<1>1. TypeOK
  BY InResults DEF Init, TypeOK
<1>2. \A p \in Proc : opt[p].retries \in Int
  BY Lines DEF Init
<1>3. Held
  BY DEF Init, Held, Alive
<1>4. Leaving
  BY DEF Init, Leaving
<1>5. Trying
  <2>1. \A p \in Proc : attempts[p] = 0
    BY DEF Init
  <2> QED
    BY <1>2, <2>1 DEF Trying
<1>6. RetriesBounded
  BY <1>5 DEF Init, RetriesBounded, Trying
<1> QED
  BY <1>1, <1>3, <1>4, <1>5, <1>6 DEF IInv

\* One step per action, and under it one per conjunct.
LEMMA NextInv == IInv /\ [Next]_vars => IInv'
<1> SUFFICES ASSUME IInv, [Next]_vars PROVE IInv'
  OBVIOUS
<1> USE DEF Goto, Alive
<1>0. \A p \in Proc : opt[p].retries \in Int /\ opt[p].wait \in BOOLEAN
                      /\ opt[p].quiet \in BOOLEAN
  BY Lines DEF IInv, TypeOK
<1>1. ASSUME NEW p \in Proc, Start(p) PROVE IInv'
  <2>1. TypeOK'
    BY <1>1 DEF IInv, TypeOK, Start
  <2>2. Held'
    BY <1>1 DEF IInv, TypeOK, Held, Start
  <2>3. Leaving'
    BY <1>1 DEF IInv, TypeOK, Held, Leaving, Start
  <2>4. Trying'
    BY <1>1 DEF IInv, TypeOK, Trying, Start
  <2>5. RetriesBounded'
    BY <1>1 DEF IInv, TypeOK, RetriesBounded, Trying, Leaving, Start
  <2> QED
    BY <2>1, <2>2, <2>3, <2>4, <2>5 DEF IInv
<1>2. ASSUME NEW p \in Proc, LockTaken(p) PROVE IInv'
  <2>1. TypeOK'
    BY <1>2 DEF IInv, TypeOK, LockTaken
  <2>2. Held'
    BY <1>2, Nobody DEF IInv, TypeOK, Held, LockTaken
  <2>3. Leaving'
    BY <1>2 DEF IInv, TypeOK, Held, Leaving, LockTaken
  <2>4. Trying'
    BY <1>2 DEF IInv, TypeOK, Trying, LockTaken
  <2>5. RetriesBounded'
    BY <1>2 DEF IInv, TypeOK, RetriesBounded, Trying, Leaving, LockTaken
  <2> QED
    BY <2>1, <2>2, <2>3, <2>4, <2>5 DEF IInv
<1>3. ASSUME NEW p \in Proc, Refused(p) PROVE IInv'
  <2>1. TypeOK'
    BY <1>3, InResults DEF IInv, TypeOK, Refused, Exit, ReleasedBy
  <2>2. Held'
    BY <1>3 DEF IInv, TypeOK, Held, Refused, Exit, ReleasedBy
  <2>3. Leaving'
    BY <1>3 DEF IInv, TypeOK, Held, Leaving, Refused, Exit, ReleasedBy
  <2>4. Trying'
    BY <1>3 DEF IInv, TypeOK, Trying, Refused, Exit, ReleasedBy
  <2>5. RetriesBounded'
    BY <1>3 DEF IInv, TypeOK, RetriesBounded, Trying, Leaving, Refused, Exit, ReleasedBy
  <2> QED
    BY <2>1, <2>2, <2>3, <2>4, <2>5 DEF IInv
<1>4. ASSUME NEW p \in Proc, GiveUp(p) PROVE IInv'
  <2> DEFINE r == opt[p].retries
             n == attempts[p]
  <2>a. /\ pc[p] = "try" /\ r > 0 /\ n + 1 >= r
        /\ pc' = [pc EXCEPT ![p] = "exited"]
        /\ attempts' = [attempts EXCEPT ![p] = n + 1]
        /\ opt' = opt
    BY <1>4 DEF GiveUp, Exit, ReleasedBy, LastAttempt
  <2>b. r \in Int /\ n \in Nat
    BY <1>0 DEF IInv, TypeOK
  <2>c. n < r
    BY <2>a DEF IInv, Trying
  <2>d. n + 1 = r /\ n + 1 \in Nat
    BY <2>a, <2>b, <2>c
  <2>e. \A q \in Proc : attempts'[q] = IF q = p THEN r ELSE attempts[q]
    BY <2>a, <2>d DEF IInv, TypeOK
  <2>f. \A q \in Proc : pc'[q] = IF q = p THEN "exited" ELSE pc[q]
    BY <2>a DEF IInv, TypeOK
  <2>1. TypeOK'
    <3>1. attempts' \in [Proc -> Nat]
      BY <2>a, <2>d DEF IInv, TypeOK
    <3> QED
      BY <3>1, <1>4, InResults DEF IInv, TypeOK, GiveUp, Exit, ReleasedBy
  <2>2. Held'
    BY <1>4 DEF IInv, TypeOK, Held, GiveUp, Exit, ReleasedBy
  <2>3. Leaving'
    BY <1>4 DEF IInv, TypeOK, Held, Leaving, GiveUp, Exit, ReleasedBy
  <2>4. Trying'
    <3>1. r <= r
      BY <2>b
    <3> QED
      BY <3>1, <2>a, <2>e, <2>f DEF IInv, Trying
  <2>5. RetriesBounded'
    <3>1. r <= r
      BY <2>b
    <3>2. \A q \in Proc : q # p => why'[q] = why[q]
      BY <1>4 DEF IInv, TypeOK, GiveUp, Exit, ReleasedBy
    <3> QED
      BY <3>1, <3>2, <2>a, <2>e, <2>f DEF IInv, RetriesBounded
  <2> QED
    BY <2>1, <2>2, <2>3, <2>4, <2>5 DEF IInv
<1>5. ASSUME NEW p \in Proc, Sleep(p) PROVE IInv'
  <2> DEFINE r == opt[p].retries
             n == attempts[p]
             m == IF r > 0 THEN n + 1 ELSE n
  <2>a. /\ pc[p] = "try" /\ ~(r > 0 /\ n + 1 >= r)
        /\ pc' = [pc EXCEPT ![p] = "sleep"]
        /\ attempts' = [attempts EXCEPT ![p] = m]
        /\ opt' = opt /\ why' = why
    BY <1>5 DEF Sleep, LastAttempt
  <2>b. r \in Int /\ n \in Nat
    BY <1>0 DEF IInv, TypeOK
  <2>d. m \in Nat /\ (r > 0 => m < r /\ m <= r)
    BY <2>a, <2>b
  <2> HIDE DEF m
  <2>e. \A q \in Proc : attempts'[q] = IF q = p THEN m ELSE attempts[q]
    BY <2>a DEF IInv, TypeOK
  <2>f. \A q \in Proc : pc'[q] = IF q = p THEN "sleep" ELSE pc[q]
    BY <2>a DEF IInv, TypeOK
  <2>1. TypeOK'
    <3>1. attempts' \in [Proc -> Nat]
      BY <2>a, <2>d DEF IInv, TypeOK
    <3> QED
      BY <3>1, <1>5 DEF IInv, TypeOK, Sleep
  <2>2. Held'
    BY <1>5 DEF IInv, TypeOK, Held, Sleep
  <2>3. Leaving'
    BY <1>5 DEF IInv, TypeOK, Held, Leaving, Sleep
  <2>4. Trying'
    BY <2>a, <2>d, <2>e, <2>f DEF IInv, Trying
  <2>5. RetriesBounded'
    BY <2>a, <2>d, <2>e, <2>f DEF IInv, RetriesBounded
  <2> QED
    BY <2>1, <2>2, <2>3, <2>4, <2>5 DEF IInv
<1>6. ASSUME NEW p \in Proc, SleepOver(p) PROVE IInv'
  <2>1. TypeOK'
    BY <1>6 DEF IInv, TypeOK, SleepOver
  <2>2. Held'
    BY <1>6 DEF IInv, TypeOK, Held, SleepOver
  <2>3. Leaving'
    BY <1>6 DEF IInv, TypeOK, Held, Leaving, SleepOver
  <2>4. Trying'
    BY <1>6 DEF IInv, TypeOK, Trying, SleepOver
  <2>5. RetriesBounded'
    BY <1>6 DEF IInv, TypeOK, RetriesBounded, Trying, Leaving, SleepOver
  <2> QED
    BY <2>1, <2>2, <2>3, <2>4, <2>5 DEF IInv
<1>7. ASSUME NEW p \in Proc, Fork(p) PROVE IInv'
  <2>1. TypeOK'
    BY <1>7 DEF IInv, TypeOK, Fork
  <2>2. Held'
    BY <1>7 DEF IInv, TypeOK, Held, Fork
  <2>3. Leaving'
    BY <1>7 DEF IInv, TypeOK, Held, Leaving, Fork
  <2>4. Trying'
    BY <1>7 DEF IInv, TypeOK, Trying, Fork
  <2>5. RetriesBounded'
    BY <1>7 DEF IInv, TypeOK, RetriesBounded, Trying, Leaving, Fork
  <2> QED
    BY <2>1, <2>2, <2>3, <2>4, <2>5 DEF IInv
<1>8. ASSUME NEW p \in Proc, ForkFails(p) PROVE IInv'
  <2>1. TypeOK'
    BY <1>8, InResults DEF IInv, TypeOK, ForkFails, Exit, ReleasedBy
  <2>2. Held'
    BY <1>8 DEF IInv, TypeOK, Held, ForkFails, Exit, ReleasedBy
  <2>3. Leaving'
    BY <1>8 DEF IInv, TypeOK, Held, Leaving, ForkFails, Exit, ReleasedBy
  <2>4. Trying'
    BY <1>8 DEF IInv, TypeOK, Trying, ForkFails, Exit, ReleasedBy
  <2>5. RetriesBounded'
    BY <1>8 DEF IInv, TypeOK, RetriesBounded, Trying, Leaving, ForkFails, Exit, ReleasedBy
  <2> QED
    BY <2>1, <2>2, <2>3, <2>4, <2>5 DEF IInv
<1>9. ASSUME NEW p \in Proc, Reap(p) PROVE IInv'
  <2>1. TypeOK'
    BY <1>9, InResults DEF IInv, TypeOK, Reap, Status, Exit, ReleasedBy
  <2>2. Held'
    BY <1>9 DEF IInv, TypeOK, Held, Reap, Status, Exit, ReleasedBy
  <2>3. Leaving'
    BY <1>9 DEF IInv, TypeOK, Held, Leaving, Reap, Status, Exit, ReleasedBy
  <2>4. Trying'
    BY <1>9 DEF IInv, TypeOK, Trying, Reap, Status, Exit, ReleasedBy
  <2>5. RetriesBounded'
    BY <1>9 DEF IInv, TypeOK, RetriesBounded, Trying, Leaving, Reap, Status, Exit, ReleasedBy
  <2> QED
    BY <2>1, <2>2, <2>3, <2>4, <2>5 DEF IInv
<1>10. ASSUME NEW p \in Proc, Kill(p) PROVE IInv'
  <2>1. TypeOK'
    BY <1>10 DEF IInv, TypeOK, Kill, ReleasedBy
  <2>2. Held'
    BY <1>10 DEF IInv, TypeOK, Held, Kill, ReleasedBy
  <2>3. Leaving'
    BY <1>10 DEF IInv, TypeOK, Held, Leaving, Kill, ReleasedBy
  <2>4. Trying'
    BY <1>10 DEF IInv, TypeOK, Trying, Kill, ReleasedBy
  <2>5. RetriesBounded'
    BY <1>10 DEF IInv, TypeOK, RetriesBounded, Trying, Leaving, Kill, ReleasedBy
  <2> QED
    BY <2>1, <2>2, <2>3, <2>4, <2>5 DEF IInv
<1>11. ASSUME NEW p \in Proc, Exec(p) PROVE IInv'
  <2>1. TypeOK'
    BY <1>11 DEF IInv, TypeOK, Exec
  <2>2. Held'
    BY <1>11 DEF IInv, TypeOK, Held, Exec
  <2>3. Leaving'
    BY <1>11 DEF IInv, TypeOK, Held, Leaving, Exec
  <2>4. Trying'
    BY <1>11 DEF IInv, TypeOK, Trying, Exec
  <2>5. RetriesBounded'
    BY <1>11 DEF IInv, TypeOK, RetriesBounded, Trying, Leaving, Exec
  <2> QED
    BY <2>1, <2>2, <2>3, <2>4, <2>5 DEF IInv
<1>12. ASSUME NEW p \in Proc, ExecFails(p) PROVE IInv'
  <2>1. TypeOK'
    BY <1>12, InResults DEF IInv, TypeOK, ExecFails
  <2>2. Held'
    BY <1>12 DEF IInv, TypeOK, Held, ExecFails
  <2>3. Leaving'
    BY <1>12 DEF IInv, TypeOK, Held, Leaving, ExecFails
  <2>4. Trying'
    BY <1>12 DEF IInv, TypeOK, Trying, ExecFails
  <2>5. RetriesBounded'
    BY <1>12 DEF IInv, TypeOK, RetriesBounded, Trying, Leaving, ExecFails
  <2> QED
    BY <2>1, <2>2, <2>3, <2>4, <2>5 DEF IInv
<1>13. ASSUME NEW p \in Proc, CommandEnds(p) PROVE IInv'
  <2>1. TypeOK'
    BY <1>13, InResults DEF IInv, TypeOK, CommandEnds
  <2>2. Held'
    BY <1>13 DEF IInv, TypeOK, Held, CommandEnds
  <2>3. Leaving'
    BY <1>13 DEF IInv, TypeOK, Held, Leaving, CommandEnds
  <2>4. Trying'
    BY <1>13 DEF IInv, TypeOK, Trying, CommandEnds
  <2>5. RetriesBounded'
    BY <1>13 DEF IInv, TypeOK, RetriesBounded, Trying, Leaving, CommandEnds
  <2> QED
    BY <2>1, <2>2, <2>3, <2>4, <2>5 DEF IInv
<1>14. CASE UNCHANGED vars
  <2>1. TypeOK'
    BY <1>14 DEF IInv, TypeOK, vars
  <2>2. Held'
    BY <1>14 DEF IInv, Held, vars
  <2>3. Leaving'
    BY <1>14 DEF IInv, Leaving, vars
  <2>4. Trying'
    BY <1>14 DEF IInv, Trying, vars
  <2>5. RetriesBounded'
    BY <1>14 DEF IInv, RetriesBounded, vars
  <2> QED
    BY <2>1, <2>2, <2>3, <2>4, <2>5 DEF IInv
<1>15. ASSUME NEW p \in Proc, OpenFails(p) PROVE IInv'
  <2>1. TypeOK'
    BY <1>15, InResults DEF IInv, TypeOK, OpenFails, Exit, ReleasedBy
  <2>2. Held'
    BY <1>15 DEF IInv, TypeOK, Held, OpenFails, Exit, ReleasedBy
  <2>3. Leaving'
    BY <1>15 DEF IInv, TypeOK, Held, Leaving, OpenFails, Exit, ReleasedBy
  <2>4. Trying'
    BY <1>15 DEF IInv, TypeOK, Trying, OpenFails, Exit, ReleasedBy
  <2>5. RetriesBounded'
    BY <1>15 DEF IInv, TypeOK, RetriesBounded, Trying, Leaving, OpenFails, Exit, ReleasedBy
  <2> QED
    BY <2>1, <2>2, <2>3, <2>4, <2>5 DEF IInv
<1> QED
  BY <1>1, <1>2, <1>3, <1>4, <1>5, <1>6, <1>7, <1>8, <1>9, <1>10, <1>11, <1>12, <1>13, <1>14, <1>15
  DEF Next, Main, Child

LEMMA Invariance == Spec => []IInv
  BY InitInv, NextInv, PTL DEF Spec

\* Every variable keeps its type.
THEOREM TypeCorrect == Spec => []TypeOK
  BY Invariance, PTL DEF IInv

\* Two commands run at once only if the instance of one of them was killed.
THEOREM OneCommand == Spec => []OneAtATimeUnlessKilled
<1>1. IInv => OneAtATimeUnlessKilled
  BY DEF IInv, Held, OneAtATimeUnlessKilled, Alive
<1> QED
  BY <1>1, Invariance, PTL

\* An instance that gives up has made the attempts that --retries allows.
THEOREM AttemptsBounded == Spec => []RetriesBounded
  BY Invariance, PTL DEF IInv

=============================================================================
