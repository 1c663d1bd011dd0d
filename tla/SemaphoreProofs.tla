-------------------------- MODULE SemaphoreProofs --------------------------
(***************************************************************************)
(* What holds of Semaphore for every set of processes, every set of them   *)
(* that may be killed, and every width of the counter.                     *)
(***************************************************************************)
EXTENDS Semaphore, TLAPS

\* Nobody has touched the file before it exists; one process creates it, and
\* whoever has it mapped before the end of the creation is in early.
Creation ==
  /\ file = "absent" => \A p \in Proc : pc[p] = "closed"
  /\ \A p, q \in Proc : pc[p] \in Creating /\ pc[q] \in Creating => p = q
  /\ \A p \in Proc : pc[p] \in Creating => file # "ready"
  /\ file # "ready" => \A p \in Proc :
       pc[p] \in {"closed", "dead"} \cup Creating \/ p \in early
  /\ Sound /\ file # "ready" => count = 0

\* What a process may rely on inside a critical section.
Critical ==
  Sound => \A p \in Proc :
    /\ pc[p] \in Posting => posts < MaxPosts
    /\ pc[p] = "wait_dec" => count > 0

IInv == TypeOK /\ Creation /\ LockExclusion /\ Conservation /\ Critical
             /\ BusErrorOnlyEarly

USE SemaphoreAssumption

LEMMA ModSmall ==
  ASSUME NEW a \in Nat, NEW m \in Nat, a < m
  PROVE  a % m = a
  BY SMT

LEMMA ModWrap ==
  ASSUME NEW a \in Nat, NEW m \in Nat, a < m
  PROVE  (a + m) % m = a
  BY SMT

LEMMA ModRange ==
  ASSUME NEW a \in Nat, NEW m \in Nat, m > 0
  PROVE  a % m \in 0 .. m - 1
  BY SMT
-----------------------------------------------------------------------------
LEMMA InitInv == Init => IInv
<1> SUFFICES ASSUME Init PROVE IInv
  OBVIOUS
<1>1. TypeOK
  <2>1. 0 \in 0 .. UintMod - 1
    OBVIOUS
  <2> QED
    BY <2>1 DEF Init, TypeOK
<1>2. Creation
  BY DEF Init, Creation, Creating, Sound
<1>3. LockExclusion /\ Critical /\ BusErrorOnlyEarly
  BY DEF Init, LockExclusion, Critical, BusErrorOnlyEarly, Posting
<1>4. Conservation
  BY DEF Init, Conservation
<1> QED
  BY <1>1, <1>2, <1>3, <1>4 DEF IInv

\* One step per action, and under it one per conjunct.
LEMMA NextInv == IInv /\ [Next]_vars => IInv'
<1> SUFFICES ASSUME IInv, [Next]_vars PROVE IInv'
  OBVIOUS
<1> USE DEF Creating, Posting, Waiting, Gone, Goto, Sound
<1>1. ASSUME NEW p \in Proc, CreateOpen(p) PROVE IInv'
  <2>1. TypeOK'
    BY <1>1 DEF IInv, TypeOK, CreateOpen
  <2>2. Creation'
    BY <1>1 DEF IInv, TypeOK, Creation, CreateOpen
  <2>3. LockExclusion'
    BY <1>1 DEF IInv, TypeOK, LockExclusion, Creation, CreateOpen
  <2>4. Conservation'
    BY <1>1 DEF IInv, TypeOK, Conservation, LockExclusion, Creation, Critical, CreateOpen
  <2>5. Critical'
    BY <1>1 DEF IInv, TypeOK, Critical, LockExclusion, Conservation, Creation, CreateOpen
  <2>6. BusErrorOnlyEarly'
    BY <1>1 DEF IInv, TypeOK, BusErrorOnlyEarly, Creation, CreateOpen
  <2> QED BY <2>1, <2>2, <2>3, <2>4, <2>5, <2>6 DEF IInv
<1>2. ASSUME NEW p \in Proc, CreateTruncate(p) PROVE IInv'
  <2>1. TypeOK'
    BY <1>2 DEF IInv, TypeOK, CreateTruncate
  <2>2. Creation'
    BY <1>2 DEF IInv, TypeOK, Creation, CreateTruncate
  <2>3. LockExclusion'
    BY <1>2 DEF IInv, TypeOK, LockExclusion, Creation, CreateTruncate
  <2>4. Conservation'
    BY <1>2 DEF IInv, TypeOK, Conservation, LockExclusion, Creation, Critical, CreateTruncate
  <2>5. Critical'
    BY <1>2 DEF IInv, TypeOK, Critical, LockExclusion, Conservation, Creation, CreateTruncate
  <2>6. BusErrorOnlyEarly'
    BY <1>2 DEF IInv, TypeOK, BusErrorOnlyEarly, Creation, CreateTruncate
  <2> QED BY <2>1, <2>2, <2>3, <2>4, <2>5, <2>6 DEF IInv
<1>3. ASSUME NEW p \in Proc, CreateInit(p) PROVE IInv'
  <2>1. TypeOK'
    BY <1>3 DEF IInv, TypeOK, CreateInit
  <2>2. Creation'
    BY <1>3 DEF IInv, TypeOK, Creation, CreateInit
  <2>3. LockExclusion'
    BY <1>3 DEF IInv, TypeOK, LockExclusion, Creation, CreateInit
  <2>4. Conservation'
    BY <1>3 DEF IInv, TypeOK, Conservation, LockExclusion, Creation, Critical, CreateInit
  <2>5. Critical'
    BY <1>3 DEF IInv, TypeOK, Critical, LockExclusion, Conservation, Creation, CreateInit
  <2>6. BusErrorOnlyEarly'
    BY <1>3 DEF IInv, TypeOK, BusErrorOnlyEarly, Creation, CreateInit
  <2> QED BY <2>1, <2>2, <2>3, <2>4, <2>5, <2>6 DEF IInv
<1>4. ASSUME NEW p \in Proc, CreateZero(p) PROVE IInv'
  <2>1. TypeOK'
    BY <1>4 DEF IInv, TypeOK, CreateZero
  <2>2. Creation'
    BY <1>4 DEF IInv, TypeOK, Creation, CreateZero
  <2>3. LockExclusion'
    BY <1>4 DEF IInv, TypeOK, LockExclusion, Creation, CreateZero
  <2>4. Conservation'
    BY <1>4 DEF IInv, TypeOK, Conservation, LockExclusion, Creation, Critical, CreateZero
  <2>5. Critical'
    BY <1>4 DEF IInv, TypeOK, Critical, LockExclusion, Conservation, Creation, CreateZero
  <2>6. BusErrorOnlyEarly'
    BY <1>4 DEF IInv, TypeOK, BusErrorOnlyEarly, Creation, CreateZero
  <2> QED BY <2>1, <2>2, <2>3, <2>4, <2>5, <2>6 DEF IInv
<1>5. ASSUME NEW p \in Proc, Open(p) PROVE IInv'
  <2>1. TypeOK'
    BY <1>5 DEF IInv, TypeOK, Open
  <2>2. Creation'
    BY <1>5 DEF IInv, TypeOK, Creation, Open
  <2>3. LockExclusion'
    BY <1>5 DEF IInv, TypeOK, LockExclusion, Creation, Open
  <2>4. Conservation'
    BY <1>5 DEF IInv, TypeOK, Conservation, LockExclusion, Creation, Critical, Open
  <2>5. Critical'
    BY <1>5 DEF IInv, TypeOK, Critical, LockExclusion, Conservation, Creation, Open
  <2>6. BusErrorOnlyEarly'
    BY <1>5 DEF IInv, TypeOK, BusErrorOnlyEarly, Creation, Open
  <2> QED BY <2>1, <2>2, <2>3, <2>4, <2>5, <2>6 DEF IInv
<1>6. ASSUME NEW p \in Proc, Close(p) PROVE IInv'
  <2>1. TypeOK'
    BY <1>6 DEF IInv, TypeOK, Close
  <2>2. Creation'
    BY <1>6 DEF IInv, TypeOK, Creation, Close
  <2>3. LockExclusion'
    BY <1>6 DEF IInv, TypeOK, LockExclusion, Creation, Close
  <2>4. Conservation'
    BY <1>6 DEF IInv, TypeOK, Conservation, LockExclusion, Creation, Critical, Close
  <2>5. Critical'
    BY <1>6 DEF IInv, TypeOK, Critical, LockExclusion, Conservation, Creation, Close
  <2>6. BusErrorOnlyEarly'
    BY <1>6 DEF IInv, TypeOK, BusErrorOnlyEarly, Creation, Close
  <2> QED BY <2>1, <2>2, <2>3, <2>4, <2>5, <2>6 DEF IInv
<1>7. ASSUME NEW p \in Proc, BusError(p) PROVE IInv'
  <2>1. TypeOK'
    BY <1>7 DEF IInv, TypeOK, BusError
  <2>2. Creation'
    BY <1>7 DEF IInv, TypeOK, Creation, BusError
  <2>3. LockExclusion'
    BY <1>7 DEF IInv, TypeOK, LockExclusion, Creation, BusError
  <2>4. Conservation'
    BY <1>7 DEF IInv, TypeOK, Conservation, LockExclusion, Creation, Critical, BusError
  <2>5. Critical'
    BY <1>7 DEF IInv, TypeOK, Critical, LockExclusion, Conservation, Creation, BusError
  <2>6. BusErrorOnlyEarly'
    BY <1>7 DEF IInv, TypeOK, BusErrorOnlyEarly, Creation, BusError
  <2> QED BY <2>1, <2>2, <2>3, <2>4, <2>5, <2>6 DEF IInv
<1>8. ASSUME NEW p \in Proc, PostLock(p) PROVE IInv'
  <2>1. TypeOK'
    BY <1>8 DEF IInv, TypeOK, PostLock
  <2>2. Creation'
    BY <1>8 DEF IInv, TypeOK, Creation, PostLock
  <2>3. LockExclusion'
    BY <1>8 DEF IInv, TypeOK, LockExclusion, Creation, PostLock
  <2>4. Conservation'
    BY <1>8 DEF IInv, TypeOK, Conservation, LockExclusion, Creation, Critical, PostLock
  <2>5. Critical'
    BY <1>8 DEF IInv, TypeOK, Critical, LockExclusion, Conservation, Creation, PostLock
  <2>6. BusErrorOnlyEarly'
    BY <1>8 DEF IInv, TypeOK, BusErrorOnlyEarly, Creation, PostLock
  <2> QED BY <2>1, <2>2, <2>3, <2>4, <2>5, <2>6 DEF IInv
<1>9. ASSUME NEW p \in Proc, PostSignal(p) PROVE IInv'
  <2>1. TypeOK'
    BY <1>9 DEF IInv, TypeOK, PostSignal, Signal
  <2>2. Creation'
    BY <1>9 DEF IInv, TypeOK, Creation, PostSignal, Signal
  <2>3. LockExclusion'
    BY <1>9 DEF IInv, TypeOK, LockExclusion, Creation, PostSignal, Signal
  <2>4. Conservation'
    BY <1>9 DEF IInv, TypeOK, Conservation, LockExclusion, Creation, Critical, PostSignal, Signal
  <2>5. Critical'
    BY <1>9 DEF IInv, TypeOK, Critical, LockExclusion, Conservation, Creation, PostSignal, Signal
  <2>6. BusErrorOnlyEarly'
    BY <1>9 DEF IInv, TypeOK, BusErrorOnlyEarly, Creation, PostSignal, Signal
  <2> QED BY <2>1, <2>2, <2>3, <2>4, <2>5, <2>6 DEF IInv
<1>10. ASSUME NEW p \in Proc, PostUnlock(p) PROVE IInv'
  <2>1. TypeOK'
    BY <1>10, ModRange, ModSmall DEF IInv, TypeOK, PostUnlock
  <2>2. Creation'
    BY <1>10, ModRange, ModSmall DEF IInv, TypeOK, Creation, PostUnlock
  <2>3. LockExclusion'
    BY <1>10, ModRange, ModSmall DEF IInv, TypeOK, LockExclusion, Creation, PostUnlock
  <2>4. Conservation'
    BY <1>10, ModRange, ModSmall DEF IInv, TypeOK, Conservation, LockExclusion, Creation, Critical, PostUnlock
  <2>5. Critical'
    BY <1>10, ModRange, ModSmall DEF IInv, TypeOK, Critical, LockExclusion, Conservation, Creation, PostUnlock
  <2>6. BusErrorOnlyEarly'
    BY <1>10, ModRange, ModSmall DEF IInv, TypeOK, BusErrorOnlyEarly, Creation, PostUnlock
  <2> QED BY <2>1, <2>2, <2>3, <2>4, <2>5, <2>6 DEF IInv
<1>11. ASSUME NEW p \in Proc, Wait(p) PROVE IInv'
  <2>1. TypeOK'
    BY <1>11 DEF IInv, TypeOK, Wait
  <2>2. Creation'
    BY <1>11 DEF IInv, TypeOK, Creation, Wait
  <2>3. LockExclusion'
    BY <1>11 DEF IInv, TypeOK, LockExclusion, Creation, Wait
  <2>4. Conservation'
    BY <1>11 DEF IInv, TypeOK, Conservation, LockExclusion, Creation, Critical, Wait
  <2>5. Critical'
    BY <1>11 DEF IInv, TypeOK, Critical, LockExclusion, Conservation, Creation, Wait
  <2>6. BusErrorOnlyEarly'
    BY <1>11 DEF IInv, TypeOK, BusErrorOnlyEarly, Creation, Wait
  <2> QED BY <2>1, <2>2, <2>3, <2>4, <2>5, <2>6 DEF IInv
<1>12. ASSUME NEW p \in Proc, WaitLock(p) PROVE IInv'
  <2>1. TypeOK'
    BY <1>12 DEF IInv, TypeOK, WaitLock
  <2>2. Creation'
    BY <1>12 DEF IInv, TypeOK, Creation, WaitLock
  <2>3. LockExclusion'
    BY <1>12 DEF IInv, TypeOK, LockExclusion, Creation, WaitLock
  <2>4. Conservation'
    BY <1>12 DEF IInv, TypeOK, Conservation, LockExclusion, Creation, Critical, WaitLock
  <2>5. Critical'
    BY <1>12 DEF IInv, TypeOK, Critical, LockExclusion, Conservation, Creation, WaitLock
  <2>6. BusErrorOnlyEarly'
    BY <1>12 DEF IInv, TypeOK, BusErrorOnlyEarly, Creation, WaitLock
  <2> QED BY <2>1, <2>2, <2>3, <2>4, <2>5, <2>6 DEF IInv
<1>13. ASSUME NEW p \in Proc, WaitSleep(p) PROVE IInv'
  <2>1. TypeOK'
    BY <1>13 DEF IInv, TypeOK, WaitSleep
  <2>2. Creation'
    BY <1>13 DEF IInv, TypeOK, Creation, WaitSleep
  <2>3. LockExclusion'
    BY <1>13 DEF IInv, TypeOK, LockExclusion, Creation, WaitSleep
  <2>4. Conservation'
    BY <1>13 DEF IInv, TypeOK, Conservation, LockExclusion, Creation, Critical, WaitSleep
  <2>5. Critical'
    BY <1>13 DEF IInv, TypeOK, Critical, LockExclusion, Conservation, Creation, WaitSleep
  <2>6. BusErrorOnlyEarly'
    BY <1>13 DEF IInv, TypeOK, BusErrorOnlyEarly, Creation, WaitSleep
  <2> QED BY <2>1, <2>2, <2>3, <2>4, <2>5, <2>6 DEF IInv
<1>14. ASSUME NEW p \in Proc, WaitPass(p) PROVE IInv'
  <2>1. TypeOK'
    BY <1>14 DEF IInv, TypeOK, WaitPass
  <2>2. Creation'
    BY <1>14 DEF IInv, TypeOK, Creation, WaitPass
  <2>3. LockExclusion'
    BY <1>14 DEF IInv, TypeOK, LockExclusion, Creation, WaitPass
  <2>4. Conservation'
    BY <1>14 DEF IInv, TypeOK, Conservation, LockExclusion, Creation, Critical, WaitPass
  <2>5. Critical'
    BY <1>14 DEF IInv, TypeOK, Critical, LockExclusion, Conservation, Creation, WaitPass
  <2>6. BusErrorOnlyEarly'
    BY <1>14 DEF IInv, TypeOK, BusErrorOnlyEarly, Creation, WaitPass
  <2> QED BY <2>1, <2>2, <2>3, <2>4, <2>5, <2>6 DEF IInv
<1>15. ASSUME NEW p \in Proc, WaitTake(p) PROVE IInv'
  <2>1. TypeOK'
    BY <1>15, ModRange, ModWrap DEF IInv, TypeOK, WaitTake
  <2>2. Creation'
    BY <1>15, ModRange, ModWrap DEF IInv, TypeOK, Creation, WaitTake
  <2>3. LockExclusion'
    BY <1>15, ModRange, ModWrap DEF IInv, TypeOK, LockExclusion, Creation, WaitTake
  <2>4. Conservation'
    BY <1>15, ModRange, ModWrap DEF IInv, TypeOK, Conservation, LockExclusion, Creation, Critical, WaitTake
  <2>5. Critical'
    BY <1>15, ModRange, ModWrap DEF IInv, TypeOK, Critical, LockExclusion, Conservation, Creation, WaitTake
  <2>6. BusErrorOnlyEarly'
    BY <1>15, ModRange, ModWrap DEF IInv, TypeOK, BusErrorOnlyEarly, Creation, WaitTake
  <2> QED BY <2>1, <2>2, <2>3, <2>4, <2>5, <2>6 DEF IInv
<1>16. ASSUME NEW p \in Proc, SpuriousWakeup(p) PROVE IInv'
  <2>1. TypeOK'
    BY <1>16 DEF IInv, TypeOK, SpuriousWakeup
  <2>2. Creation'
    BY <1>16 DEF IInv, TypeOK, Creation, SpuriousWakeup
  <2>3. LockExclusion'
    BY <1>16 DEF IInv, TypeOK, LockExclusion, Creation, SpuriousWakeup
  <2>4. Conservation'
    BY <1>16 DEF IInv, TypeOK, Conservation, LockExclusion, Creation, Critical, SpuriousWakeup
  <2>5. Critical'
    BY <1>16 DEF IInv, TypeOK, Critical, LockExclusion, Conservation, Creation, SpuriousWakeup
  <2>6. BusErrorOnlyEarly'
    BY <1>16 DEF IInv, TypeOK, BusErrorOnlyEarly, Creation, SpuriousWakeup
  <2> QED BY <2>1, <2>2, <2>3, <2>4, <2>5, <2>6 DEF IInv
<1>17. ASSUME NEW p \in Proc, Kill(p) PROVE IInv'
  <2>1. TypeOK'
    BY <1>17 DEF IInv, TypeOK, Kill
  <2>2. Creation'
    BY <1>17 DEF IInv, TypeOK, Creation, Kill
  <2>3. LockExclusion'
    BY <1>17 DEF IInv, TypeOK, LockExclusion, Creation, Kill
  <2>4. Conservation'
    BY <1>17 DEF IInv, TypeOK, Conservation, LockExclusion, Creation, Critical, Kill
  <2>5. Critical'
    BY <1>17 DEF IInv, TypeOK, Critical, LockExclusion, Conservation, Creation, Kill
  <2>6. BusErrorOnlyEarly'
    BY <1>17 DEF IInv, TypeOK, BusErrorOnlyEarly, Creation, Kill
  <2> QED BY <2>1, <2>2, <2>3, <2>4, <2>5, <2>6 DEF IInv
<1>18. CASE UNCHANGED vars
  BY <1>18 DEF IInv, TypeOK, Creation, LockExclusion, Conservation, Critical,
         BusErrorOnlyEarly, vars
<1> QED
  BY <1>1, <1>2, <1>3, <1>4, <1>5, <1>6, <1>7, <1>8, <1>9, <1>10, <1>11, <1>12, <1>13, <1>14, <1>15, <1>16, <1>17, <1>18
  DEF Next, Step, Create, Post, WaitLoop

LEMMA Invariance == Spec => []IInv
  BY InitInv, NextInv, PTL DEF Spec

\* Every variable keeps its type, the counter its w bits.
THEOREM TypeCorrect == Spec => []TypeOK
  BY Invariance, PTL DEF IInv

\* A critical section of semaphore_post or semaphore_wait holds the mutex, so
\* at most one process is in one, provided nobody opened too early.
THEOREM Exclusion == Spec => []LockExclusion
  BY Invariance, PTL DEF IInv

\* The counter is the number of posts not yet taken: semaphore_post and
\* semaphore_wait neither lose nor make up a token, whoever is killed.
THEOREM TokensConserved == Spec => []Conservation
  BY Invariance, PTL DEF IInv

\* SIGBUS takes only processes that mapped the file before ftruncate.
THEOREM BusErrorsAreEarly == Spec => []BusErrorOnlyEarly
  BY Invariance, PTL DEF IInv
-----------------------------------------------------------------------------
\* With one process in the queue the signal sent at count = 0 is enough: a
\* sleeper is in the queue the signal goes to, and once it is sent nobody sleeps.
WakeInv ==
  /\ ~overlap => \A p, q \in waitq : p = q
  /\ Sound => \A p \in Proc : pc[p] = "asleep" => p \in waitq
  /\ Sound /\ ~overlap => \A p, q \in Proc : pc[p] = "post_inc" => pc[q] # "asleep"
  /\ NoLostWakeup

LEMMA WakeStep == IInv /\ WakeInv /\ [Next]_vars => WakeInv'
<1> SUFFICES ASSUME IInv, WakeInv, [Next]_vars PROVE WakeInv'
  OBVIOUS
<1> USE DEF Creating, Posting, Waiting, Gone, Goto, Sound, IInv, TypeOK,
            WakeInv, NoLostWakeup
<1>1. ASSUME NEW p \in Proc, CreateOpen(p) PROVE WakeInv'
  BY <1>1 DEF CreateOpen
<1>2. ASSUME NEW p \in Proc, CreateTruncate(p) PROVE WakeInv'
  BY <1>2 DEF CreateTruncate
<1>3. ASSUME NEW p \in Proc, CreateInit(p) PROVE WakeInv'
  BY <1>3 DEF CreateInit, Creation
<1>4. ASSUME NEW p \in Proc, CreateZero(p) PROVE WakeInv'
  BY <1>4 DEF CreateZero, Creation
<1>5. ASSUME NEW p \in Proc, Open(p) PROVE WakeInv'
  BY <1>5 DEF Open
<1>6. ASSUME NEW p \in Proc, Close(p) PROVE WakeInv'
  BY <1>6 DEF Close
<1>7. ASSUME NEW p \in Proc, BusError(p) PROVE WakeInv'
  BY <1>7 DEF BusError
<1>8. ASSUME NEW p \in Proc, PostLock(p) PROVE WakeInv'
  BY <1>8 DEF PostLock
<1>9. ASSUME NEW p \in Proc, PostSignal(p) PROVE WakeInv'
  BY <1>9 DEF PostSignal, Signal
<1>10. ASSUME NEW p \in Proc, PostUnlock(p) PROVE WakeInv'
  BY <1>10 DEF PostUnlock
<1>11. ASSUME NEW p \in Proc, Wait(p) PROVE WakeInv'
  BY <1>11 DEF Wait
<1>12. ASSUME NEW p \in Proc, WaitLock(p) PROVE WakeInv'
  BY <1>12 DEF WaitLock
<1>13. ASSUME NEW p \in Proc, WaitSleep(p) PROVE WakeInv'
  BY <1>13 DEF WaitSleep, LockExclusion
<1>14. ASSUME NEW p \in Proc, WaitPass(p) PROVE WakeInv'
  BY <1>14 DEF WaitPass
<1>15. ASSUME NEW p \in Proc, WaitTake(p) PROVE WakeInv'
  BY <1>15, ModWrap DEF WaitTake, Critical, Conservation, LockExclusion
<1>16. ASSUME NEW p \in Proc, SpuriousWakeup(p) PROVE WakeInv'
  BY <1>16 DEF SpuriousWakeup
<1>17. ASSUME NEW p \in Proc, Kill(p) PROVE WakeInv'
  BY <1>17 DEF Kill
<1>18. CASE UNCHANGED vars
  BY <1>18 DEF vars
<1> QED
  BY <1>1, <1>2, <1>3, <1>4, <1>5, <1>6, <1>7, <1>8, <1>9, <1>10, <1>11, <1>12, <1>13, <1>14, <1>15, <1>16, <1>17, <1>18
  DEF Next, Step, Create, Post, WaitLoop

\* Nobody sleeps while there is a token, until two processes sleep at once.
THEOREM LoneSleeperIsWoken == Spec => []NoLostWakeup
<1>1. Init => WakeInv
  BY DEF Init, WakeInv, NoLostWakeup, Waiting
<1>2. IInv /\ WakeInv /\ [Next]_vars => WakeInv'
  BY WakeStep
<1>3. WakeInv => NoLostWakeup
  BY DEF WakeInv
<1> QED
  BY <1>1, <1>2, <1>3, Invariance, PTL DEF Spec
-----------------------------------------------------------------------------
LEMMA ContractInit == Init => Contract!Init
  BY DEF Init, Contract!Init, Sound, Waiting

LEMMA ContractStep == IInv /\ [Next]_vars => [Contract!Next]_Contract!vars
<1> SUFFICES ASSUME IInv, [Next]_vars PROVE [Contract!Next]_Contract!vars
  OBVIOUS
<1> USE DEF Creating, Posting, Waiting, Gone, Goto, Sound, IInv, TypeOK,
            Contract!Next, Contract!vars
<1>s. ASSUME early' = early, count' = count,
             \A q \in Proc : pc'[q] \in Waiting <=> pc[q] \in Waiting
      PROVE  [Contract!Next]_Contract!vars
  BY <1>s
<1>1. ASSUME NEW p \in Proc, CreateOpen(p) PROVE [Contract!Next]_Contract!vars
  <2>1. early' = early /\ count' = count
    BY <1>1 DEF CreateOpen
  <2>2. \A q \in Proc : pc'[q] \in Waiting <=> pc[q] \in Waiting
    BY <1>1 DEF CreateOpen
  <2> QED
    BY <2>1, <2>2, <1>s
<1>2. ASSUME NEW p \in Proc, CreateTruncate(p) PROVE [Contract!Next]_Contract!vars
  <2>1. early' = early /\ count' = count
    BY <1>2 DEF CreateTruncate
  <2>2. \A q \in Proc : pc'[q] \in Waiting <=> pc[q] \in Waiting
    BY <1>2 DEF CreateTruncate
  <2> QED
    BY <2>1, <2>2, <1>s
<1>3. ASSUME NEW p \in Proc, CreateInit(p) PROVE [Contract!Next]_Contract!vars
  <2>1. early' = early /\ count' = count
    BY <1>3 DEF CreateInit
  <2>2. \A q \in Proc : pc'[q] \in Waiting <=> pc[q] \in Waiting
    BY <1>3 DEF CreateInit
  <2> QED
    BY <2>1, <2>2, <1>s
<1>4. ASSUME NEW p \in Proc, CreateZero(p) PROVE [Contract!Next]_Contract!vars
  BY <1>4 DEF CreateZero, Creation
<1>5. ASSUME NEW p \in Proc, Open(p) PROVE [Contract!Next]_Contract!vars
  BY <1>5 DEF Open, Contract!Break
<1>6. ASSUME NEW p \in Proc, Close(p) PROVE [Contract!Next]_Contract!vars
  <2>1. early' = early /\ count' = count
    BY <1>6 DEF Close
  <2>2. \A q \in Proc : pc'[q] \in Waiting <=> pc[q] \in Waiting
    BY <1>6 DEF Close
  <2> QED
    BY <2>1, <2>2, <1>s
<1>7. ASSUME NEW p \in Proc, BusError(p) PROVE [Contract!Next]_Contract!vars
  BY <1>7 DEF BusError, Creation, Contract!Leave
<1>8. ASSUME NEW p \in Proc, PostLock(p) PROVE [Contract!Next]_Contract!vars
  <2>1. early' = early /\ count' = count
    BY <1>8 DEF PostLock
  <2>2. \A q \in Proc : pc'[q] \in Waiting <=> pc[q] \in Waiting
    BY <1>8 DEF PostLock
  <2> QED
    BY <2>1, <2>2, <1>s
<1>9. ASSUME NEW p \in Proc, PostSignal(p) PROVE [Contract!Next]_Contract!vars
  <2>1. early' = early /\ count' = count
    BY <1>9 DEF PostSignal, Signal
  <2>2. \A q \in Proc : pc'[q] \in Waiting <=> pc[q] \in Waiting
    BY <1>9 DEF PostSignal, Signal
  <2> QED
    BY <2>1, <2>2, <1>s
<1>10. ASSUME NEW p \in Proc, PostUnlock(p) PROVE [Contract!Next]_Contract!vars
  <2>1. CASE ~Sound
    <3>1. early' # {}
      BY <1>10, <2>1 DEF PostUnlock
    <3> QED
      BY <2>1, <3>1, <1>10 DEF PostUnlock
  <2>2. CASE Sound
    <3>1. count + 1 < UintMod /\ count \in Nat
      BY <1>10, <2>2 DEF PostUnlock, Critical, Conservation
    <3>2. count' = count + 1 /\ early' = early
      BY <1>10, <3>1, ModSmall DEF PostUnlock
    <3>3. \A q \in Proc : pc'[q] \in Waiting <=> pc[q] \in Waiting
      BY <1>10 DEF PostUnlock
    <3> QED
      BY <2>2, <3>2, <3>3 DEF Contract!Post
  <2> QED
    BY <2>1, <2>2
<1>11. ASSUME NEW p \in Proc, Wait(p) PROVE [Contract!Next]_Contract!vars
  BY <1>11 DEF Wait, Contract!Enter
<1>12. ASSUME NEW p \in Proc, WaitLock(p) PROVE [Contract!Next]_Contract!vars
  <2>1. early' = early /\ count' = count
    BY <1>12 DEF WaitLock
  <2>2. \A q \in Proc : pc'[q] \in Waiting <=> pc[q] \in Waiting
    BY <1>12 DEF WaitLock
  <2> QED
    BY <2>1, <2>2, <1>s
<1>13. ASSUME NEW p \in Proc, WaitSleep(p) PROVE [Contract!Next]_Contract!vars
  <2>1. early' = early /\ count' = count
    BY <1>13 DEF WaitSleep
  <2>2. \A q \in Proc : pc'[q] \in Waiting <=> pc[q] \in Waiting
    BY <1>13 DEF WaitSleep
  <2> QED
    BY <2>1, <2>2, <1>s
<1>14. ASSUME NEW p \in Proc, WaitPass(p) PROVE [Contract!Next]_Contract!vars
  <2>1. early' = early /\ count' = count
    BY <1>14 DEF WaitPass
  <2>2. \A q \in Proc : pc'[q] \in Waiting <=> pc[q] \in Waiting
    BY <1>14 DEF WaitPass
  <2> QED
    BY <2>1, <2>2, <1>s
<1>15. ASSUME NEW p \in Proc, WaitTake(p) PROVE [Contract!Next]_Contract!vars
  BY <1>15, ModWrap DEF WaitTake, Critical, Contract!Take
<1>16. ASSUME NEW p \in Proc, SpuriousWakeup(p) PROVE [Contract!Next]_Contract!vars
  <2>1. early' = early /\ count' = count
    BY <1>16 DEF SpuriousWakeup
  <2>2. \A q \in Proc : pc'[q] \in Waiting <=> pc[q] \in Waiting
    BY <1>16 DEF SpuriousWakeup
  <2> QED
    BY <2>1, <2>2, <1>s
<1>17. ASSUME NEW p \in Proc, Kill(p) PROVE [Contract!Next]_Contract!vars
  BY <1>17 DEF Kill, Contract!Leave
<1>18. CASE UNCHANGED vars
  BY <1>18 DEF vars
<1> QED
  BY <1>1, <1>2, <1>3, <1>4, <1>5, <1>6, <1>7, <1>8, <1>9, <1>10, <1>11, <1>12, <1>13, <1>14, <1>15, <1>16, <1>17, <1>18
  DEF Next, Step, Create, Post, WaitLoop

\* The mutex, the condition variable and the counter implement the contract.
THEOREM SemaphoreImplementsContract == Spec => ImplementsContract
  BY ContractInit, ContractStep, Invariance, PTL
  DEF Spec, ImplementsContract, Contract!Spec
=============================================================================
