-------------------------- MODULE ThreadPoolProofs --------------------------
(***************************************************************************)
(* The thread pool for every number of workers, clients and tasks.         *)
(***************************************************************************)
EXTENDS ThreadPool, FiniteSetTheorems, TLAPS

(* mutex_ is held exactly by the worker between its lock and its unlock,   *)
(* and a worker that found the queue empty keeps it empty until it sleeps. *)
MutexInv == \A w \in Workers :
              /\ pc[w] \in {"test", "block"} <=> mutex = w
              /\ pc[w] = "block" => tasks = <<>>

(* A worker has a task in hand exactly between Pop and the end of Run.     *)
HeldInv == \A w \in Workers : held[w] # NoTask <=> pc[w] \in {"popped", "running"}

(* Once the destructor has started, no client is inside a call; workers    *)
(* leave only then, and the join returns after all of them.                *)
StopInv == /\ stop <=> ~Alive
           /\ stop => \A c \in Clients \ {Owner} : pc[c] = "idle"
           /\ \A w \in Workers : pc[w] = "exited" => stop /\ tasks = <<>>
           /\ pc[Owner] = "gone" => \A w \in Workers : pc[w] = "exited"

Counted   == {w \in Workers : pc[w] \in {"running", "ran"}}
ActiveInv == active = Cardinality(Counted)

IInv == TypeOK /\ MutexInv /\ HeldInv /\ StopInv /\ NoTaskForgotten

USE DEF Goto, WorkerPC, ClientPC
-----------------------------------------------------------------------------
(* The constructor leaves every thread where IInv wants it.                *)
LEMMA InitIInv == Init => IInv
<1> SUFFICES ASSUME Init PROVE IInv
  OBVIOUS
<1> USE ThreadPoolAssumption DEF Init
<1>1. TypeOK
  <2>1. pc \in [Workers \cup Clients -> WorkerPC \cup ClientPC]
    OBVIOUS
  <2>2. /\ \A w \in Workers : pc[w] \in WorkerPC
        /\ \A c \in Clients : pc[c] \in ClientPC
    OBVIOUS
  <2>3. tasks \in Seq(Tasks) /\ active \in Int
    OBVIOUS
  <2>5. stop \in BOOLEAN
    OBVIOUS
  <2>4. /\ mutex \in Workers \cup {Nobody} /\ waitMutex \in Clients \cup {Nobody}
        /\ held \in [Workers -> Tasks \cup {NoTask}] /\ done \subseteq Tasks
    OBVIOUS
  <2> QED BY <2>1, <2>2, <2>3, <2>4, <2>5 DEF TypeOK
<1>2. MutexInv /\ HeldInv
  BY DEF MutexInv, HeldInv
<1>3. StopInv /\ NoTaskForgotten
  BY DEF StopInv, NoTaskForgotten, Alive
<1> QED BY <1>1, <1>2, <1>3 DEF IInv

(* Every step leaves the variables in their types.                         *)
LEMMA NextTypeOK == TypeOK /\ HeldInv /\ Next => TypeOK'
<1> SUFFICES ASSUME TypeOK, HeldInv, Next PROVE TypeOK'
  OBVIOUS
<1> USE ThreadPoolAssumption DEF TypeOK
<1>1. ASSUME NEW w \in Workers, Lock(w) \/ TestFails(w) \/ Block(w) \/ Exit(w)
      PROVE  TypeOK'
  BY <1>1 DEF Lock, TestFails, Block, Exit
<1>2. ASSUME NEW w \in Workers, Pop(w) PROVE TypeOK'
  BY <1>2 DEF Pop
<1>3. ASSUME NEW w \in Workers, CountUp(w) \/ CountDown(w) PROVE TypeOK'
  BY <1>3 DEF CountUp, CountDown
<1>4. ASSUME NEW w \in Workers, Run(w) PROVE TypeOK'
  BY <1>4 DEF Run, HeldInv
<1>5. ASSUME NEW w \in Workers, NotifyWaiters(w) PROVE TypeOK'
  BY <1>5 DEF NotifyWaiters
<1>6. ASSUME NEW p \in Workers \cup Clients, Spurious(p) PROVE TypeOK'
  BY <1>6 DEF Spurious
<1>7. ASSUME NEW c \in Clients, NEW t \in Tasks, Submit(c, t) PROVE TypeOK'
  BY <1>7 DEF Submit
<1>8. ASSUME NEW c \in Clients, WakeOne(c) PROVE TypeOK'
  BY <1>8 DEF WakeOne
<1>9. ASSUME NEW c \in Clients, WaitAll(c) \/ WaitTest(c) \/ WaitBlock(c)
      PROVE  TypeOK'
  BY <1>9 DEF WaitAll, WaitTest, WaitBlock
<1>10. CASE StoreStop \/ NotifyAll \/ Join
  BY <1>10 DEF StoreStop, NotifyAll, Join
<1> QED
  BY <1>1, <1>2, <1>3, <1>4, <1>5, <1>6, <1>7, <1>8, <1>9, <1>10
  DEF Next, Worker, InCall

(* The mutex keeps a worker that found the queue empty and Submit apart. *)
LEMMA NextMutexInv == IInv /\ Next => MutexInv'
<1> SUFFICES ASSUME IInv, Next PROVE MutexInv'
  OBVIOUS
<1> USE ThreadPoolAssumption DEF IInv, TypeOK, MutexInv
<1>1. ASSUME NEW w \in Workers, Lock(w) PROVE MutexInv'
  BY <1>1 DEF Lock
<1>2. ASSUME NEW w \in Workers, TestFails(w) PROVE MutexInv'
  BY <1>2 DEF TestFails
<1>3. ASSUME NEW w \in Workers, Block(w) PROVE MutexInv'
  BY <1>3 DEF Block
<1>4. ASSUME NEW w \in Workers, Exit(w) PROVE MutexInv'
  BY <1>4 DEF Exit
<1>5. ASSUME NEW w \in Workers, Pop(w) PROVE MutexInv'
  BY <1>5 DEF Pop
<1>6. ASSUME NEW w \in Workers, CountUp(w) PROVE MutexInv'
  BY <1>6 DEF CountUp
<1>7. ASSUME NEW w \in Workers, Run(w) PROVE MutexInv'
  BY <1>7 DEF Run
<1>8. ASSUME NEW w \in Workers, CountDown(w) PROVE MutexInv'
  BY <1>8 DEF CountDown
<1>9. ASSUME NEW w \in Workers, NotifyWaiters(w) PROVE MutexInv'
  BY <1>9 DEF NotifyWaiters
<1>10. ASSUME NEW p \in Workers \cup Clients, Spurious(p) PROVE MutexInv'
  BY <1>10 DEF Spurious
<1>11. ASSUME NEW c \in Clients, NEW t \in Tasks, Submit(c, t) PROVE MutexInv'
  BY <1>11 DEF Submit
<1>12. ASSUME NEW c \in Clients, WakeOne(c) PROVE MutexInv'
  BY <1>12 DEF WakeOne
<1>13. ASSUME NEW c \in Clients, WaitAll(c) PROVE MutexInv'
  BY <1>13 DEF WaitAll
<1>14. ASSUME NEW c \in Clients, WaitTest(c) PROVE MutexInv'
  BY <1>14 DEF WaitTest
<1>15. ASSUME NEW c \in Clients, WaitBlock(c) PROVE MutexInv'
  BY <1>15 DEF WaitBlock
<1>16. CASE StoreStop
  BY <1>16 DEF StoreStop
<1>17. CASE NotifyAll
  BY <1>17 DEF NotifyAll
<1>18. CASE Join
  BY <1>18 DEF Join
<1> QED
  BY <1>1, <1>2, <1>3, <1>4, <1>5, <1>6, <1>7, <1>8,
     <1>9, <1>10, <1>11, <1>12, <1>13, <1>14, <1>15, <1>16, <1>17, <1>18
  DEF Next, Worker, InCall

(* Pop takes a task out of the queue, Run puts it down. *)
LEMMA NextHeldInv == IInv /\ Next => HeldInv'
<1> SUFFICES ASSUME IInv, Next PROVE HeldInv'
  OBVIOUS
<1> USE ThreadPoolAssumption DEF IInv, TypeOK, HeldInv
<1>1. ASSUME NEW w \in Workers, Lock(w) PROVE HeldInv'
  BY <1>1 DEF Lock
<1>2. ASSUME NEW w \in Workers, TestFails(w) PROVE HeldInv'
  BY <1>2 DEF TestFails
<1>3. ASSUME NEW w \in Workers, Block(w) PROVE HeldInv'
  BY <1>3 DEF Block
<1>4. ASSUME NEW w \in Workers, Exit(w) PROVE HeldInv'
  BY <1>4 DEF Exit
<1>5. ASSUME NEW w \in Workers, Pop(w) PROVE HeldInv'
  BY <1>5 DEF Pop
<1>6. ASSUME NEW w \in Workers, CountUp(w) PROVE HeldInv'
  BY <1>6 DEF CountUp
<1>7. ASSUME NEW w \in Workers, Run(w) PROVE HeldInv'
  BY <1>7 DEF Run
<1>8. ASSUME NEW w \in Workers, CountDown(w) PROVE HeldInv'
  BY <1>8 DEF CountDown
<1>9. ASSUME NEW w \in Workers, NotifyWaiters(w) PROVE HeldInv'
  BY <1>9 DEF NotifyWaiters
<1>10. ASSUME NEW p \in Workers \cup Clients, Spurious(p) PROVE HeldInv'
  BY <1>10 DEF Spurious
<1>11. ASSUME NEW c \in Clients, NEW t \in Tasks, Submit(c, t) PROVE HeldInv'
  BY <1>11 DEF Submit
<1>12. ASSUME NEW c \in Clients, WakeOne(c) PROVE HeldInv'
  BY <1>12 DEF WakeOne
<1>13. ASSUME NEW c \in Clients, WaitAll(c) PROVE HeldInv'
  BY <1>13 DEF WaitAll
<1>14. ASSUME NEW c \in Clients, WaitTest(c) PROVE HeldInv'
  BY <1>14 DEF WaitTest
<1>15. ASSUME NEW c \in Clients, WaitBlock(c) PROVE HeldInv'
  BY <1>15 DEF WaitBlock
<1>16. CASE StoreStop
  BY <1>16 DEF StoreStop
<1>17. CASE NotifyAll
  BY <1>17 DEF NotifyAll
<1>18. CASE Join
  BY <1>18 DEF Join
<1> QED
  BY <1>1, <1>2, <1>3, <1>4, <1>5, <1>6, <1>7, <1>8,
     <1>9, <1>10, <1>11, <1>12, <1>13, <1>14, <1>15, <1>16, <1>17, <1>18
  DEF Next, Worker, InCall

(* The queue stays empty once a worker has left: no client submits any more. *)
LEMMA NextStopInv == IInv /\ Next => StopInv'
<1> SUFFICES ASSUME IInv, Next PROVE StopInv'
  OBVIOUS
<1> USE ThreadPoolAssumption DEF IInv, TypeOK, MutexInv, StopInv, Alive
<1>1. ASSUME NEW w \in Workers, Lock(w) PROVE StopInv'
  BY <1>1 DEF Lock
<1>2. ASSUME NEW w \in Workers, TestFails(w) PROVE StopInv'
  BY <1>2 DEF TestFails
<1>3. ASSUME NEW w \in Workers, Block(w) PROVE StopInv'
  BY <1>3 DEF Block
<1>4. ASSUME NEW w \in Workers, Exit(w) PROVE StopInv'
  BY <1>4 DEF Exit
<1>5. ASSUME NEW w \in Workers, Pop(w) PROVE StopInv'
  BY <1>5 DEF Pop
<1>6. ASSUME NEW w \in Workers, CountUp(w) PROVE StopInv'
  BY <1>6 DEF CountUp
<1>7. ASSUME NEW w \in Workers, Run(w) PROVE StopInv'
  BY <1>7 DEF Run
<1>8. ASSUME NEW w \in Workers, CountDown(w) PROVE StopInv'
  BY <1>8 DEF CountDown
<1>9. ASSUME NEW w \in Workers, NotifyWaiters(w) PROVE StopInv'
  BY <1>9 DEF NotifyWaiters
<1>10. ASSUME NEW p \in Workers \cup Clients, Spurious(p) PROVE StopInv'
  BY <1>10 DEF Spurious
<1>11. ASSUME NEW c \in Clients, NEW t \in Tasks, Submit(c, t) PROVE StopInv'
  BY <1>11 DEF Submit
<1>12. ASSUME NEW c \in Clients, WakeOne(c) PROVE StopInv'
  BY <1>12 DEF WakeOne
<1>13. ASSUME NEW c \in Clients, WaitAll(c) PROVE StopInv'
  BY <1>13 DEF WaitAll
<1>14. ASSUME NEW c \in Clients, WaitTest(c) PROVE StopInv'
  BY <1>14 DEF WaitTest
<1>15. ASSUME NEW c \in Clients, WaitBlock(c) PROVE StopInv'
  BY <1>15 DEF WaitBlock
<1>16. CASE StoreStop
  BY <1>16 DEF StoreStop
<1>17. CASE NotifyAll
  BY <1>17 DEF NotifyAll
<1>18. CASE Join
  BY <1>18 DEF Join
<1> QED
  BY <1>1, <1>2, <1>3, <1>4, <1>5, <1>6, <1>7, <1>8,
     <1>9, <1>10, <1>11, <1>12, <1>13, <1>14, <1>15, <1>16, <1>17, <1>18
  DEF Next, Worker, InCall

(* A queued task keeps a worker up or a notification pending. *)
LEMMA NextNoTaskForgotten == IInv /\ Next => NoTaskForgotten'
<1> SUFFICES ASSUME IInv, Next PROVE NoTaskForgotten'
  OBVIOUS
<1> USE ThreadPoolAssumption DEF IInv, TypeOK, MutexInv, StopInv, NoTaskForgotten
<1>1. ASSUME NEW w \in Workers, Lock(w) PROVE NoTaskForgotten'
  BY <1>1 DEF Lock
<1>2. ASSUME NEW w \in Workers, TestFails(w) PROVE NoTaskForgotten'
  BY <1>2 DEF TestFails
<1>3. ASSUME NEW w \in Workers, Block(w) PROVE NoTaskForgotten'
  BY <1>3 DEF Block
<1>4. ASSUME NEW w \in Workers, Exit(w) PROVE NoTaskForgotten'
  BY <1>4 DEF Exit
<1>5. ASSUME NEW w \in Workers, Pop(w) PROVE NoTaskForgotten'
  BY <1>5 DEF Pop
<1>6. ASSUME NEW w \in Workers, CountUp(w) PROVE NoTaskForgotten'
  BY <1>6 DEF CountUp
<1>7. ASSUME NEW w \in Workers, Run(w) PROVE NoTaskForgotten'
  BY <1>7 DEF Run
<1>8. ASSUME NEW w \in Workers, CountDown(w) PROVE NoTaskForgotten'
  BY <1>8 DEF CountDown
<1>9. ASSUME NEW w \in Workers, NotifyWaiters(w) PROVE NoTaskForgotten'
  BY <1>9 DEF NotifyWaiters
<1>10. ASSUME NEW p \in Workers \cup Clients, Spurious(p) PROVE NoTaskForgotten'
  BY <1>10 DEF Spurious
<1>11. ASSUME NEW c \in Clients, NEW t \in Tasks, Submit(c, t) PROVE NoTaskForgotten'
  BY <1>11 DEF Submit
<1>12. ASSUME NEW c \in Clients, WakeOne(c) PROVE NoTaskForgotten'
  BY <1>12 DEF WakeOne
<1>13. ASSUME NEW c \in Clients, WaitAll(c) PROVE NoTaskForgotten'
  BY <1>13 DEF WaitAll
<1>14. ASSUME NEW c \in Clients, WaitTest(c) PROVE NoTaskForgotten'
  BY <1>14 DEF WaitTest
<1>15. ASSUME NEW c \in Clients, WaitBlock(c) PROVE NoTaskForgotten'
  BY <1>15 DEF WaitBlock
<1>16. CASE StoreStop
  BY <1>16 DEF StoreStop
<1>17. CASE NotifyAll
  BY <1>17 DEF NotifyAll
<1>18. CASE Join
  BY <1>18 DEF Join
<1> QED
  BY <1>1, <1>2, <1>3, <1>4, <1>5, <1>6, <1>7, <1>8,
     <1>9, <1>10, <1>11, <1>12, <1>13, <1>14, <1>15, <1>16, <1>17, <1>18
  DEF Next, Worker, InCall

(* active_tasks_ counts the workers between CountUp and CountDown.         *)
LEMMA NextActiveInv == IInv /\ ActiveInv /\ Next => ActiveInv'
<1> SUFFICES ASSUME IInv, ActiveInv, Next PROVE ActiveInv'
  OBVIOUS
<1> USE ThreadPoolAssumption DEF IInv, TypeOK
<1>1. IsFiniteSet(Counted)
  BY FS_Subset DEF Counted
<1>2. ASSUME NEW w \in Workers, CountUp(w) PROVE ActiveInv'
  <2>1. w \notin Counted /\ Counted' = Counted \cup {w} /\ active' = active + 1
    BY <1>2 DEF CountUp, Counted
  <2>2. Cardinality(Counted') = Cardinality(Counted) + 1
    BY <1>1, <2>1, FS_AddElement
  <2> QED BY <2>1, <2>2 DEF ActiveInv
<1>3. ASSUME NEW w \in Workers, CountDown(w) PROVE ActiveInv'
  <2>1. w \in Counted /\ Counted' = Counted \ {w} /\ active' = active - 1
    BY <1>3 DEF CountDown, Counted
  <2>2. Cardinality(Counted') = Cardinality(Counted) - 1
    BY <1>1, <2>1, FS_RemoveElement
  <2> QED BY <2>1, <2>2 DEF ActiveInv
<1>4. SUFFICES ASSUME Counted' = Counted /\ active' = active
               PROVE  ActiveInv'
  <2>1. ASSUME NEW w \in Workers,
               Lock(w) \/ TestFails(w) \/ Block(w) \/ Exit(w) \/ Pop(w)
               \/ Run(w) \/ NotifyWaiters(w)
        PROVE  Counted' = Counted /\ active' = active
    BY <2>1 DEF Lock, TestFails, Block, Exit, Pop, Run, NotifyWaiters, Counted
  <2>2. ASSUME NEW p \in Workers \cup Clients, Spurious(p)
        PROVE  Counted' = Counted /\ active' = active
    BY <2>2 DEF Spurious, Counted
  <2>3. ASSUME NEW c \in Clients,
               (\E t \in Tasks : Submit(c, t)) \/ WaitAll(c) \/ InCall(c)
        PROVE  Counted' = Counted /\ active' = active
    BY <2>3 DEF Submit, WaitAll, InCall, WakeOne, WaitTest, WaitBlock, Counted
  <2>4. CASE StoreStop \/ NotifyAll \/ Join
    BY <2>4 DEF StoreStop, NotifyAll, Join, Counted
  <2> QED
    BY <1>2, <1>3, <1>4, <2>1, <2>2, <2>3, <2>4 DEF Next, Worker
<1> QED BY <1>4 DEF ActiveInv
-----------------------------------------------------------------------------
(* IInv is an invariant, whatever the threads do.                          *)
THEOREM PoolInvariant == Spec => [](IInv /\ ActiveInv)
<1>1. Init => IInv /\ ActiveInv
  <2>1. ASSUME Init PROVE Counted = {} /\ active = 0
    BY <2>1, ThreadPoolAssumption DEF Init, Counted
  <2> QED BY <2>1, InitIInv, FS_EmptySet DEF ActiveInv
<1>2. IInv /\ ActiveInv /\ [Next]_vars => (IInv /\ ActiveInv)'
  <2> SUFFICES ASSUME IInv, ActiveInv, [Next]_vars PROVE (IInv /\ ActiveInv)'
    OBVIOUS
  <2>1. CASE Next
    BY <2>1, NextTypeOK, NextMutexInv, NextHeldInv, NextStopInv,
       NextNoTaskForgotten, NextActiveInv DEF IInv
  <2>2. CASE UNCHANGED vars
    BY <2>2 DEF vars, IInv, TypeOK, MutexInv, HeldInv, StopInv, Alive,
       NoTaskForgotten, ActiveInv, Counted
  <2> QED BY <2>1, <2>2
<1> QED BY <1>1, <1>2, PTL DEF Spec

(* The state of the pool is well typed.                                    *)
THEOREM TypeCorrect == Spec => []TypeOK
<1>1. IInv /\ ActiveInv => TypeOK
  BY DEF IInv
<1> QED BY <1>1, PoolInvariant, PTL

(* No interleaving of Submit's unlocked notify_one with the workers' waits *)
(* leaves a queued task with nobody up to take it.                         *)
THEOREM NoWakeUpLost == Spec => []NoTaskForgotten
<1>1. IInv /\ ActiveInv => NoTaskForgotten
  BY DEF IInv
<1> QED BY <1>1, PoolInvariant, PTL

(* The destructor runs every submitted task before it returns.             *)
THEOREM DestructorDrains == Spec => []DrainedBeforeExit
<1>1. IInv /\ ActiveInv => DrainedBeforeExit
  BY ThreadPoolAssumption
  DEF IInv, StopInv, HeldInv, DrainedBeforeExit, Submitted, Queued, Held
<1> QED BY <1>1, PoolInvariant, PTL

(* A task that WaitAll's predicate overlooks is in the window between Pop  *)
(* and CountUp.                                                            *)
THEOREM QuietWindow == Spec => []QuietUpToPopped
<1>1. IInv /\ ActiveInv => QuietUpToPopped
  <2> SUFFICES ASSUME IInv, ActiveInv, Quiet,
                      NEW w \in Workers, held[w] # NoTask
               PROVE  pc[w] = "popped"
    BY DEF QuietUpToPopped
  <2>1. Counted = {}
    BY ThreadPoolAssumption, FS_Subset, FS_EmptySet DEF ActiveInv, Quiet, Counted
  <2> QED BY <2>1 DEF IInv, HeldInv, Counted
<1> QED BY <1>1, PoolInvariant, PTL

(* The pool implements the task service: FIFO, each task once.             *)
THEOREM PoolImplementsService == Spec => Service!Safe
<1>1. Init => Service!Init
  BY DEF Init, Service!Init
<1>2. IInv /\ [Next]_vars => [Service!Next]_(Service!svars)
  <2> SUFFICES ASSUME IInv, [Next]_vars
               PROVE  Service!Next \/ UNCHANGED Service!svars
    OBVIOUS
  <2> USE ThreadPoolAssumption DEF IInv, TypeOK, Service!svars
  <2>1. ASSUME NEW w \in Workers, Pop(w) PROVE Service!Start(w)
    BY <2>1 DEF Pop, HeldInv, Service!Start
  <2>2. ASSUME NEW w \in Workers, Run(w) PROVE Service!Finish(w)
    BY <2>2 DEF Run, HeldInv, Service!Finish
  <2>3. ASSUME NEW c \in Clients, NEW t \in Tasks, Submit(c, t)
        PROVE  Service!Submit(t)
    BY <2>3 DEF Submit, Submitted, Queued, Held,
       Service!Submit, Service!Queued, Service!Started
  <2>4. ASSUME NEW w \in Workers,
               Lock(w) \/ TestFails(w) \/ Block(w) \/ Exit(w)
               \/ CountUp(w) \/ CountDown(w) \/ NotifyWaiters(w)
        PROVE  UNCHANGED Service!svars
    BY <2>4 DEF Lock, TestFails, Block, Exit, CountUp, CountDown, NotifyWaiters
  <2>5. ASSUME NEW p \in Workers \cup Clients, Spurious(p)
        PROVE  UNCHANGED Service!svars
    BY <2>5 DEF Spurious
  <2>6. ASSUME NEW c \in Clients, WaitAll(c) \/ InCall(c)
        PROVE  UNCHANGED Service!svars
    BY <2>6 DEF WaitAll, InCall, WakeOne, WaitTest, WaitBlock
  <2>7. CASE StoreStop \/ NotifyAll \/ Join
    BY <2>7 DEF StoreStop, NotifyAll, Join
  <2>8. CASE UNCHANGED vars
    BY <2>8 DEF vars
  <2> QED
    BY <2>1, <2>2, <2>3, <2>4, <2>5, <2>6, <2>7, <2>8
    DEF Next, Worker, Service!Next
<1> QED BY <1>1, <1>2, PoolInvariant, PTL DEF Spec, Service!Safe
=============================================================================
