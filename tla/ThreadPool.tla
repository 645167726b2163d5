---------------------------- MODULE ThreadPool -----------------------------
(***************************************************************************)
(* slothdb::ThreadPool: a FIFO of tasks, worker threads asleep on cv_,     *)
(* clients that Submit and WaitAll, and the destructor.  A step is a       *)
(* critical section, an atomic operation or a notification; a wait on a    *)
(* condition variable takes three: test the predicate under the mutex,     *)
(* block (which releases the mutex), wake up.                              *)
(***************************************************************************)
EXTENDS Integers, Sequences, FiniteSets

CONSTANTS Workers,   \* workers_
          Clients,   \* the threads that hold a reference to the pool
          Owner,     \* the client that destroys the pool
          Tasks,     \* the tasks clients may submit
          NoTask, Nobody

(* The constructor replaces a thread count of 0 by the hardware's, or by 4. *)
ASSUME ThreadPoolAssumption ==
  /\ Workers # {} /\ IsFiniteSet(Workers)
  /\ Owner \in Clients
  /\ NoTask \notin Tasks
  /\ Nobody \notin Workers \cup Clients
  /\ Workers \cap Clients = {}

VARIABLES tasks,      \* tasks_
          stop,       \* stop_
          active,     \* active_tasks_
          mutex,      \* the holder of mutex_, or Nobody
          waitMutex,  \* the holder of wait_mutex_, or Nobody
          pc,         \* where each thread is
          held,       \* the local `task` of each worker, or NoTask
          done        \* the tasks whose futures are ready

vars == <<tasks, stop, active, mutex, waitMutex, pc, held, done>>

WorkerPC == {"loop", "test", "block", "asleep", "popped", "running", "ran",
             "notify", "exited"}
ClientPC == {"idle", "wake_one", "wait_test", "wait_block", "wait_asleep",
             "stopping", "joining", "gone"}

Queued    == {tasks[i] : i \in DOMAIN tasks}
Held      == {held[w] : w \in Workers} \ {NoTask}
Submitted == Queued \cup Held \cup done

Goto(p, label) == pc' = [pc EXCEPT ![p] = label]

(* The destructor runs when no other thread uses the pool any more.        *)
Alive == pc[Owner] \notin {"stopping", "joining", "gone"}

Init == /\ tasks = <<>>
        /\ stop = FALSE
        /\ active = 0
        /\ mutex = Nobody
        /\ waitMutex = Nobody
        /\ pc = [p \in Workers \cup Clients |->
                   IF p \in Workers THEN "loop" ELSE "idle"]
        /\ held = [w \in Workers |-> NoTask]
        /\ done = {}
-----------------------------------------------------------------------------
(* WorkerLoop                                                              *)

Lock(w) == /\ pc[w] = "loop"
           /\ mutex = Nobody
           /\ mutex' = w
           /\ Goto(w, "test")
           /\ UNCHANGED <<tasks, stop, active, waitMutex, held, done>>

(* The wait predicate is false: cv_.wait is going to block.                *)
TestFails(w) == /\ pc[w] = "test"
                /\ ~stop /\ tasks = <<>>
                /\ Goto(w, "block")
                /\ UNCHANGED <<tasks, stop, active, mutex, waitMutex, held, done>>

Block(w) == /\ pc[w] = "block"
            /\ mutex' = Nobody
            /\ Goto(w, "asleep")
            /\ UNCHANGED <<tasks, stop, active, waitMutex, held, done>>

(* Fault: a worker leaves as soon as stop_ is set.                         *)
ExitAtOnce(w) == /\ pc[w] = "test"
                 /\ stop
                 /\ mutex' = Nobody
                 /\ Goto(w, "exited")
                 /\ UNCHANGED <<tasks, stop, active, waitMutex, held, done>>

Exit(w) == /\ pc[w] = "test"
           /\ stop /\ tasks = <<>>
           /\ mutex' = Nobody
           /\ Goto(w, "exited")
           /\ UNCHANGED <<tasks, stop, active, waitMutex, held, done>>

(* Fault: the newest task goes first.                                      *)
PopNewest(w) == /\ pc[w] = "test"
                /\ tasks # <<>>
                /\ held' = [held EXCEPT ![w] = tasks[Len(tasks)]]
                /\ tasks' = SubSeq(tasks, 1, Len(tasks) - 1)
                /\ mutex' = Nobody
                /\ Goto(w, "popped")
                /\ UNCHANGED <<stop, active, waitMutex, done>>

Pop(w) == /\ pc[w] = "test"
          /\ tasks # <<>>
          /\ held' = [held EXCEPT ![w] = Head(tasks)]
          /\ tasks' = Tail(tasks)
          /\ mutex' = Nobody
          /\ Goto(w, "popped")
          /\ UNCHANGED <<stop, active, waitMutex, done>>

CountUp(w) == /\ pc[w] = "popped"
              /\ active' = active + 1
              /\ Goto(w, "running")
              /\ UNCHANGED <<tasks, stop, mutex, waitMutex, held, done>>

(* The packaged task keeps a value or an exception for its future.         *)
Run(w) == /\ pc[w] = "running"
          /\ done' = done \cup {held[w]}
          /\ held' = [held EXCEPT ![w] = NoTask]
          /\ Goto(w, "ran")
          /\ UNCHANGED <<tasks, stop, active, mutex, waitMutex>>

CountDown(w) == /\ pc[w] = "ran"
                /\ active' = active - 1
                /\ Goto(w, "notify")
                /\ UNCHANGED <<tasks, stop, mutex, waitMutex, held, done>>

(* wait_cv_.notify_all(), without wait_mutex_: only the clients already    *)
(* blocked are woken.                                                      *)
NotifyWaiters(w) ==
  /\ pc[w] = "notify"
  /\ pc' = [p \in DOMAIN pc |->
              IF p = w THEN "loop"
              ELSE IF pc[p] = "wait_asleep" THEN "wait_test" ELSE pc[p]]
  /\ UNCHANGED <<tasks, stop, active, mutex, waitMutex, held, done>>

(* The standard lets a condition variable wake a thread for no reason.     *)
Spurious(p) == /\ pc[p] \in {"asleep", "wait_asleep"}
               /\ Goto(p, IF pc[p] = "asleep" THEN "loop" ELSE "wait_test")
               /\ UNCHANGED <<tasks, stop, active, mutex, waitMutex, held, done>>
-----------------------------------------------------------------------------
(* Submit                                                                  *)

Submit(c, t) == /\ pc[c] = "idle" /\ Alive
                /\ mutex = Nobody
                /\ t \notin Submitted
                /\ tasks' = Append(tasks, t)
                /\ Goto(c, "wake_one")
                /\ UNCHANGED <<stop, active, mutex, waitMutex, held, done>>

(* Fault: workers and clients sleep on one condition variable.             *)
WakeAny(c) ==
  /\ pc[c] = "wake_one"
  /\ LET asleep == {p \in DOMAIN pc : pc[p] \in {"asleep", "wait_asleep"}}
     IN  \/ /\ asleep = {}
            /\ Goto(c, "idle")
         \/ \E p \in asleep :
              pc' = [pc EXCEPT ![c] = "idle", ![p] = IF p \in Workers THEN "loop" ELSE "wait_test"]
  /\ UNCHANGED <<tasks, stop, active, mutex, waitMutex, held, done>>

(* cv_.notify_one(), after mutex_ is released.                             *)
WakeOne(c) ==
  /\ pc[c] = "wake_one"
  /\ LET asleep == {w \in Workers : pc[w] = "asleep"}
     IN  \/ /\ asleep = {}
            /\ Goto(c, "idle")
         \/ \E w \in asleep : pc' = [pc EXCEPT ![c] = "idle", ![w] = "loop"]
  /\ UNCHANGED <<tasks, stop, active, mutex, waitMutex, held, done>>
-----------------------------------------------------------------------------
(* WaitAll                                                                 *)

WaitAll(c) == /\ pc[c] = "idle" /\ Alive
              /\ Goto(c, "wait_test")
              /\ UNCHANGED <<tasks, stop, active, mutex, waitMutex, held, done>>

(* Fault: WaitAll looks at the queue only.                                 *)
QueueEmpty == tasks = <<>>

Quiet == tasks = <<>> /\ active = 0

(* The predicate locks mutex_ inside wait_mutex_.                          *)
WaitTest(c) ==
  /\ pc[c] = "wait_test"
  /\ waitMutex = Nobody /\ mutex = Nobody
  /\ \/ Quiet  /\ Goto(c, "idle") /\ UNCHANGED waitMutex
     \/ ~Quiet /\ Goto(c, "wait_block") /\ waitMutex' = c
  /\ UNCHANGED <<tasks, stop, active, mutex, held, done>>

WaitBlock(c) == /\ pc[c] = "wait_block"
                /\ waitMutex' = Nobody
                /\ Goto(c, "wait_asleep")
                /\ UNCHANGED <<tasks, stop, active, mutex, held, done>>
-----------------------------------------------------------------------------
(* ~ThreadPool: stop_ is stored without mutex_.                            *)

StoreStop == /\ \A c \in Clients : pc[c] = "idle"
             /\ stop' = TRUE
             /\ Goto(Owner, "stopping")
             /\ UNCHANGED <<tasks, active, mutex, waitMutex, held, done>>

(* Fault: notify_one in the destructor.                                    *)
NotifyOne ==
  /\ pc[Owner] = "stopping"
  /\ LET asleep == {w \in Workers : pc[w] = "asleep"}
     IN  \/ /\ asleep = {}
            /\ Goto(Owner, "joining")
         \/ \E w \in asleep : pc' = [pc EXCEPT ![Owner] = "joining", ![w] = "loop"]
  /\ UNCHANGED <<tasks, stop, active, mutex, waitMutex, held, done>>

NotifyAll ==
  /\ pc[Owner] = "stopping"
  /\ pc' = [p \in DOMAIN pc |->
              IF p = Owner THEN "joining"
              ELSE IF pc[p] = "asleep" THEN "loop" ELSE pc[p]]
  /\ UNCHANGED <<tasks, stop, active, mutex, waitMutex, held, done>>

Join == /\ pc[Owner] = "joining"
        /\ \A w \in Workers : pc[w] = "exited"
        /\ Goto(Owner, "gone")
        /\ UNCHANGED <<tasks, stop, active, mutex, waitMutex, held, done>>
-----------------------------------------------------------------------------
Worker(w) == \/ Lock(w) \/ TestFails(w) \/ Block(w) \/ Exit(w) \/ Pop(w)
             \/ CountUp(w) \/ Run(w) \/ CountDown(w) \/ NotifyWaiters(w)

(* What a client does once it has entered a call of the pool.              *)
InCall(c) == WakeOne(c) \/ WaitTest(c) \/ WaitBlock(c)

Next == \/ \E w \in Workers : Worker(w)
        \/ \E c \in Clients, t \in Tasks : Submit(c, t)
        \/ \E c \in Clients : WaitAll(c) \/ InCall(c)
        \/ \E p \in Workers \cup Clients : Spurious(p)
        \/ StoreStop \/ NotifyAll \/ Join

Spec == Init /\ [][Next]_vars

(* Threads are scheduled, a mutex is granted to every thread that keeps    *)
(* asking, and tasks terminate.  No client has to call anything, and a     *)
(* spurious wake-up need not happen.                                       *)
Fairness == /\ \A w \in Workers : SF_vars(Lock(w)) /\ WF_vars(Worker(w))
            /\ \A c \in Clients : SF_vars(InCall(c))
            /\ WF_vars(NotifyAll) /\ WF_vars(Join)

FairSpec == Spec /\ Fairness
-----------------------------------------------------------------------------
TypeOK == /\ tasks \in Seq(Tasks)
          /\ stop \in BOOLEAN
          /\ active \in Int
          /\ mutex \in Workers \cup {Nobody}
          /\ waitMutex \in Clients \cup {Nobody}
          /\ pc \in [Workers \cup Clients -> WorkerPC \cup ClientPC]
          /\ \A w \in Workers : pc[w] \in WorkerPC
          /\ \A c \in Clients : pc[c] \in ClientPC
          /\ held \in [Workers -> Tasks \cup {NoTask}]
          /\ done \subseteq Tasks

(* A task in the queue never waits for a wake-up that will not come: some  *)
(* worker is up, or a Submit has yet to call notify_one.  Two Submits, two *)
(* sleepers and a busy worker can interleave in any order.                 *)
NoTaskForgotten ==
  tasks # <<>> => \/ \E w \in Workers : pc[w] \notin {"block", "asleep", "exited"}
                  \/ \E c \in Clients : pc[c] = "wake_one"

(* The destructor drains the queue: no worker has left, and no join has    *)
(* returned, while a submitted task is still queued or, once all have      *)
(* left, unfinished.                                                       *)
DrainedBeforeExit ==
  /\ (\E w \in Workers : pc[w] = "exited") => tasks = <<>>
  /\ pc[Owner] = "gone" => Submitted = done

(* What WaitAll's predicate does tell: a task it misses is one a worker    *)
(* has popped and not yet counted.                                         *)
QuietUpToPopped ==
  Quiet => \A w \in Workers : held[w] # NoTask => pc[w] = "popped"

(* The pool starts tasks in submission order, each once.                   *)
Service == INSTANCE TaskService WITH waiting <- tasks, running <- held,
                                     finished <- done
RunsInOrderOnce == Service!Spec

(* Every submitted task runs, also those still queued when the destructor  *)
(* starts.                                                                 *)
EveryTaskFinishes == \A t \in Tasks : t \in Submitted ~> t \in done

(* The destructor returns, unless its store of stop_ fell between a        *)
(* worker's test of the predicate and its going to sleep.                  *)
JoinsUnlessMissed ==
  (pc[Owner] = "stopping" /\ \A w \in Workers : pc[w] # "block")
    ~> pc[Owner] = "gone"
(* A WaitAll returns once all tasks are done, unless a notification fell    *)
(* between its test of the predicate and its going to sleep.               *)
WaitsUnlessMissed ==
  \A c \in Clients :
    [](pc[c] = "wait_block" => \A w \in Workers : pc[w] # "notify")
      => (pc[c] = "wait_test" ~> pc[c] = "idle" \/ Submitted # done)

(* Nothing but a missed notification keeps the destructor or a WaitAll.     *)
ReturnsUnlessMissed == JoinsUnlessMissed /\ WaitsUnlessMissed
-----------------------------------------------------------------------------
(* A claim of the sources that the code does not keep: a pool that goes    *)
(* out of scope is destroyed (test_parallel.cpp).                          *)
DestructorReturns == pc[Owner] = "stopping" ~> pc[Owner] = "gone"
=============================================================================
