---------------------------- MODULE TaskService ----------------------------
(***************************************************************************)
(* What a client of the thread pool may rely on: tasks are started in the  *)
(* order they were submitted, each by one worker, and each once.           *)
(* ThreadPool implements this specification.                               *)
(***************************************************************************)
EXTENDS Naturals, Sequences

CONSTANTS Workers,   \* the pool's threads
          Tasks,     \* the tasks clients may submit
          NoTask     \* not a task

VARIABLES waiting,   \* the tasks submitted and not started, oldest first
          running,   \* the task each worker runs, or NoTask
          finished   \* the tasks whose futures are ready

svars == <<waiting, running, finished>>

Queued  == {waiting[i] : i \in DOMAIN waiting}
Started == {running[w] : w \in Workers} \ {NoTask}

Init == /\ waiting = <<>>
        /\ running = [w \in Workers |-> NoTask]
        /\ finished = {}

Submit(t) == /\ t \notin Queued \cup Started \cup finished
             /\ waiting' = Append(waiting, t)
             /\ UNCHANGED <<running, finished>>

Start(w) == /\ running[w] = NoTask
            /\ waiting # <<>>
            /\ running' = [running EXCEPT ![w] = Head(waiting)]
            /\ waiting' = Tail(waiting)
            /\ UNCHANGED finished

Finish(w) == /\ running[w] # NoTask
             /\ finished' = finished \cup {running[w]}
             /\ running' = [running EXCEPT ![w] = NoTask]
             /\ UNCHANGED waiting

Next == \/ \E t \in Tasks : Submit(t)
        \/ \E w \in Workers : Start(w) \/ Finish(w)

Safe == Init /\ [][Next]_svars

(* Some worker always starts the oldest task, and every task terminates.   *)
Spec == /\ Safe
        /\ WF_svars(\E w \in Workers : Start(w))
        /\ \A w \in Workers : WF_svars(Finish(w))
=============================================================================
