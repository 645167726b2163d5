------------------------- MODULE ParallelScanFilter ------------------------
(***************************************************************************)
(* ParallelExecutor::ParallelScanFilter: a caller submits tasks that share *)
(* its scan state and its collector by reference, and waits for their      *)
(* futures one after the other.  The pool is the one TaskService promises. *)
(*                                                                         *)
(* A morsel is a number; what a task does with it is to filter, project    *)
(* and collect its rows under the collector's lock, or to throw.           *)
(***************************************************************************)
EXTENDS Integers, Sequences

CONSTANTS Callers,   \* the calls of ParallelScanFilter
          Workers,   \* the threads of the pool
          Threads,   \* the number of tasks of each call
          Morsels,   \* the number of morsels of the table
          Passing,   \* those with a row that passes the filter
          Risky,     \* those the filter or a projection of a call may throw on
          NoTask, None

ASSUME ParallelScanFilterAssumption ==
  /\ Threads \in [Callers -> Nat \ {0}]
  /\ Morsels \in Nat
  /\ Passing \subseteq 0 .. Morsels - 1
  /\ Risky \in [Callers -> SUBSET (0 .. Morsels - 1)]
  /\ None \notin Int

VARIABLES waiting, running, finished,  \* the pool, as in TaskService
          call,         \* where each caller is
          submitted,    \* how many tasks it has submitted
          ready,        \* how many futures it has got a value from
          next_morsel,  \* scan_state->next_morsel
          morsel,       \* what each task has claimed and not dealt with
          failed,       \* the tasks whose future holds an exception
          collected     \* how often each morsel is in the collector

pool == <<waiting, running, finished>>
own  == <<call, submitted, ready>>
scan == <<next_morsel, morsel, failed, collected>>
vars == <<pool, own, scan>>

(* A task is a closure over the locals of its caller.                      *)
Lambda == UNION {{c} \X (1 .. Threads[c]) : c \in Callers}
CallerOf(t) == t[1]

ASSUME NoTaskAssumption == NoTask \notin Lambda

Pool == INSTANCE TaskService WITH Tasks <- Lambda

Init == /\ Pool!Init
        /\ call = [c \in Callers |-> "submit"]
        /\ submitted = [c \in Callers |-> 0]
        /\ ready = [c \in Callers |-> 0]
        /\ next_morsel = [c \in Callers |-> 0]
        /\ morsel = [t \in Lambda |-> None]
        /\ failed = {}
        /\ collected = [c \in Callers |-> [m \in 0 .. Morsels - 1 |-> 0]]
-----------------------------------------------------------------------------
(* The caller                                                              *)

Submit(c) ==
  /\ call[c] = "submit"
  /\ Pool!Submit(<<c, submitted[c] + 1>>)
  /\ submitted' = [submitted EXCEPT ![c] = @ + 1]
  /\ call' = [call EXCEPT ![c] = IF submitted'[c] = Threads[c] THEN "get" ELSE "submit"]
  /\ UNCHANGED <<ready, scan>>

(* Fault: only the first future is waited for.                             *)
GetFirst(c) ==
  LET t == <<c, 1>>
  IN  /\ call[c] = "get" /\ t \in finished
      /\ ready' = [ready EXCEPT ![c] = @ + 1]
      /\ call' = [call EXCEPT ![c] = IF t \in failed THEN "threw" ELSE "returned"]
      /\ UNCHANGED <<pool, submitted, scan>>

(* Fault: f.wait() in the place of f.get().                                *)
GetNoRethrow(c) ==
  LET t == <<c, ready[c] + 1>>
  IN  /\ call[c] = "get" /\ t \in finished
      /\ ready' = [ready EXCEPT ![c] = @ + 1]
      /\ call' = [call EXCEPT ![c] = IF ready'[c] = Threads[c] THEN "returned" ELSE "get"]
      /\ UNCHANGED <<pool, submitted, scan>>

(* f.get() of the next future: it throws what the task threw, and the      *)
(* other futures, the scan state and the collector are destroyed.          *)
Get(c) ==
  LET t == <<c, ready[c] + 1>>
  IN  /\ call[c] = "get" /\ t \in finished
      /\ IF t \in failed
         THEN call' = [call EXCEPT ![c] = "threw"] /\ UNCHANGED ready
         ELSE /\ ready' = [ready EXCEPT ![c] = @ + 1]
              /\ call' = [call EXCEPT ![c] = IF ready'[c] = Threads[c] THEN "returned" ELSE "get"]
      /\ UNCHANGED <<pool, submitted, scan>>
-----------------------------------------------------------------------------
(* The tasks                                                               *)

LocalsAlive(c) == call[c] \in {"submit", "get"}

Start(w) == /\ Pool!Start(w)
            /\ UNCHANGED <<own, scan>>

(* Fault: the increment is a load and a store, and the load may be stale.  *)
ClaimStale(w, t) ==
  LET c == CallerOf(t)
  IN  /\ running[w] = t /\ morsel[t] = None /\ LocalsAlive(c)
      /\ \E seen \in {next_morsel[c] - 1, next_morsel[c]} \cap Nat :
           /\ next_morsel' = [next_morsel EXCEPT ![c] = seen + 1]
           /\ IF seen < Morsels
              THEN morsel' = [morsel EXCEPT ![t] = seen] /\ UNCHANGED pool
              ELSE Pool!Finish(w) /\ UNCHANGED morsel
      /\ UNCHANGED <<own, failed, collected>>

(* Fault: the call that finds no morsel left returns true.                 *)
ClaimAgain(w, t) ==
  LET c == CallerOf(t)
  IN  /\ running[w] = t /\ morsel[t] = None /\ LocalsAlive(c)
      /\ IF next_morsel[c] < Morsels
         THEN /\ next_morsel' = [next_morsel EXCEPT ![c] = @ + 1]
              /\ morsel' = [morsel EXCEPT ![t] = next_morsel[c]]
         ELSE UNCHANGED <<next_morsel, morsel>>
      /\ UNCHANGED <<pool, own, failed, collected>>

(* ParallelScan: next_morsel.fetch_add, and the end if there are no more.  *)
Claim(w, t) ==
  LET c == CallerOf(t)
  IN  /\ running[w] = t /\ morsel[t] = None /\ LocalsAlive(c)
      /\ next_morsel' = [next_morsel EXCEPT ![c] = @ + 1]
      /\ IF next_morsel[c] < Morsels
         THEN morsel' = [morsel EXCEPT ![t] = next_morsel[c]] /\ UNCHANGED pool
         ELSE Pool!Finish(w) /\ UNCHANGED morsel
      /\ UNCHANGED <<own, failed, collected>>

(* The rows that pass are added to the collector.                          *)
Collect(w, t) ==
  LET c == CallerOf(t)
      m == morsel[t]
  IN  /\ running[w] = t /\ m # None /\ LocalsAlive(c)
      /\ collected' = IF m \in Passing THEN [collected EXCEPT ![c][m] = @ + 1] ELSE collected
      /\ morsel' = [morsel EXCEPT ![t] = None]
      /\ UNCHANGED <<pool, own, next_morsel, failed>>

Throw(w, t) ==
  /\ running[w] = t /\ morsel[t] # None /\ morsel[t] \in Risky[CallerOf(t)]
  /\ LocalsAlive(CallerOf(t))
  /\ Pool!Finish(w)
  /\ failed' = failed \cup {t}
  /\ morsel' = [morsel EXCEPT ![t] = None]
  /\ UNCHANGED <<own, next_morsel, collected>>

(* The caller is gone: what the task does with its locals is undefined.    *)
(* It may end, or go on for ever.                                          *)
Dangle(w, t) == /\ running[w] = t /\ ~LocalsAlive(CallerOf(t))
                /\ Pool!Finish(w)
                /\ UNCHANGED <<own, scan>>

Work(w) == \E t \in Lambda : Claim(w, t) \/ Collect(w, t) \/ Throw(w, t)

Done == /\ \A c \in Callers : ~LocalsAlive(c)
        /\ UNCHANGED vars

Next == \/ \E c \in Callers : Submit(c) \/ Get(c)
        \/ \E w \in Workers : Start(w) \/ Work(w) \/ \E t \in Lambda : Dangle(w, t)
        \/ Done

Spec == Init /\ [][Next]_vars

(* Threads are scheduled, and the pool starts its tasks.                   *)
Fairness == /\ \A c \in Callers : WF_vars(Submit(c) \/ Get(c))
            /\ WF_vars(\E w \in Workers : Start(w))
            /\ \A w \in Workers : WF_vars(Work(w))

FairSpec == Spec /\ Fairness
-----------------------------------------------------------------------------
TypeOK == /\ waiting \in Seq(Lambda)
          /\ running \in [Workers -> Lambda \cup {NoTask}]
          /\ finished \subseteq Lambda
          /\ call \in [Callers -> {"submit", "get", "returned", "threw"}]
          /\ submitted \in [Callers -> Nat]
          /\ \A c \in Callers : call[c] = "submit" => submitted[c] < Threads[c]
          /\ ready \in [Callers -> Nat]
          /\ next_morsel \in [Callers -> Nat]
          /\ morsel \in [Lambda -> (0 .. Morsels - 1) \cup {None}]
          /\ failed \subseteq Lambda
          /\ collected \in [Callers -> [0 .. Morsels - 1 -> Nat]]

(* A call that returns has collected every row that passes exactly once,   *)
(* however the tasks interleave and whichever of them was started last.    *)
ReturnIsComplete ==
  \A c \in Callers : call[c] = "returned" =>
    \A m \in 0 .. Morsels - 1 : collected[c][m] = IF m \in Passing THEN 1 ELSE 0

(* A call returns only if no task of it threw: no error is swallowed.      *)
NoErrorSwallowed ==
  \A c \in Callers : call[c] = "returned" =>
    \A i \in 1 .. Threads[c] : <<c, i>> \notin failed

(* "Wait for all tasks to complete.": no task uses the locals of a call    *)
(* that has returned.  A call that throws leaves its tasks behind.         *)
LocalsOutliveTasks ==
  \A c \in Callers : call[c] = "returned" =>
    \A i \in 1 .. Threads[c] : <<c, i>> \in finished

(* Every call ends, also when two calls share the workers, unless another  *)
(* one threw: a task it left behind may keep a worker for ever.            *)
CallEnds ==
  \A c \in Callers : <>(\/ call[c] \in {"returned", "threw"}
                        \/ \E d \in Callers \ {c} : call[d] = "threw")
=============================================================================
