---------------------- MODULE ParallelScanFilterProofs ---------------------
(* A call of ParallelScanFilter that returns has collected the result of   *)
(* the filter, for any number of calls, tasks, workers and morsels.        *)
EXTENDS ParallelScanFilter, TLAPS

(* A task is in one place: queued once, run by one worker, or finished.    *)
OnePlace ==
  /\ \A i, j \in DOMAIN waiting : i # j => waiting[i] # waiting[j]
  /\ \A i \in DOMAIN waiting : waiting[i] \notin finished
  /\ \A w \in Workers : running[w] # NoTask =>
       /\ running[w] \notin finished
       /\ \A i \in DOMAIN waiting : waiting[i] # running[w]
       /\ \A v \in Workers : running[v] = running[w] => v = w

(* The futures a caller has got are those of tasks that ended well.        *)
GotValues ==
  \A c \in Callers :
    /\ ready[c] <= Threads[c]
    /\ \A i \in 1 .. ready[c] : <<c, i>> \in finished \ failed
    /\ call[c] = "returned" => ready[c] = Threads[c]

(* A claimed morsel belongs to one running task and is not collected yet,  *)
(* unless the call threw.                                                  *)
HeldByOne ==
  \A t \in Lambda : morsel[t] # None /\ call[CallerOf(t)] # "threw" =>
    /\ \E w \in Workers : running[w] = t
    /\ morsel[t] < next_morsel[CallerOf(t)]
    /\ collected[CallerOf(t)][morsel[t]] = 0
    /\ \A u \in Lambda : u # t /\ CallerOf(u) = CallerOf(t) => morsel[u] # morsel[t]

IsHeld(c, m) == \E t \in Lambda : CallerOf(t) = c /\ morsel[t] = m

(* Any other morsel is untouched, or collected if it passes, or has made a *)
(* task fail.                                                              *)
Accounted ==
  \A c \in Callers, m \in 0 .. Morsels - 1 :
    /\ m >= next_morsel[c] => collected[c][m] = 0
    /\ m < next_morsel[c] /\ ~IsHeld(c, m) =>
         \/ collected[c][m] = IF m \in Passing THEN 1 ELSE 0
         \/ \E t \in Lambda : CallerOf(t) = c /\ t \in failed

(* A task that ends well has found no morsel left.                         *)
EndsAtTheLast ==
  /\ failed \subseteq finished
  /\ \A t \in finished \ failed :
       call[CallerOf(t)] # "threw" => next_morsel[CallerOf(t)] >= Morsels

IInv == TypeOK /\ OnePlace /\ GotValues /\ HeldByOne /\ Accounted /\ EndsAtTheLast
-----------------------------------------------------------------------------
LEMMA CallerType == \A t \in Lambda : CallerOf(t) \in Callers
BY DEF Lambda, CallerOf

LEMMA LambdaMembers ==
  /\ \A t \in Lambda : \E i \in 1 .. Threads[CallerOf(t)] : t = <<CallerOf(t), i>>
  /\ \A c \in Callers : \A i \in 1 .. Threads[c] :
       <<c, i>> \in Lambda /\ CallerOf(<<c, i>>) = c
BY DEF Lambda, CallerOf

(* The task whose future a caller waits for is one of its own.             *)
LEMMA NextFuture ==
  ASSUME NEW c \in Callers, NEW i \in Nat, <<c, i>> \in Lambda
  PROVE  i \in 1 .. Threads[c]
BY DEF Lambda

(* What the invariant says of a call that has returned.                    *)
LEMMA Consequences == IInv => ReturnIsComplete /\ NoErrorSwallowed /\ LocalsOutliveTasks
<1> SUFFICES ASSUME IInv, NEW c \in Callers, call[c] = "returned"
             PROVE  /\ \A m \in 0 .. Morsels - 1 :
                         collected[c][m] = IF m \in Passing THEN 1 ELSE 0
                    /\ \A i \in 1 .. Threads[c] : <<c, i>> \in finished \ failed
  BY DEF ReturnIsComplete, NoErrorSwallowed, LocalsOutliveTasks
<1>1. \A i \in 1 .. Threads[c] : <<c, i>> \in finished \ failed
  BY DEF IInv, GotValues
<1>2. \A t \in Lambda : CallerOf(t) = c => t \in finished \ failed
  BY <1>1, LambdaMembers
<1>3. next_morsel[c] >= Morsels
  <2>1. 1 \in 1 .. Threads[c]
    BY ParallelScanFilterAssumption
  <2>2. <<c, 1>> \in Lambda /\ <<c, 1>> \in finished \ failed /\ CallerOf(<<c, 1>>) = c
    BY <1>1, <2>1, LambdaMembers
  <2> QED
    BY <2>2 DEF IInv, EndsAtTheLast
<1>4. \A m \in 0 .. Morsels - 1 : ~IsHeld(c, m)
  <2> SUFFICES ASSUME NEW m \in 0 .. Morsels - 1, NEW t \in Lambda,
                      CallerOf(t) = c, morsel[t] = m
               PROVE FALSE
    BY DEF IsHeld
  <2>1. morsel[t] # None
    BY ParallelScanFilterAssumption
  <2>2. PICK w \in Workers : running[w] = t
    BY <2>1 DEF IInv, HeldByOne
  <2>3. t # NoTask
    BY NoTaskAssumption
  <2> QED
    BY <1>2, <2>2, <2>3 DEF IInv, OnePlace
<1>5. \A m \in 0 .. Morsels - 1 : m < next_morsel[c]
  BY <1>3, ParallelScanFilterAssumption DEF IInv, TypeOK
<1> QED
  BY <1>1, <1>2, <1>4, <1>5 DEF IInv, Accounted
-----------------------------------------------------------------------------
LEMMA InitInv == Init => IInv
<1> SUFFICES ASSUME Init PROVE IInv
  OBVIOUS
<1> USE ParallelScanFilterAssumption DEF Init, Pool!Init
<1>1. TypeOK
  BY DEF TypeOK
<1>2. OnePlace /\ GotValues /\ HeldByOne /\ EndsAtTheLast
  BY LambdaMembers DEF OnePlace, GotValues, HeldByOne, EndsAtTheLast
<1>3. Accounted
  BY DEF Accounted
<1> QED
  BY <1>1, <1>2, <1>3 DEF IInv

LEMMA TypeStep == TypeOK /\ [Next]_vars => TypeOK'
<1> SUFFICES ASSUME TypeOK, [Next]_vars PROVE TypeOK'
  OBVIOUS
<1> USE DEF TypeOK
<1>1. ASSUME NEW c \in Callers, Submit(c) PROVE TypeOK'
  <2> DEFINE new == <<c, submitted[c] + 1>>
  <2>1. submitted[c] + 1 \in 1 .. Threads[c] /\ Threads[c] \in Nat
    <3>1. call[c] = "submit"
      BY <1>1 DEF Submit
    <3>2. submitted[c] \in Nat /\ submitted[c] < Threads[c]
      BY <3>1
    <3>3. Threads[c] \in Nat
      BY ParallelScanFilterAssumption
    <3> QED
      BY <3>2, <3>3
  <2>2. new \in Lambda /\ waiting' = Append(waiting, new) /\ UNCHANGED <<running, finished>>
    BY <1>1, <2>1, LambdaMembers DEF Submit, Pool!Submit
  <2>3. waiting' \in Seq(Lambda)
    <3> HIDE DEF new
    <3> QED
      BY <2>2
  <2>4. /\ submitted' = [submitted EXCEPT ![c] = submitted[c] + 1]
        /\ call' = [call EXCEPT ![c] = IF submitted[c] + 1 = Threads[c] THEN "get" ELSE "submit"]
    BY <1>1 DEF Submit
  <2>5. \A d \in Callers : call'[d] = "submit" => submitted'[d] < Threads[d]
    BY <2>1, <2>4
  <2> QED
    BY <1>1, <2>2, <2>3, <2>4, <2>5 DEF Submit, scan
<1>2. ASSUME NEW c \in Callers, Get(c) PROVE TypeOK'
  <2>1. ready' \in [Callers -> Nat]
    <3>1. UNCHANGED ready \/ ready' = [ready EXCEPT ![c] = ready[c] + 1]
      BY <1>2 DEF Get
    <3> QED
      BY <3>1
  <2>2. PICK s \in {"get", "returned", "threw"} : call' = [call EXCEPT ![c] = s]
    BY <1>2 DEF Get
  <2>3. UNCHANGED <<pool, submitted, scan>>
    BY <1>2 DEF Get
  <2> QED
    BY <2>1, <2>2, <2>3 DEF scan, pool
<1>3. ASSUME NEW w \in Workers, Start(w) PROVE TypeOK'
  BY <1>3 DEF Start, Pool!Start, own, scan
<1>4. ASSUME NEW w \in Workers, NEW t \in Lambda, Claim(w, t) PROVE TypeOK'
  <2>1. CallerOf(t) \in Callers /\ next_morsel[CallerOf(t)] \in Nat
    BY CallerType
  <2>2. next_morsel' \in [Callers -> Nat] /\ UNCHANGED <<own, failed, collected>>
    BY <1>4, <2>1 DEF Claim
  <2>3. CASE next_morsel[CallerOf(t)] < Morsels
    <3>1. morsel' = [morsel EXCEPT ![t] = next_morsel[CallerOf(t)]] /\ UNCHANGED pool
      BY <1>4, <2>3 DEF Claim
    <3>2. next_morsel[CallerOf(t)] \in 0 .. Morsels - 1
      BY <2>1, <2>3, ParallelScanFilterAssumption
    <3> QED
      BY <2>2, <3>1, <3>2 DEF own, pool
  <2>4. CASE ~(next_morsel[CallerOf(t)] < Morsels)
    BY <1>4, <2>2, <2>4 DEF Claim, Pool!Finish, own
  <2> QED
    BY <2>3, <2>4
<1>5. ASSUME NEW w \in Workers, NEW t \in Lambda, Collect(w, t) PROVE TypeOK'
  <2>1. CallerOf(t) \in Callers /\ morsel[t] \in 0 .. Morsels - 1
    BY <1>5, CallerType DEF Collect
  <2>2. collected' \in [Callers -> [0 .. Morsels - 1 -> Nat]]
    <3>1. collected[CallerOf(t)] \in [0 .. Morsels - 1 -> Nat]
      BY <2>1
    <3>2. [collected[CallerOf(t)] EXCEPT ![morsel[t]] = @ + 1] \in [0 .. Morsels - 1 -> Nat]
      BY <2>1, <3>1
    <3> QED
      BY <1>5, <2>1, <3>2 DEF Collect
  <2> QED
    BY <1>5, <2>2 DEF Collect, own, pool
<1>6. ASSUME NEW w \in Workers, NEW t \in Lambda, Throw(w, t) PROVE TypeOK'
  BY <1>6 DEF Throw, Pool!Finish, own
<1>7. ASSUME NEW w \in Workers, NEW t \in Lambda, Dangle(w, t) PROVE TypeOK'
  BY <1>7 DEF Dangle, Pool!Finish, own, scan
<1>8. CASE UNCHANGED vars
  BY <1>8 DEF vars, pool, own, scan
<1> QED
  BY <1>1, <1>2, <1>3, <1>4, <1>5, <1>6, <1>7, <1>8 DEF Next, Work, Done

LEMMA OnePlaceStep == TypeOK /\ OnePlace /\ [Next]_vars => OnePlace'
<1> SUFFICES ASSUME TypeOK, OnePlace, [Next]_vars PROVE OnePlace'
  OBVIOUS
<1> USE NoTaskAssumption DEF TypeOK, OnePlace
<1>1. ASSUME NEW c \in Callers, Submit(c) PROVE OnePlace'
  <2> DEFINE new == <<c, submitted[c] + 1>>
  <2>1. new \notin finished /\ waiting' = Append(waiting, new) /\ UNCHANGED <<running, finished>>
    BY <1>1 DEF Submit, Pool!Submit
  <2>2. \A i \in DOMAIN waiting : waiting[i] # new
    BY <1>1 DEF Submit, Pool!Submit, Pool!Queued
  <2>3. \A w \in Workers : running[w] # NoTask => running[w] # new
    BY <1>1 DEF Submit, Pool!Submit, Pool!Started
  <2> HIDE DEF new
  <2> QED
    BY <2>1, <2>2, <2>3
<1>2. ASSUME NEW w \in Workers, Start(w) PROVE OnePlace'
  <2>1. /\ waiting # <<>> /\ waiting' = Tail(waiting) /\ UNCHANGED finished
        /\ running' = [running EXCEPT ![w] = Head(waiting)]
    BY <1>2 DEF Start, Pool!Start
  <2>2. \A i \in DOMAIN waiting' : i + 1 \in DOMAIN waiting /\ waiting'[i] = waiting[i + 1]
    BY <2>1
  <2>3. Head(waiting) = waiting[1] /\ 1 \in DOMAIN waiting
    BY <2>1
  <2>4. \A i \in DOMAIN waiting' : waiting'[i] # waiting[1]
    BY <2>1, <2>2, <2>3
  <2>5. waiting[1] \notin finished /\ \A v \in Workers : running[v] # waiting[1]
    <3>1. waiting[1] \in Lambda
      BY <2>3
    <3> QED
      BY <2>3, <3>1
  <2>6. \A i, j \in DOMAIN waiting' : i # j => waiting'[i] # waiting'[j]
    BY <2>1, <2>2
  <2>7. \A i \in DOMAIN waiting' : waiting'[i] \notin finished'
    BY <2>1, <2>2
  <2>8. \A v \in Workers : running'[v] = IF v = w THEN waiting[1] ELSE running[v]
    BY <2>1, <2>3
  <2>9. \A v \in Workers : running'[v] # NoTask =>
          /\ running'[v] \notin finished'
          /\ \A i \in DOMAIN waiting' : waiting'[i] # running'[v]
          /\ \A u \in Workers : running'[u] = running'[v] => u = v
    BY <2>1, <2>2, <2>4, <2>5, <2>8
  <2> QED
    BY <2>6, <2>7, <2>9
<1>3. ASSUME NEW w \in Workers, Pool!Finish(w) PROVE OnePlace'
  BY <1>3 DEF Pool!Finish
<1>4. ASSUME UNCHANGED pool PROVE OnePlace'
  BY <1>4 DEF pool
<1> QED
  BY <1>1, <1>2, <1>3, <1>4 DEF Next, Get, Work, Claim, Collect, Throw, Dangle, Done, vars

(* Finished tasks stay finished, values stay values.                       *)
LEMMA GotValuesStep == IInv /\ [Next]_vars => GotValues'
<1> SUFFICES ASSUME IInv, [Next]_vars PROVE GotValues'
  OBVIOUS
<1> USE ParallelScanFilterAssumption DEF IInv, TypeOK, GotValues
<1>1. ASSUME NEW c \in Callers, Submit(c) PROVE GotValues'
  BY <1>1 DEF Submit, Pool!Submit, scan
<1>2. ASSUME NEW c \in Callers, Get(c) PROVE GotValues'
  <2>1. <<c, ready[c] + 1>> \in Lambda /\ ready[c] + 1 <= Threads[c]
    <3>1. <<c, ready[c] + 1>> \in Lambda
      BY <1>2 DEF Get
    <3> QED
      BY <3>1, NextFuture
  <2>2. /\ UNCHANGED <<finished, failed>>
        /\ \/ call' = [call EXCEPT ![c] = "threw"] /\ UNCHANGED ready
           \/ /\ <<c, ready[c] + 1>> \in finished \ failed
              /\ ready' = [ready EXCEPT ![c] = ready[c] + 1]
              /\ call' = [call EXCEPT ![c] = IF ready[c] + 1 = Threads[c] THEN "returned" ELSE "get"]
    BY <1>2 DEF Get, scan, pool
  <2>3. \A i \in 1 .. ready[c] + 1 : i = ready[c] + 1 \/ i \in 1 .. ready[c]
    OBVIOUS
  <2>4. call[c] = "get"
    BY <1>2 DEF Get
  <2> QED
    BY <2>1, <2>2, <2>3, <2>4
<1>3. ASSUME UNCHANGED <<ready, call, failed>>, finished \subseteq finished' PROVE GotValues'
  BY <1>3
<1>4. ASSUME NEW w \in Workers, NEW t \in Lambda, Throw(w, t) PROVE GotValues'
  <2>1. t \notin finished
    BY <1>4, NoTaskAssumption DEF Throw, OnePlace
  <2> QED
    BY <1>4, <2>1 DEF Throw, Pool!Finish, own
<1>5. ASSUME NEW w \in Workers, Pool!Finish(w) PROVE finished \subseteq finished'
  BY <1>5 DEF Pool!Finish
<1> QED
  BY <1>1, <1>2, <1>3, <1>4, <1>5
  DEF Next, Work, Start, Pool!Start, Claim, Collect, Dangle, Done, vars, own, scan, pool

(* A running task is not finished, and no other worker runs it.            *)
LEMMA RunningOnce ==
  ASSUME IInv, NEW w \in Workers, NEW t \in Lambda, running[w] = t
  PROVE  t \notin finished /\ \A v \in Workers : running[v] = t => v = w
BY NoTaskAssumption DEF IInv, OnePlace

(* A caller gone without throwing has no running task.                     *)
LEMMA DangleAfterThrow ==
  ASSUME IInv, NEW w \in Workers, NEW t \in Lambda, Dangle(w, t)
  PROVE  call[CallerOf(t)] = "threw"
<1>1. running[w] = t /\ call[CallerOf(t)] \in {"returned", "threw"}
  <2>1. call[CallerOf(t)] \in {"submit", "get", "returned", "threw"}
    BY CallerType DEF IInv, TypeOK
  <2> QED
    BY <2>1 DEF Dangle, LocalsAlive
<1>2. CASE call[CallerOf(t)] = "returned"
  <2>1. PICK i \in 1 .. Threads[CallerOf(t)] : t = <<CallerOf(t), i>>
    BY LambdaMembers
  <2>2. t \in finished
    BY <1>2, <2>1, CallerType DEF IInv, GotValues
  <2> QED
    BY <1>1, <2>2, RunningOnce
<1> QED
  BY <1>1, <1>2

LEMMA HeldByOneStep == IInv /\ [Next]_vars => HeldByOne'
<1> SUFFICES ASSUME IInv, [Next]_vars PROVE HeldByOne'
  OBVIOUS
<1> USE CallerType DEF IInv, TypeOK, HeldByOne
<1>1. ASSUME UNCHANGED <<running, morsel, next_morsel, collected>>,
             \A d \in Callers : call'[d] # "threw" => call[d] # "threw"
      PROVE  HeldByOne'
  BY <1>1
<1>2. ASSUME NEW w \in Workers, Start(w) PROVE HeldByOne'
  <2>1. /\ UNCHANGED <<morsel, next_morsel, collected, call>>
        /\ running[w] = NoTask /\ \E x : running' = [running EXCEPT ![w] = x]
    BY <1>2 DEF Start, Pool!Start, own, scan
  <2> QED
    BY <2>1, NoTaskAssumption
<1>3. ASSUME NEW w \in Workers, NEW t \in Lambda, Claim(w, t) PROVE HeldByOne'
  <2> DEFINE c == CallerOf(t)
  <2>1. /\ running[w] = t /\ morsel[t] = None /\ UNCHANGED <<call, collected>>
        /\ next_morsel' = [next_morsel EXCEPT ![c] = next_morsel[c] + 1]
        /\ c \in Callers /\ next_morsel[c] \in Nat
    BY <1>3 DEF Claim, own
  <2>2. CASE next_morsel[c] < Morsels
    <3>1. morsel' = [morsel EXCEPT ![t] = next_morsel[c]] /\ UNCHANGED running
      BY <1>3, <2>2 DEF Claim, pool
    <3>2. next_morsel[c] \in 0 .. Morsels - 1
      BY <2>1, <2>2, ParallelScanFilterAssumption
    <3>3. collected[c][next_morsel[c]] = 0
      BY <2>1, <3>2 DEF Accounted
    <3>4. \A u \in Lambda : morsel[u] # None => morsel[u] \in Int
      BY ParallelScanFilterAssumption
    <3>5. ASSUME NEW u \in Lambda, morsel'[u] # None, call'[CallerOf(u)] # "threw", u # t
          PROVE  /\ \E v \in Workers : running'[v] = u
                 /\ morsel'[u] < next_morsel'[CallerOf(u)]
                 /\ collected'[CallerOf(u)][morsel'[u]] = 0
                 /\ \A x \in Lambda : x # u /\ CallerOf(x) = CallerOf(u) => morsel'[x] # morsel'[u]
      BY <2>1, <3>1, <3>4, <3>5
    <3>6. /\ \E v \in Workers : running'[v] = t
          /\ morsel'[t] < next_morsel'[c]
          /\ collected'[c][morsel'[t]] = 0
      BY <2>1, <3>1, <3>3
    <3>7. ASSUME call'[c] # "threw"
          PROVE  \A x \in Lambda : x # t /\ CallerOf(x) = c => morsel'[x] # morsel'[t]
      <4> SUFFICES ASSUME NEW x \in Lambda, x # t, CallerOf(x) = c, morsel[x] = next_morsel[c]
                   PROVE FALSE
        BY <3>1
      <4>1. morsel[x] # None
        BY <2>1, ParallelScanFilterAssumption
      <4>2. call[CallerOf(x)] # "threw"
        BY <2>1, <3>7
      <4>3. morsel[x] < next_morsel[CallerOf(x)]
        BY <4>1, <4>2
      <4> QED
        BY <2>1, <4>3
    <3> QED
      BY <3>5, <3>6, <3>7
  <2>3. CASE ~(next_morsel[c] < Morsels)
    <3>1. /\ UNCHANGED morsel /\ running' = [running EXCEPT ![w] = NoTask]
      BY <1>3, <2>3 DEF Claim, Pool!Finish
    <3>2. \A u \in Lambda : morsel[u] # None => u # t /\ morsel[u] \in Int
      BY <2>1, ParallelScanFilterAssumption
    <3> QED
      BY <2>1, <3>1, <3>2
  <2> QED
    BY <2>2, <2>3
<1>4. ASSUME NEW w \in Workers, NEW t \in Lambda, Collect(w, t) PROVE HeldByOne'
  <2> DEFINE c == CallerOf(t)
  <2>1. /\ morsel' = [morsel EXCEPT ![t] = None] /\ morsel[t] # None
        /\ UNCHANGED <<call, running, next_morsel>>
        /\ \/ UNCHANGED collected
           \/ collected' = [collected EXCEPT ![c][morsel[t]] = @ + 1]
        /\ call[c] # "threw" /\ c \in Callers /\ morsel[t] \in 0 .. Morsels - 1
    BY <1>4 DEF Collect, LocalsAlive, own, pool
  <2>2. ASSUME NEW u \in Lambda, morsel'[u] # None, call[CallerOf(u)] # "threw"
        PROVE  u # t /\ morsel'[u] = morsel[u] /\ collected'[CallerOf(u)][morsel[u]] = 0
    <3>1. u # t /\ morsel'[u] = morsel[u]
      BY <2>1, <2>2
    <3>2. CallerOf(u) = c => morsel[u] # morsel[t]
      BY <2>1, <3>1
    <3>3. collected'[CallerOf(u)][morsel[u]] = collected[CallerOf(u)][morsel[u]]
      <4> DEFINE d == CallerOf(u)
      <4>1. d \in Callers /\ morsel[u] \in 0 .. Morsels - 1
        BY <2>2, <3>1
      <4>2. /\ collected[c] \in [0 .. Morsels - 1 -> Nat]
            /\ [collected[c] EXCEPT ![morsel[t]] = @ + 1][morsel[u]] =
                 IF morsel[u] = morsel[t] THEN collected[c][morsel[t]] + 1 ELSE collected[c][morsel[u]]
        BY <2>1, <4>1
      <4>3. \/ UNCHANGED collected
            \/ collected' = [collected EXCEPT ![c] = [collected[c] EXCEPT ![morsel[t]] = @ + 1]]
        BY <2>1
      <4> HIDE DEF c, d
      <4> QED
        BY <2>1, <3>2, <4>1, <4>2, <4>3 DEF d
    <3> QED
      BY <2>2, <3>1, <3>3
  <2>3. ASSUME NEW u \in Lambda, morsel'[u] # None, call[CallerOf(u)] # "threw"
        PROVE  /\ \E v \in Workers : running'[v] = u
               /\ morsel'[u] < next_morsel'[CallerOf(u)]
               /\ \A x \in Lambda : x # u /\ CallerOf(x) = CallerOf(u) => morsel'[x] # morsel'[u]
    BY <2>1, <2>2, <2>3
  <2> QED
    BY <2>1, <2>2, <2>3
<1>5. ASSUME NEW w \in Workers, NEW t \in Lambda, Throw(w, t) PROVE HeldByOne'
  BY <1>5 DEF Throw, Pool!Finish, own
<1>6. ASSUME NEW w \in Workers, NEW t \in Lambda, Dangle(w, t) PROVE HeldByOne'
  <2>1. call[CallerOf(t)] = "threw"
    BY <1>6, DangleAfterThrow
  <2> QED
    BY <1>6, <2>1 DEF Dangle, Pool!Finish, own, scan
<1>7. ASSUME NEW c \in Callers, Submit(c) PROVE HeldByOne'
  <2>1. /\ UNCHANGED <<running, morsel, next_morsel, collected>> /\ call[c] = "submit"
        /\ \E s \in {"submit", "get"} : call' = [call EXCEPT ![c] = s]
    BY <1>7 DEF Submit, Pool!Submit, scan
  <2> QED
    BY <1>1, <2>1
<1>8. ASSUME NEW c \in Callers, Get(c) PROVE HeldByOne'
  <2>1. /\ UNCHANGED <<running, morsel, next_morsel, collected>> /\ call[c] = "get"
        /\ \E s \in {"threw", "returned", "get"} : call' = [call EXCEPT ![c] = s]
    BY <1>8 DEF Get, scan, pool
  <2> QED
    BY <1>1, <2>1
<1>9. CASE UNCHANGED vars
  BY <1>9 DEF vars, pool, own, scan
<1> QED
  BY <1>2, <1>3, <1>4, <1>5, <1>6, <1>7, <1>8, <1>9 DEF Next, Work, Done

LEMMA AccountedStep == IInv /\ [Next]_vars => Accounted'
<1> SUFFICES ASSUME IInv, [Next]_vars PROVE Accounted'
  OBVIOUS
<1> USE CallerType DEF IInv, TypeOK, Accounted, IsHeld
<1>1. ASSUME UNCHANGED <<morsel, next_morsel, failed, collected>> PROVE Accounted'
  BY <1>1
<1>2. ASSUME NEW w \in Workers, NEW t \in Lambda, Claim(w, t) PROVE Accounted'
  <2> DEFINE c == CallerOf(t)
  <2>1. /\ morsel[t] = None /\ UNCHANGED <<failed, collected>>
        /\ next_morsel' = [next_morsel EXCEPT ![c] = next_morsel[c] + 1]
        /\ c \in Callers /\ next_morsel[c] \in Nat
        /\ \/ morsel' = [morsel EXCEPT ![t] = next_morsel[c]]
           \/ next_morsel[c] >= Morsels /\ UNCHANGED morsel
    BY <1>2, ParallelScanFilterAssumption DEF Claim, own
  <2> SUFFICES ASSUME NEW d \in Callers, NEW m \in 0 .. Morsels - 1
               PROVE  /\ m >= next_morsel'[d] => collected[d][m] = 0
                      /\ m < next_morsel'[d] /\ ~IsHeld(d, m)' =>
                           \/ collected[d][m] = IF m \in Passing THEN 1 ELSE 0
                           \/ \E u \in Lambda : CallerOf(u) = d /\ u \in failed
    BY <2>1
  <2>2. \A u \in Lambda : morsel[u] = m => u # t /\ morsel'[u] = m
    <3>1. m # None
      BY ParallelScanFilterAssumption
    <3> HIDE DEF c
    <3> QED
      BY <2>1, <3>1
  <2>3. IsHeld(d, m) => IsHeld(d, m)'
    BY <2>2
  <2>4. d # c => next_morsel'[d] = next_morsel[d]
    BY <2>1
  <2>5. next_morsel'[c] = next_morsel[c] + 1
    BY <2>1
  <2>6. d = c /\ m = next_morsel[c] => IsHeld(d, m)'
    <3> SUFFICES ASSUME d = c, m = next_morsel[c] PROVE \E u \in Lambda : CallerOf(u) = d /\ morsel'[u] = m
      OBVIOUS
    <3>1. morsel'[t] = m
      BY <2>1, ParallelScanFilterAssumption
    <3> QED
      BY <3>1
  <2>7. /\ m >= next_morsel[d] => collected[d][m] = 0
        /\ m < next_morsel[d] /\ ~IsHeld(d, m) =>
             \/ collected[d][m] = IF m \in Passing THEN 1 ELSE 0
             \/ \E u \in Lambda : CallerOf(u) = d /\ u \in failed
    OBVIOUS
  <2>8. next_morsel[d] \in Nat /\ m \in Int
    BY ParallelScanFilterAssumption
  <2> HIDE DEF IsHeld, c
  <2> QED
    BY <2>1, <2>3, <2>4, <2>5, <2>6, <2>7, <2>8
<1>3. ASSUME NEW w \in Workers, NEW t \in Lambda, Collect(w, t) PROVE Accounted'
  <2> DEFINE c == CallerOf(t)
             k == morsel[t]
  <2>1. /\ k # None /\ k \in 0 .. Morsels - 1 /\ c \in Callers /\ call[c] # "threw"
        /\ morsel' = [morsel EXCEPT ![t] = None]
        /\ collected' = IF k \in Passing THEN [collected EXCEPT ![c][k] = @ + 1] ELSE collected
        /\ UNCHANGED <<next_morsel, failed>>
    BY <1>3 DEF Collect, LocalsAlive, own, pool
  <2>2. collected[c][k] = 0 /\ k < next_morsel[c]
    BY <2>1 DEF HeldByOne
  <2>3. collected'[c][k] = IF k \in Passing THEN 1 ELSE 0
    <3>1. /\ collected[c] \in [0 .. Morsels - 1 -> Nat]
          /\ collected' = IF k \in Passing
                          THEN [collected EXCEPT ![c] = [collected[c] EXCEPT ![k] = @ + 1]]
                          ELSE collected
      BY <2>1
    <3> HIDE DEF c, k
    <3> QED
      BY <2>1, <2>2, <3>1
  <2>4. ASSUME NEW d \in Callers, NEW m \in 0 .. Morsels - 1, d # c \/ m # k
        PROVE  collected'[d][m] = collected[d][m]
    <3>1. /\ collected[c] \in [0 .. Morsels - 1 -> Nat]
          /\ collected' = collected
             \/ collected' = [collected EXCEPT ![c] = [collected[c] EXCEPT ![k] = @ + 1]]
      BY <2>1
    <3> HIDE DEF c, k
    <3> QED
      BY <2>1, <2>4, <3>1
  <2>5. ASSUME NEW d \in Callers, NEW m \in 0 .. Morsels - 1, d # c \/ m # k, IsHeld(d, m)
        PROVE  IsHeld(d, m)'
    <3>1. PICK u \in Lambda : CallerOf(u) = d /\ morsel[u] = m
      BY <2>5
    <3> QED
      BY <2>1, <2>5, <3>1
  <2> SUFFICES ASSUME NEW d \in Callers, NEW m \in 0 .. Morsels - 1
               PROVE  /\ m >= next_morsel[d] => collected'[d][m] = 0
                      /\ m < next_morsel[d] /\ ~IsHeld(d, m)' =>
                           \/ collected'[d][m] = IF m \in Passing THEN 1 ELSE 0
                           \/ \E u \in Lambda : CallerOf(u) = d /\ u \in failed
    BY <2>1
  <2>6. CASE d = c /\ m = k
    <3>1. k \in Int /\ next_morsel[c] \in Nat
      BY <2>1, ParallelScanFilterAssumption
    <3> HIDE DEF IsHeld, c, k
    <3> QED
      BY <2>2, <2>3, <2>6, <3>1
  <2>7. CASE d # c \/ m # k
    <3>1. /\ m >= next_morsel[d] => collected[d][m] = 0
          /\ m < next_morsel[d] /\ ~IsHeld(d, m) =>
               \/ collected[d][m] = IF m \in Passing THEN 1 ELSE 0
               \/ \E u \in Lambda : CallerOf(u) = d /\ u \in failed
      OBVIOUS
    <3> HIDE DEF IsHeld, c, k
    <3> QED
      BY <2>4, <2>5, <2>7, <3>1
  <2> QED
    BY <2>6, <2>7
<1>4. ASSUME NEW w \in Workers, NEW t \in Lambda, Throw(w, t) PROVE Accounted'
  <2>1. /\ morsel' = [morsel EXCEPT ![t] = None] /\ failed' = failed \cup {t}
        /\ UNCHANGED <<next_morsel, collected>>
    BY <1>4 DEF Throw
  <2>2. ASSUME NEW d \in Callers, NEW m \in 0 .. Morsels - 1, d # CallerOf(t), IsHeld(d, m)
        PROVE  IsHeld(d, m)'
    <3>1. PICK u \in Lambda : CallerOf(u) = d /\ morsel[u] = m
      BY <2>2
    <3> QED
      BY <2>1, <2>2, <3>1
  <2> HIDE DEF IsHeld
  <2> QED
    BY <2>1, <2>2
<1> QED
  BY <1>1, <1>2, <1>3, <1>4
  DEF Next, Submit, Get, Start, Work, Dangle, Done, vars, own, scan

LEMMA EndsAtTheLastStep == IInv /\ [Next]_vars => EndsAtTheLast'
<1> SUFFICES ASSUME IInv, [Next]_vars PROVE EndsAtTheLast'
  OBVIOUS
<1> USE CallerType, ParallelScanFilterAssumption DEF IInv, TypeOK, EndsAtTheLast
<1>1. ASSUME UNCHANGED <<finished, failed, next_morsel>>,
             \A d \in Callers : call'[d] # "threw" => call[d] # "threw"
      PROVE  EndsAtTheLast'
  BY <1>1
<1>2. ASSUME NEW w \in Workers, NEW t \in Lambda, Claim(w, t) PROVE EndsAtTheLast'
  <2> DEFINE c == CallerOf(t)
  <2>1. /\ c \in Callers /\ next_morsel[c] \in Nat /\ UNCHANGED <<call, failed>>
        /\ next_morsel' = [next_morsel EXCEPT ![c] = next_morsel[c] + 1]
        /\ \/ UNCHANGED finished
           \/ next_morsel[c] >= Morsels /\ finished' = finished \cup {t}
    BY <1>2 DEF Claim, Pool!Finish, own, pool
  <2>2. \A d \in Callers : next_morsel[d] \in Nat /\ next_morsel'[d] >= next_morsel[d]
    BY <2>1
  <2> QED
    BY <2>1, <2>2
<1>3. ASSUME NEW w \in Workers, NEW t \in Lambda, Throw(w, t) PROVE EndsAtTheLast'
  BY <1>3 DEF Throw, Pool!Finish, own
<1>4. ASSUME NEW w \in Workers, NEW t \in Lambda, Dangle(w, t) PROVE EndsAtTheLast'
  BY <1>4, DangleAfterThrow DEF Dangle, Pool!Finish, own, scan
<1>5. ASSUME NEW c \in Callers, Submit(c) PROVE EndsAtTheLast'
  <2>1. UNCHANGED <<finished, failed, next_morsel>> /\ call[c] = "submit"
    BY <1>5 DEF Submit, Pool!Submit, scan
  <2>2. \E s \in {"submit", "get"} : call' = [call EXCEPT ![c] = s]
    BY <1>5 DEF Submit
  <2> QED
    BY <1>1, <2>1, <2>2
<1>6. ASSUME NEW c \in Callers, Get(c) PROVE EndsAtTheLast'
  <2>1. UNCHANGED <<finished, failed, next_morsel>> /\ call[c] = "get"
    BY <1>6 DEF Get, scan, pool
  <2>2. \E s \in {"threw", "returned", "get"} : call' = [call EXCEPT ![c] = s]
    BY <1>6 DEF Get
  <2> QED
    BY <1>1, <2>1, <2>2
<1>7. CASE UNCHANGED <<finished, failed, next_morsel, call>>
  BY <1>7
<1> QED
  BY <1>2, <1>3, <1>4, <1>5, <1>6, <1>7
  DEF Next, Work, Start, Pool!Start, Collect, Done, vars, own, scan, pool
-----------------------------------------------------------------------------
THEOREM Invariant == Spec => []IInv
<1>1. IInv /\ [Next]_vars => IInv'
  BY TypeStep, OnePlaceStep, GotValuesStep, HeldByOneStep, AccountedStep, EndsAtTheLastStep DEF IInv
<1> QED
  BY InitInv, <1>1, PTL DEF Spec

(* The state is what the definitions above say it is.                      *)
THEOREM TypeCorrect == Spec => []TypeOK
<1>1. IInv => TypeOK
  BY DEF IInv
<1> QED
  BY Invariant, <1>1, PTL

(* A call that returns has collected every passing row once, whatever the  *)
(* number of tasks, workers, morsels and other calls.                      *)
THEOREM ReturnsTheFilter == Spec => []ReturnIsComplete
BY Invariant, Consequences, PTL

(* A call whose task threw does not return: it throws.                     *)
THEOREM ErrorsAreRethrown == Spec => []NoErrorSwallowed
BY Invariant, Consequences, PTL

(* No task outlives a call that returns.                                   *)
THEOREM LocalsAreSafe == Spec => []LocalsOutliveTasks
BY Invariant, Consequences, PTL
=============================================================================
