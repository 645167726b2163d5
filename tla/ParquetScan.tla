---------------------------- MODULE ParquetScan -----------------------------
(***************************************************************************)
(* PhysicalParquetScan and the PhysicalLimit above it: worker threads      *)
(* decode the row groups of a file ahead of the thread that runs the query *)
(* and put them into slots_, from which that thread takes them in the      *)
(* order of the file.  Workers that are too far ahead sleep on             *)
(* slot_free_cv_, the caller sleeps on slot_ready_cv_.  For an aggregate   *)
(* the workers consume the groups themselves (RunParallelRGs).             *)
(*                                                                         *)
(* Groups and workers count from 0.  A row is the number of its group and  *)
(* its place there.                                                        *)
(***************************************************************************)
EXTENDS Integers, Sequences, FiniteSets, SequencesExt, FiniteSetsExt

CONSTANTS NumGroups,  \* the row groups of the file
          Sizes,      \* how many rows each has
          NumThreads, \* the threads that may be started
          Requests,   \* what queries ask of the scan
          VectorSize, \* VECTOR_SIZE
          Caller, Nobody

Groups  == 0 .. NumGroups - 1
Workers == 0 .. NumThreads - 1
Threads == Workers \cup {Caller}
NoLimit == -1

(* A LIMIT is told to the scan below it, not through an aggregate.         *)
AnyRequest ==
  {r \in [mode : {"rows", "groups"}, limit : Nat \cup {NoLimit}, offset : Nat,
          pruned : SUBSET Groups, broken : SUBSET Groups,
          enough : BOOLEAN, leftOfJoin : BOOLEAN] :
     r.mode = "groups" => r.limit = NoLimit}

ASSUME ParquetScanAssumption ==
  /\ NumGroups \in Nat \ {0, 1} /\ NumThreads \in Nat \ {0, 1} /\ VectorSize \in Nat \ {0}
  /\ Sizes \in [Groups -> Nat]
  /\ \A r \in Requests : r \in AnyRequest
  /\ Caller \notin Workers \cup {Nobody} /\ Nobody \notin Workers

VARIABLES asked,      \* the request: its mode, limit and offset, the groups that its
                      \* filters exclude, those that cannot be decoded, whether the
                      \* consumer may have enough, whether a join reads the scan
          client,     \* what has become of the query
          restarted,  \* the scan has been started over
          effective,  \* effective_num_rgs_
          nextDecode, \* next_decode_
          nextEmit,   \* next_emit_
          slots,      \* slots_
          stop,       \* stop_
          crew,       \* workers_.size()
          ahead,      \* max_ahead of each worker
          mutex,      \* the holder of mu_, or Nobody
          pc,         \* where each thread is
          rg,         \* the group each worker has claimed, or 0
          current,    \* current_work_: a group, its size, the rows emitted of it
          got,        \* the rows the scan has emitted, or the groups consumed
          answer      \* the rows PhysicalLimit has let through

query   == <<asked, restarted, effective>>
private == <<crew, ahead, current>>
results == <<got, answer>>
vars    == <<query, client, nextDecode, nextEmit, slots, stop, mutex, pc, rg, private, results>>

Goto(p, label) == pc' = [pc EXCEPT ![p] = label]

Empty == [group |-> 0, size |-> 0, at |-> 0]
-----------------------------------------------------------------------------
(* Init                                                                    *)

RowsBefore(k) ==
  LET sum[n \in 0 .. NumGroups] == IF n = 0 THEN 0 ELSE sum[n - 1] + Sizes[n - 1]
  IN  sum[k]

(* What PhysicalLimit::Init asks for: 0 is no limit to the scan.           *)
RowLimit == IF asked.limit = NoLimit THEN 0 ELSE asked.limit + asked.offset

(* Fault: the group in which the limit is reached is not counted.          *)
OneGroupShort ==
  IF RowLimit > 0 /\ asked.pruned = {}
  THEN Min({NumGroups} \cup {k \in Groups : RowsBefore(k + 1) >= RowLimit})
  ELSE NumGroups

EffectiveGroups ==
  IF RowLimit > 0 /\ asked.pruned = {}
  THEN Min({NumGroups} \cup {k + 1 : k \in {g \in Groups : RowsBefore(g + 1) >= RowLimit}})
  ELSE NumGroups

Init == /\ asked \in Requests
        /\ client = "asked" /\ restarted = FALSE
        /\ effective = EffectiveGroups
        /\ nextDecode = 0 /\ nextEmit = 0
        /\ slots = [g \in Groups |-> "none"]
        /\ stop = FALSE /\ mutex = Nobody
        /\ crew = 0 /\ ahead = [w \in Workers |-> 0]
        /\ pc = [p \in Threads |-> IF p = Caller THEN "idle" ELSE "gone"]
        /\ rg = [w \in Workers |-> 0]
        /\ current = Empty
        /\ got = <<>> /\ answer = <<>>
-----------------------------------------------------------------------------
(* The caller                                                              *)

Crew(n) == [p \in Threads |-> IF p \in 0 .. n - 1 THEN "loop" ELSE pc[p]]

(* SpawnWorkers.  A worker reads workers_.size() while it grows.           *)
SpawnWorkers ==
  /\ client = "asked" /\ asked.mode = "rows"
  /\ client' = "reading"
  /\ LET budget == Min({NumThreads, effective})
         n      == IF budget <= 1 THEN 0 ELSE budget
     IN  /\ crew' = n
         /\ pc' = Crew(n)
         /\ \E sizes \in [Workers -> 0 .. n] :
              /\ \A w \in Workers : IF w < n THEN sizes[w] >= w ELSE sizes[w] = 0
              /\ ahead' = [w \in Workers |-> sizes[w] * 2 + 2]
  /\ stop' = FALSE
  /\ UNCHANGED <<query, nextDecode, nextEmit, slots, mutex, rg, current, results>>

Full    == asked.limit # NoLimit /\ Len(answer) >= asked.limit
Drained == current.at >= current.size

GetData == /\ client = "reading" /\ pc[Caller] = "idle" /\ ~Full
           /\ Goto(Caller, "get")
           /\ UNCHANGED <<query, client, nextDecode, nextEmit, slots, stop, mutex, rg, private,
                          results>>

(* PhysicalLimit has all it may let through.                               *)
LimitReached == /\ client \in {"asked", "reading"} /\ pc[Caller] = "idle" /\ Full
                /\ client' = "ended"
                /\ UNCHANGED <<query, nextDecode, nextEmit, slots, stop, mutex, pc, rg, private,
                               results>>

NoMoreGroups == /\ pc[Caller] = "get" /\ Drained /\ nextEmit >= effective
                /\ client' = "ended"
                /\ Goto(Caller, "idle")
                /\ UNCHANGED <<query, nextDecode, nextEmit, slots, stop, mutex, rg, private,
                               results>>

NeedsGroup == pc[Caller] = "get" /\ Drained /\ nextEmit < effective

Work(g) == [group |-> g, size |-> IF g \in asked.pruned THEN 0 ELSE Sizes[g], at |-> 0]

Decodes(g) == g \in asked.pruned \/ g \notin asked.broken

(* Without workers; an exception leaves GetData.                           *)
DecodeInline ==
  /\ NeedsGroup /\ crew = 0
  /\ IF Decodes(nextEmit)
     THEN current' = Work(nextEmit) /\ nextEmit' = nextEmit + 1 /\ UNCHANGED <<client, pc>>
     ELSE client' = "failed" /\ Goto(Caller, "idle") /\ UNCHANGED <<current, nextEmit>>
  /\ UNCHANGED <<query, nextDecode, slots, stop, mutex, rg, crew, ahead, results>>

Woken(p) == CASE pc[p] = "asleep" -> "throttle" [] pc[p] = "waiting" -> "get" [] OTHER -> pc[p]

(* The group is taken and slot_free_cv_ notified under mu_, but next_emit_ *)
(* is counted up later: a worker may wake up, and sleep again, before.     *)
TakeGroup ==
  /\ NeedsGroup /\ crew > 0 /\ mutex = Nobody /\ slots[nextEmit] # "none"
  /\ slots' = [slots EXCEPT ![nextEmit] = "none"]
  /\ pc' = [p \in Threads |-> IF p = Caller THEN "advance" ELSE Woken(p)]
  /\ UNCHANGED <<query, client, nextDecode, nextEmit, stop, mutex, rg, private, results>>

NotReady == /\ NeedsGroup /\ crew > 0 /\ mutex = Nobody /\ slots[nextEmit] = "none"
            /\ mutex' = Caller
            /\ Goto(Caller, "wait")
            /\ UNCHANGED <<query, client, nextDecode, nextEmit, slots, stop, rg, private, results>>

WaitReady == /\ pc[Caller] = "wait"
             /\ mutex' = Nobody
             /\ Goto(Caller, "waiting")
             /\ UNCHANGED <<query, client, nextDecode, nextEmit, slots, stop, rg, private, results>>

Advance == /\ pc[Caller] = "advance"
           /\ current' = Work(nextEmit)
           /\ nextEmit' = nextEmit + 1
           /\ Goto(Caller, "get")
           /\ UNCHANGED <<query, client, nextDecode, slots, stop, mutex, rg, crew, ahead, results>>

LetThrough(chunk) ==
  LET from == Max({1, asked.offset - Len(got) + 1})
      room == IF asked.limit = NoLimit THEN Len(chunk) ELSE asked.limit - Len(answer)
  IN  SubSeq(chunk, from, Min({Len(chunk), from - 1 + room}))

(* GetData returns a chunk, and PhysicalLimit copies some of its rows.     *)
EmitChunk ==
  /\ pc[Caller] = "get" /\ ~Drained
  /\ LET count == Min({current.size - current.at, VectorSize})
         chunk == [i \in 1 .. count |-> <<current.group, current.at + i>>]
     IN  /\ got' = got \o chunk
         /\ answer' = answer \o LetThrough(chunk)
         /\ current' = [current EXCEPT !.at = @ + count]
  /\ Goto(Caller, "idle")
  /\ UNCHANGED <<query, client, nextDecode, nextEmit, slots, stop, mutex, rg, crew, ahead>>

(* RunParallelRGs starts its threads and joins them.                       *)
RunParallelRGs ==
  /\ client = "asked" /\ asked.mode = "groups"
  /\ LET n == Min({NumThreads, NumGroups})
     IN  crew' = n /\ pc' = [Crew(n) EXCEPT ![Caller] = "running"]
  /\ nextDecode' = 0 /\ stop' = FALSE
  /\ client' = "reading"
  /\ UNCHANGED <<query, nextEmit, slots, mutex, rg, ahead, current, results>>

(* Fault: the join of one thread is enough.                                *)
OneJoined == \E w \in Workers : pc[w] = "gone"

AllJoined == \A w \in Workers : pc[w] = "gone"

AllConsumed == /\ pc[Caller] = "running" /\ AllJoined
               /\ client' = "ended"
               /\ crew' = 0
               /\ Goto(Caller, "idle")
               /\ UNCHANGED <<query, nextDecode, nextEmit, slots, stop, mutex, rg, ahead, current,
                              results>>
-----------------------------------------------------------------------------
(* StopWorkers, called by the destructor and by Init                       *)

(* Init resets the scan.                                                   *)
Reset == /\ client' = "asked"
         /\ nextDecode' = 0 /\ nextEmit' = 0 /\ current' = Empty
         /\ got' = <<>> /\ answer' = <<>>

Quit(next) == /\ client \in {"reading", "ended", "failed"} /\ pc[Caller] = "idle"
               /\ client' = next
               /\ stop' = (crew > 0)
               /\ Goto(Caller, IF crew > 0 THEN "stopping" ELSE "stopped")
               /\ UNCHANGED <<query, nextDecode, nextEmit, slots, mutex, rg, private, results>>

(* The query is over, or an exception from elsewhere ends it.              *)
Close == Quit("closing")

(* A join that reads the scan on its left starts it over, once.            *)
Restart == /\ asked.leftOfJoin /\ ~restarted
           /\ client = "reading"
           /\ Quit("restarting")

NotifyAll == /\ pc[Caller] = "stopping"
             /\ pc' = [p \in Threads |-> IF p = Caller THEN "joining" ELSE Woken(p)]
             /\ UNCHANGED <<query, client, nextDecode, nextEmit, slots, stop, mutex, rg, private,
                            results>>

Join == /\ pc[Caller] = "joining" /\ AllJoined
        /\ crew' = 0 /\ stop' = FALSE
        /\ slots' = [g \in Groups |-> "none"]
        /\ rg' = [w \in Workers |-> 0] /\ ahead' = [w \in Workers |-> 0]
        /\ Goto(Caller, "stopped")
        /\ UNCHANGED <<query, client, nextDecode, nextEmit, mutex, current, results>>

Stopped == /\ pc[Caller] = "stopped"
           /\ IF client = "restarting"
              THEN Reset /\ restarted' = TRUE
              ELSE /\ client' = "closed"
                   /\ UNCHANGED <<restarted, nextDecode, nextEmit, current, results>>
           /\ Goto(Caller, "idle")
           /\ UNCHANGED <<asked, effective, slots, stop, mutex, rg, crew, ahead>>
-----------------------------------------------------------------------------
(* WorkerLoop                                                              *)

Leave(w) == /\ pc[w] = "loop"
            /\ stop \/ nextDecode >= effective
            /\ nextDecode' = IF stop THEN nextDecode ELSE nextDecode + 1
            /\ Goto(w, "gone")
            /\ UNCHANGED <<query, client, nextEmit, slots, stop, mutex, rg, private, results>>

(* A worker claims the next group; statistics tell whether it is decoded.  *)
ClaimGroup(w) ==
  /\ pc[w] = "loop" /\ ~stop /\ nextDecode < effective
  /\ rg' = [rg EXCEPT ![w] = nextDecode]
  /\ nextDecode' = nextDecode + 1
  /\ Goto(w, CASE nextDecode \notin asked.pruned ->
                    IF asked.mode = "groups" THEN "consume" ELSE "throttle"
               [] nextDecode \in asked.pruned ->
                    IF asked.mode = "groups" THEN "loop" ELSE "decode")
  /\ UNCHANGED <<query, client, nextEmit, slots, stop, mutex, private, results>>

(* Fault: a worker may be one group ahead only.                            *)
OneAhead(w) == rg[w] < nextEmit + 1

Near(w) == rg[w] < nextEmit + ahead[w]

ThrottleTest(w) ==
  /\ pc[w] = "throttle" /\ mutex = Nobody
  /\ CASE stop -> Goto(w, "gone") /\ UNCHANGED mutex
       [] ~stop /\ Near(w) -> Goto(w, "decode") /\ UNCHANGED mutex
       [] ~stop /\ ~Near(w) -> Goto(w, "tested") /\ mutex' = w
  /\ UNCHANGED <<query, client, nextDecode, nextEmit, slots, stop, rg, private, results>>

Sleep(w) == /\ pc[w] = "tested"
            /\ mutex' = Nobody
            /\ Goto(w, "asleep")
            /\ UNCHANGED <<query, client, nextDecode, nextEmit, slots, stop, rg, private, results>>

(* The group is decoded, and put in its slot under mu_.  An exception that *)
(* leaves a thread ends the process.                                       *)
Deposit(w) ==
  /\ pc[w] = "decode" /\ mutex = Nobody
  /\ IF Decodes(rg[w])
     THEN /\ slots' = [slots EXCEPT ![rg[w]] = "work"]
          /\ Goto(w, "notify")
          /\ UNCHANGED client
     ELSE client' = "aborted" /\ UNCHANGED <<pc, slots>>
  /\ UNCHANGED <<query, nextDecode, nextEmit, stop, mutex, rg, private, results>>

(* slot_ready_cv_ is notified after mu_ is released.                       *)
NotifyReady(w) ==
  /\ pc[w] = "notify"
  /\ pc' = [pc EXCEPT ![w] = "loop", ![Caller] = Woken(Caller)]
  /\ rg' = [rg EXCEPT ![w] = 0]
  /\ UNCHANGED <<query, client, nextDecode, nextEmit, slots, stop, mutex, private, results>>

(* The callback of an aggregate; it may find that it has enough groups.    *)
Consume(w) ==
  /\ pc[w] = "consume"
  /\ IF Decodes(rg[w])
     THEN /\ got' = Append(got, <<rg[w], w>>)
          /\ stop' \in {stop, stop \/ asked.enough}
          /\ Goto(w, "loop")
          /\ rg' = [rg EXCEPT ![w] = 0]
          /\ UNCHANGED client
     ELSE client' = "aborted" /\ UNCHANGED <<got, stop, pc, rg>>
  /\ UNCHANGED <<query, nextDecode, nextEmit, slots, mutex, private, answer>>

Spurious(p) == /\ pc[p] \in {"asleep", "waiting"}
               /\ Goto(p, Woken(p))
               /\ UNCHANGED <<query, client, nextDecode, nextEmit, slots, stop, mutex, rg, private,
                              results>>
-----------------------------------------------------------------------------
Worker(w) == \/ Leave(w) \/ ClaimGroup(w) \/ ThrottleTest(w) \/ Sleep(w) \/ Deposit(w)
             \/ NotifyReady(w) \/ Consume(w)

(* A query draws rows until there are none.                                *)
Draw == \/ SpawnWorkers \/ GetData \/ LimitReached \/ NoMoreGroups \/ DecodeInline
        \/ TakeGroup \/ NotReady \/ WaitReady \/ Advance \/ EmitChunk
        \/ RunParallelRGs \/ AllConsumed

StopWorkers == NotifyAll \/ Join \/ Stopped

Next == /\ client # "aborted"
        /\ \/ \E w \in Workers : Worker(w)
           \/ Draw \/ Close \/ Restart \/ StopWorkers
           \/ \E p \in Threads : Spurious(p)

Spec == Init /\ [][Next]_vars

(* Threads are scheduled and a mutex is granted to every thread that keeps *)
(* asking.  Nobody has to close or restart a query.                        *)
Fairness == /\ \A w \in Workers : WF_vars(Worker(w)) /\ SF_vars(Worker(w))
            /\ WF_vars(Draw /\ client # "aborted") /\ SF_vars(Draw /\ client # "aborted")
            /\ WF_vars(StopWorkers /\ client # "aborted")

FairSpec == Spec /\ Fairness
-----------------------------------------------------------------------------
AllRows == FlattenSeq([k \in 1 .. NumGroups |-> [i \in 1 .. Work(k - 1).size |-> <<k - 1, i>>]])

Limited(rows) == LET last == IF asked.limit = NoLimit THEN Len(rows)
                                                      ELSE asked.offset + asked.limit
                 IN  SubSeq(rows, asked.offset + 1, Min({last, Len(rows)}))

(* GetData delivers the rows of the groups that its filters let through in *)
(* the order of the file, whatever the order in which workers decode them; *)
(* and a query that ends has got all of them that LIMIT and OFFSET leave,  *)
(* also when the scan reads only the groups that a LIMIT seems to need.    *)
RowsInFileOrder ==
  asked.mode = "rows" => /\ IsPrefix(got, AllRows)
                         /\ client = "ended" => answer = Limited(AllRows)

(* RunParallelRGs returns when each group that the filters let through has *)
(* been consumed by one thread, once, unless the consumer asked to stop.   *)
GroupsOnce ==
  asked.mode = "groups" =>
    LET consumed == {got[i][1] : i \in DOMAIN got}
    IN  /\ Cardinality(consumed) = Len(got)
        /\ client = "ended" => stop \/ consumed = Groups \ asked.pruned

(* Decoded groups do not pile up: no slot is filled further ahead of the   *)
(* caller than the max_ahead of some worker, which is two groups for every *)
(* worker it has seen and two more.                                        *)
BoundedAhead ==
  \A g \in Groups \ asked.pruned :
    slots[g] = "work" => \E w \in Workers : g < nextEmit + ahead[w]

(* A query that is not given up ends: neither the caller nor a worker      *)
(* sleeps for ever, although next_emit_ is counted up after the workers    *)
(* that wait for it were notified.                                         *)
ScanEnds == client = "reading" ~> client # "reading"

(* StopWorkers joins all its threads, unless it notified them between a    *)
(* worker's test and its going to sleep.                                   *)
StopsUnlessMissed ==
  (pc[Caller] = "stopping" /\ \A w \in Workers : pc[w] # "tested")
    ~> (pc[Caller] = "idle" \/ client = "aborted")

(* Threads claim each group once, and none runs too far ahead.              *)
GroupsInTurn == GroupsOnce /\ BoundedAhead

(* Nothing but a missed notification keeps the reader or a destructor.      *)
EndsUnlessMissed == ScanEnds /\ StopsUnlessMissed
=============================================================================
