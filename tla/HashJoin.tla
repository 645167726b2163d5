------------------------------ MODULE HashJoin ------------------------------
(* PhysicalHashJoin (src/execution/physical_planner.cpp): one side is read     *)
(* into a hash table, the rows of the other are looked up one by one, and      *)
(* GetData fills one chunk per call, so that the loop over the matches of a    *)
(* row may be left and entered again. A join that is the left child of another *)
(* one is given up and started over when it turns out to be large.             *)
(*                                                                             *)
(* A row has the join key k and another column m. A row of the result is a     *)
(* pair of row numbers, 0 for the NULLs of an outer join.                      *)
EXTENDS Question, Integers, Sequences, SequencesExt

CONSTANTS SmallSide,  \* SMALL_SIDE_THRESHOLD
          EmptyText,  \* a key: the empty text
          NullText    \* a key: the text "NULL"

\* query: the type of the join and its condition, its inputs, and what its
\* parent asks for; state: the members of the operator.
IsJoin == query.op = "join"

IsTable(rows) == rows \in Seq(Range(rows))

IsJoinQuery(q) ==
  /\ q.type \in {"INNER", "LEFT", "RIGHT", "FULL", "CROSS"}
  /\ q.cond \in {"k", "k and m", "m", "k or m"}
  /\ IsTable(q.left) /\ IsTable(q.right) /\ q.pruned \in BOOLEAN

-----------------------------------------------------------------------------
(* The definition of a join. *)

KeysEqual(l, r) == l.k # Null /\ l.k = r.k

\* A second condition that is no equality of two columns.
Ordered(l, r) == l.m # Null /\ r.m # Null /\ l.m <= r.m

On(l, r) ==
  CASE query.cond = "k" -> KeysEqual(l, r)
    [] query.cond = "k and m" -> KeysEqual(l, r) /\ Ordered(l, r)
    [] query.cond = "m" -> Ordered(l, r)
    [] query.cond = "k or m" -> KeysEqual(l, r) \/ Ordered(l, r)

AllPairs == (1 .. Len(query.left)) \X (1 .. Len(query.right))

Matching ==
  {p \in AllPairs : query.type = "CROSS" \/ On(query.left[p[1]], query.right[p[2]])}

Joined ==
  LET leftAlone == {i \in 1 .. Len(query.left) : \A p \in Matching : p[1] # i}
      rightAlone == {j \in 1 .. Len(query.right) : \A p \in Matching : p[2] # j}
  IN  CASE query.type = "LEFT" -> Matching \cup (leftAlone \X {0})
        [] query.type = "RIGHT" -> Matching \cup ({0} \X rightAlone)
        [] query.type = "FULL" -> Matching \cup (leftAlone \X {0}) \cup ({0} \X rightAlone)
        [] OTHER -> Matching

-----------------------------------------------------------------------------
(* What the operator looks up. *)

\* The side that is built: the smaller of two files, else the left one unless it is large.
BuildsRight == \/ query.sized = "right smaller"
               \/ query.sized = "unknown" /\ Len(query.left) > SmallSide

Build == IF BuildsRight THEN query.right ELSE query.left
Probe == IF BuildsRight THEN query.left ELSE query.right

\* Keys are compared as integers if the column is one and the first row built is not NULL.
UsesInts == ~query.texts /\ Build # <<>> /\ Build[1].k # Null

\* Value::ToString of a key.
TextOf(k) == IF k = Null THEN NullText ELSE k

\* The bytes of a text in a vector, which are there for a NULL as well.
BytesOf(k) == IF k = Null THEN EmptyText ELSE k

\* Whether a row that was built is found under the key of a row looked up.
SameKey(b, p) ==
  IF UsesInts THEN b.k # Null /\ b.k = p.k
  ELSE TextOf(b.k) = IF query.texts THEN BytesOf(p.k) ELSE TextOf(p.k)

\* The rows built that are found for a row looked up, in their order.
Bucket(p) ==
  LET found[n \in 0 .. Len(Build)] ==
        IF n = 0 THEN <<>>
        ELSE IF SameKey(Build[n], p) THEN Append(found[n - 1], n) ELSE found[n - 1]
  IN  found[Len(Build)]

HasResidual == query.cond \in {"k and m", "k or m"}

\* The probe side is asked for its key and for the columns of the result only.
AsRead(p) == IF query.pruned THEN [p EXCEPT !.m = Null] ELSE p

ResidualPasses(b, p) ==
  LET l == IF BuildsRight THEN AsRead(p) ELSE b
      r == IF BuildsRight THEN b ELSE AsRead(p)
  IN  \/ ~HasResidual
      \/ query.cond = "k and m" /\ Ordered(l, r)
      \/ query.cond = "k or m" /\ (KeysEqual(l, r) \/ Ordered(l, r))

-----------------------------------------------------------------------------
(* The operator. Rows are numbered from 1; chunk holds the rows of the probe   *)
(* side that were fetched, at and matchAt are positions in it and in matches.  *)

Unbuilt ==
  [built |-> FALSE, probed |-> 0, probeDone |-> FALSE, chunk |-> <<>>, at |-> 1,
   matches |-> <<>>, matchAt |-> 1, rowMatched |-> FALSE, matched |-> {}, aloneAt |-> 1,
   pairs |-> <<>>, emitAt |-> 1, n |-> 0,
   calling |-> FALSE, ended |-> FALSE, restarts |-> 0]

JoinInit == IsJoin /\ IsJoinQuery(query) /\ state = Unbuilt /\ out = <<>>

Pair(b, p) == IF BuildsRight THEN <<p, b>> ELSE <<b, p>>

PadsProbe == query.type = "FULL" \/ query.type = (IF BuildsRight THEN "LEFT" ELSE "RIGHT")
PadsBuild == query.type = "FULL" \/ query.type = (IF BuildsRight THEN "RIGHT" ELSE "LEFT")

InCall == IsJoin /\ state.calling

\* CROSS: all pairs are made, behind those that are already there.
BuildHashTable(s) ==
  [s EXCEPT
     !.built = TRUE,
     !.matched = {},
     !.pairs = IF query.type = "CROSS"
               THEN @ \o [x \in 1 .. Len(query.left) * Len(query.right) |->
                            <<((x - 1) \div Len(query.right)) + 1, ((x - 1) % Len(query.right)) + 1>>]
               ELSE @]

\* The first call builds.
GetData ==
  /\ IsJoin /\ ~state.calling /\ ~state.ended
  /\ state' = [IF state.built THEN state ELSE BuildHashTable(state)
                EXCEPT !.calling = TRUE, !.n = 0]
  /\ UNCHANGED <<query, out>>

Emit(pair) == out' = Append(out, pair)

EmitPair ==
  /\ InCall /\ query.type = "CROSS" /\ state.n < VectorSize /\ state.emitAt <= Len(state.pairs)
  /\ Emit(state.pairs[state.emitAt])
  /\ state' = [state EXCEPT !.emitAt = @ + 1, !.n = @ + 1]
  /\ UNCHANGED query

Probing == InCall /\ query.type # "CROSS"
CurrentRow == state.chunk[state.at]

EmitMatch ==
  /\ Probing /\ state.n < VectorSize /\ state.matchAt <= Len(state.matches)
  /\ LET b == state.matches[state.matchAt]
     IN  IF ResidualPasses(Build[b], Probe[CurrentRow])
         THEN /\ Emit(Pair(b, CurrentRow))
              /\ state' = [state EXCEPT !.matchAt = @ + 1, !.rowMatched = TRUE,
                                        !.matched = @ \cup {b}, !.n = @ + 1]
         ELSE /\ state' = [state EXCEPT !.matchAt = @ + 1]
              /\ UNCHANGED out
  /\ UNCHANGED query

\* The position in the chunk moves on, also when the chunk of the result is full.
EndOfMatches ==
  /\ Probing /\ state.matches # <<>> /\ state.matchAt > Len(state.matches)
  /\ LET pads == HasResidual /\ ~state.rowMatched /\ state.n < VectorSize /\ PadsProbe
     IN  /\ state' = [state EXCEPT !.matches = <<>>, !.matchAt = 1, !.at = @ + 1,
                                   !.n = IF pads THEN @ + 1 ELSE @]
         /\ out' = IF pads THEN Append(out, Pair(0, CurrentRow)) ELSE out
  /\ UNCHANGED query

ProbeRow ==
  /\ Probing /\ state.n < VectorSize /\ state.matches = <<>> /\ state.at <= Len(state.chunk)
  /\ LET bucket == Bucket(Probe[CurrentRow])
     IN  IF bucket # <<>>
         THEN /\ state' = [state EXCEPT !.matches = bucket, !.matchAt = 1, !.rowMatched = FALSE]
              /\ UNCHANGED out
         ELSE /\ state' = [state EXCEPT !.at = @ + 1, !.n = IF PadsProbe THEN @ + 1 ELSE @]
              /\ out' = IF PadsProbe THEN Append(out, Pair(0, CurrentRow)) ELSE out
  /\ UNCHANGED query

FetchChunk ==
  /\ Probing /\ state.n < VectorSize /\ state.matches = <<>>
  /\ state.at > Len(state.chunk) /\ ~state.probeDone
  /\ LET last == state.probed + VectorSize
         rows == [x \in 1 .. Len(Probe) |-> x]
         next == SubSeq(rows, state.probed + 1, IF last > Len(Probe) THEN Len(Probe) ELSE last)
     IN  state' = IF next = <<>>
                  THEN [state EXCEPT !.probeDone = TRUE, !.chunk = <<>>]
                  ELSE [state EXCEPT !.chunk = next, !.at = 1, !.probed = @ + Len(next)]
  /\ UNCHANGED <<query, out>>

\* Fault: rows that found a partner are emitted once more at the end.
ForgetsMatches ==
  /\ Probing /\ state.probeDone /\ state.n < VectorSize /\ PadsBuild
  /\ state.aloneAt <= Len(Build)
  /\ Emit(Pair(state.aloneAt, 0))
  /\ state' = [state EXCEPT !.aloneAt = @ + 1, !.n = @ + 1]
  /\ UNCHANGED query

EmitUnmatched ==
  /\ Probing /\ state.probeDone /\ state.n < VectorSize /\ PadsBuild
  /\ state.aloneAt <= Len(Build)
  /\ IF state.aloneAt \in state.matched
     THEN /\ state' = [state EXCEPT !.aloneAt = @ + 1]
          /\ UNCHANGED out
     ELSE /\ Emit(Pair(state.aloneAt, 0))
          /\ state' = [state EXCEPT !.aloneAt = @ + 1, !.n = @ + 1]
  /\ UNCHANGED query

\* GetData returns a chunk, or FALSE when it has no row.
ReturnChunk ==
  /\ InCall
  /\ state.matches = <<>> \/ state.matchAt <= Len(state.matches)
  /\ \/ state.n = VectorSize
     \/ query.type = "CROSS" /\ state.emitAt > Len(state.pairs)
     \/ query.type # "CROSS" /\ state.probeDone /\ (PadsBuild => state.aloneAt > Len(Build))
  /\ state' = [state EXCEPT !.calling = FALSE, !.ended = (state.n = 0)]
  /\ UNCHANGED <<query, out>>

\* The parent is a join that reads this one on its left, has got too many rows to build
\* from them, and calls Init again. Init resets these members and no others.
Restart ==
  /\ IsJoin /\ query.leftOfJoin /\ ~state.calling /\ state.restarts = 0
  /\ Len(out) > SmallSide
  /\ state' = [state EXCEPT !.built = FALSE, !.emitAt = 1, !.probeDone = FALSE, !.at = 1,
                            !.matchAt = 1, !.matches = <<>>, !.probed = 0,
                            !.ended = FALSE, !.restarts = 1]
  /\ out' = <<>>
  /\ UNCHANGED query

JoinNext ==
  \/ GetData \/ EmitPair \/ EmitMatch \/ EndOfMatches \/ ProbeRow
  \/ FetchChunk \/ EmitUnmatched \/ ReturnChunk \/ Restart

JoinSpec == JoinInit /\ [][JoinNext]_queryVars

-----------------------------------------------------------------------------
(* Whether the text of NULL or the bytes of a NULL may be taken for a key. *)
NullsTold ==
  \/ UsesInts
  \/ \A x \in {Build, Probe} : \A i \in 1 .. Len(x) : x[i].k # Null

(* PhysicalHashJoin::GetData: when the join has ended it has returned every     *)
(* pair that the condition joins and every row an outer join keeps, each once, *)
(* wherever its chunks ended. The condition must have an equality of columns   *)
(* and its other columns must be read. A join that was started over may repeat *)
(* rows, and must not keep rows of the side it built (section 7 of the README).*)
JoinIsRight ==
  (IsJoin /\ state.ended)
  => \/ ~NullsTold
     \/ query.cond \in {"m", "k or m"}
     \/ query.pruned /\ HasResidual
     \/ /\ Range(out) = Joined \/ (state.restarts = 1 /\ PadsBuild)
        /\ IsInjective(out) \/ state.restarts = 1
=============================================================================
