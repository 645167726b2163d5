---------------------------- MODULE TableWrites ----------------------------
(***************************************************************************)
(* The statements that write one table, as connections run them: INSERT    *)
(* ... VALUES, INSERT ... SELECT, UPDATE, DELETE, MERGE, and BEGIN, COMMIT *)
(* and ROLLBACK around them.                                               *)
(*                                                                         *)
(* A row has a key and a value; a statement is a record that says which    *)
(* rows it reads or makes.  Binding has succeeded.  A step of a statement  *)
(* is one call on the table: the check of the key, an append, a scan, the  *)
(* replacement of the storage.  Connections in different threads           *)
(* interleave these calls; races inside one call are not modelled.         *)
(***************************************************************************)
EXTENDS Vectors, Integers, Sequences, FiniteSets, SequencesExt

CONSTANTS Connections,
          AnyKey, AnyVal, \* what a row may hold
          Statements,   \* what each connection may run
          Sources,      \* the tables INSERT ... SELECT and MERGE may read
          TooBig,       \* the rows a conversion to the table's types throws on
          Keyed,        \* whether the key column may be a PRIMARY KEY, or not
          Garbage, Idle,
          MaxRows,      \* bound on the rows of the table
          MaxStatements \* bound on the statements that are run

AnyRow == [key : AnyKey, val : AnyVal]

AnyStatement ==
  [op : {"values"}, rows : Seq(AnyRow)] \cup [op : {"select"}, from : {"source", "self"}]
  \cup [op : {"update"}, where : AnyKey, col : {"key"}, to : AnyKey]
  \cup [op : {"update"}, where : AnyKey, col : {"val"}, to : AnyVal]
  \cup [op : {"delete"}, where : AnyKey]
  \cup [op : {"merge", "truncate", "begin", "commit", "rollback"}]

\* A statement that is running: the rows it holds, and how many it has read.
AnyJob == [stmt : AnyStatement, at : {"start", "fetched", "checked", "built"},
           chunk : Seq(AnyRow), read : Nat]

ASSUME TableWritesAssumption ==
  /\ Keyed \subseteq BOOLEAN
  /\ MaxRows \in Nat /\ MaxStatements \in Nat
  /\ Statements \in [Connections -> SUBSET AnyStatement]
  /\ Sources \subseteq Seq(AnyRow)
  /\ Garbage \in AnyVal /\ \A r \in TooBig : [r EXCEPT !.val = Garbage] \notin TooBig
  /\ Idle \notin AnyJob

VARIABLES source,   \* the rows of the other table
          keyed,    \* whether the key column is a PRIMARY KEY
          rows,     \* the rows of the storage the catalog entry points to
          job,      \* the statement each connection is running, or Idle
          txn,      \* the connections with an active_txn_
          before,   \* history: the rows when each running statement started
          started,  \* how many statements were started
          outcome,  \* history: how the last statement ended
          overlap,  \* history: two statements ran at once
          rekeyed   \* history: an UPDATE has set the key column

given   == <<source, keyed>>
history == <<before, started, outcome, overlap, rekeyed>>
vars    == <<given, rows, job, txn, history>>

Keys(s) == {s[i].key : i \in DOMAIN s}

Init == /\ source \in Sources /\ keyed \in Keyed
        /\ rows = <<>>
        /\ job = [c \in Connections |-> Idle]
        /\ txn = {}
        /\ before = [c \in Connections |-> <<>>]
        /\ started = 0 /\ outcome = "ok"
        /\ overlap = FALSE /\ rekeyed = FALSE
-----------------------------------------------------------------------------
(* Running a statement                                                     *)

Is(c, op, at) == job[c] # Idle /\ job[c].stmt.op = op /\ job[c].at = at

OthersRun(c) == \E d \in Connections \ {c} : job[d] # Idle

Starts(c) == /\ started < MaxStatements
             /\ started' = started + 1
             /\ overlap' = (overlap \/ OthersRun(c))

Execute(c, stmt) ==
  /\ job[c] = Idle /\ stmt.op \notin {"truncate", "begin", "commit", "rollback"}
  /\ job' = [job EXCEPT ![c] = [stmt |-> stmt, at |-> "start", chunk |-> <<>>, read |-> 0]]
  /\ Starts(c)
  /\ before' = [before EXCEPT ![c] = rows]
  /\ rekeyed' = (rekeyed \/ (stmt.op = "update" /\ stmt.col = "key"))
  /\ UNCHANGED <<given, rows, txn, outcome>>

Goto(c, at)  == job' = [job EXCEPT ![c].at = at]
Hold(c, at, chunk) == job' = [job EXCEPT ![c].at = at, ![c].chunk = chunk]

(* The statement is over, with or without an exception.                    *)
End(c, how) == /\ job' = [job EXCEPT ![c] = Idle]
               /\ before' = [before EXCEPT ![c] = <<>>]
               /\ outcome' = how

(* ... or it goes on.                                                      *)
GoesOn == UNCHANGED <<before, outcome>>

Stay == UNCHANGED <<given, rows, txn, started, overlap, rekeyed>>
Throw(c) == End(c, "threw") /\ Stay

Write(new) == /\ Len(new) <= MaxRows
              /\ rows' = new
              /\ UNCHANGED <<given, txn, started, overlap, rekeyed>>

(* Fault: the rows of one chunk are not compared with each other.          *)
ConflictWithTable(chunk) == keyed /\ Keys(chunk) \cap Keys(rows) # {}

(* CheckPrimaryKeyForChunk: against the storage, and within the chunk.     *)
Conflict(chunk) == keyed /\ \/ Keys(chunk) \cap Keys(rows) # {}
                             \/ Cardinality(Keys(chunk)) < Len(chunk)
-----------------------------------------------------------------------------
TooBigIn(chunk) == \E i \in DOMAIN chunk : chunk[i] \in TooBig

(* INSERT ... VALUES: the binder rejects a literal NULL only; nothing      *)
(* looks at a NULL that an expression computes.                            *)
CheckValues(c) ==
  /\ Is(c, "values", "start")
  /\ IF TooBigIn(job[c].stmt.rows) \/ Conflict(job[c].stmt.rows)
     THEN Throw(c)
     ELSE Goto(c, "checked") /\ Stay /\ GoesOn

AppendValues(c) == /\ Is(c, "values", "checked")
                   /\ Write(rows \o job[c].stmt.rows)
                   /\ End(c, "ok")
-----------------------------------------------------------------------------
(* INSERT ... SELECT: one chunk after the other, each appended before the  *)
(* next is fetched.  The SELECT may read the table it inserts into.        *)
Read(c) == IF job[c].stmt.from = "self" THEN rows ELSE source

(* The count of rows that are left is unsigned: of a table that got shorter *)
(* than what was read, the scan delivers what lies past its rows.          *)
Past == {[i \in 1 .. VectorSize |-> [key |-> k, val |-> Garbage]] : k \in AnyKey}

Fetch(c) ==
  /\ Is(c, "select", "start")
  /\ LET left   == Len(Read(c)) - job[c].read
         n      == IF left \in 0 .. VectorSize THEN left ELSE VectorSize
         chunks == IF left < 0 THEN Past
                   ELSE {SubSeq(Read(c), job[c].read + 1, job[c].read + n)}
     IN  IF n = 0 \/ Read(c) = <<>>
         THEN End(c, "ok") /\ Stay
         ELSE /\ \E chunk \in chunks :
                   job' = [job EXCEPT ![c].at = "fetched", ![c].chunk = chunk, ![c].read = @ + n]
              /\ Stay /\ GoesOn

(* Fault: rows that break a constraint are skipped.                        *)
SkipDuplicates(c) ==
  /\ Is(c, "select", "fetched")
  /\ Hold(c, "checked", SelectSeq(job[c].chunk, LAMBDA r : r.key \notin Keys(rows)))
  /\ Stay /\ GoesOn

(* The chunk is coerced, checked for NULLs and for the key.                *)
CheckChunk(c) ==
  /\ Is(c, "select", "fetched")
  /\ IF \/ TooBigIn(job[c].chunk)
        \/ keyed /\ Null \in Keys(job[c].chunk)
        \/ Conflict(job[c].chunk)
     THEN Throw(c)
     ELSE Goto(c, "checked") /\ Stay /\ GoesOn

AppendChunk(c) == /\ Is(c, "select", "checked")
                  /\ Write(rows \o job[c].chunk)
                  /\ Hold(c, "start", <<>>)
                  /\ GoesOn
-----------------------------------------------------------------------------
(* UPDATE, DELETE and MERGE read everything, build a new storage, and put  *)
(* it in the place of the old one.  An expression may throw on a row, and  *)
(* the cast that UPDATE puts around one throws on what does not fit: the   *)
(* old storage then stays.                                                 *)

Updated(stmt, s) == [i \in DOMAIN s |->
                       IF s[i].key = stmt.where THEN [s[i] EXCEPT ![stmt.col] = stmt.to] ELSE s[i]]

(* The rows with one of some keys, in their order.                         *)
OnlyKeys(s, some) ==
  LET kept[n \in 0 .. Len(s)] ==
        IF n = 0 THEN <<>>
        ELSE IF s[n].key \in some THEN Append(kept[n - 1], s[n]) ELSE kept[n - 1]
  IN  kept[Len(s)]

Kept(stmt, s) == OnlyKeys(s, Keys(s) \ {stmt.where})

(* A source row updates every target row of its key, those inserted for    *)
(* earlier source rows included; if there is none it is inserted.  Nothing *)
(* is converted: what does not fit is stored as something else.            *)
MergeRow(target, src) ==
  IF src.key \in Keys(target)
  THEN [i \in DOMAIN target |-> IF target[i].key = src.key THEN src ELSE target[i]]
  ELSE Append(target, src)

Stored(r) == IF r \in TooBig THEN [r EXCEPT !.val = Garbage] ELSE r

MergedRows(s) ==
  LET target[n \in 0 .. Len(source)] == IF n = 0 THEN s ELSE MergeRow(target[n - 1], source[n])
  IN  target[Len(source)]

Merged(s) == [i \in DOMAIN MergedRows(s) |-> Stored(MergedRows(s)[i])]

(* target_matched has an entry per old row, and a source row that meets    *)
(* one inserted before it sets an entry past the end.                      *)
MarksPastEnd(s) == \E i, j \in DOMAIN source :
                     i < j /\ source[i].key = source[j].key /\ source[i].key \notin Keys(s)

Result(stmt, s) == CASE stmt.op = "update" -> Updated(stmt, s)
                     [] stmt.op = "delete" -> Kept(stmt, s)
                     [] stmt.op = "merge"  -> Merged(s)

Rewrites(c) == job[c] # Idle /\ job[c].stmt.op \in {"update", "delete", "merge"}

(* Fault: the rows are changed in place, up to the one that throws.        *)
RebuildInPlace(c) ==
  /\ Rewrites(c) /\ job[c].at = "start"
  /\ \/ Hold(c, "built", Result(job[c].stmt, rows)) /\ Stay /\ GoesOn
     \/ /\ job[c].stmt.op # "merge" /\ rows # <<>>
        /\ Write(Result(job[c].stmt, <<Head(rows)>>) \o Tail(rows))
        /\ End(c, "threw")

Rebuild(c) ==
  /\ Rewrites(c) /\ job[c].at = "start"
  /\ \/ /\ job[c].stmt.op = "update" => ~TooBigIn(Result(job[c].stmt, rows))
        /\ Hold(c, "built", Result(job[c].stmt, rows)) /\ Stay /\ GoesOn
     \/ job[c].stmt.op # "merge" /\ rows # <<>> /\ Throw(c)

(* The write past the end, or the read of a scan, may end the process; the *)
(* next one starts with an empty table.                                    *)
Abort(c) ==
  /\ \/ Is(c, "merge", "start") /\ MarksPastEnd(rows)
     \/ Is(c, "select", "start") /\ Read(c) # <<>> /\ job[c].read > Len(Read(c))
  /\ rows' = <<>>
  /\ job' = [d \in Connections |-> Idle]
  /\ txn' = {}
  /\ before' = [d \in Connections |-> <<>>]
  /\ outcome' = "aborted"
  /\ overlap' = FALSE /\ rekeyed' = FALSE
  /\ UNCHANGED <<given, started>>

SetStorage(c) == /\ Rewrites(c) /\ job[c].at = "built"
                 /\ Write(job[c].chunk)
                 /\ End(c, "ok")

(* TRUNCATE puts an empty storage in the place of the old one.             *)
Truncate(c) == /\ job[c] = Idle /\ [op |-> "truncate"] \in Statements[c]
               /\ rows' = <<>>
               /\ outcome' = "ok"
               /\ Starts(c)
               /\ UNCHANGED <<given, job, txn, before, rekeyed>>
-----------------------------------------------------------------------------
(* BEGIN, COMMIT and ROLLBACK keep track of who is in a transaction.  The  *)
(* undo buffer is never filled and the write lock never taken: ROLLBACK    *)
(* restores nothing.                                                       *)

Begin(c) == /\ job[c] = Idle /\ [op |-> "begin"] \in Statements[c]
            /\ c \notin txn
            /\ txn' = txn \cup {c}
            /\ outcome' = "ok"
            /\ Starts(c)
            /\ UNCHANGED <<given, rows, job, before, rekeyed>>

EndTransaction(c, op) == /\ job[c] = Idle /\ [op |-> op] \in Statements[c]
                         /\ c \in txn
                         /\ txn' = txn \ {c}
                         /\ outcome' = op
                         /\ Starts(c)
                         /\ UNCHANGED <<given, rows, job, before, rekeyed>>

Commit(c)   == EndTransaction(c, "commit")
Rollback(c) == EndTransaction(c, "rollback")
-----------------------------------------------------------------------------
Step(c) == \/ CheckValues(c) \/ AppendValues(c)
           \/ Fetch(c) \/ CheckChunk(c) \/ AppendChunk(c)
           \/ Rebuild(c) \/ Abort(c) \/ SetStorage(c)

Next == \E c \in Connections :
          \/ \E stmt \in Statements[c] : Execute(c, stmt)
          \/ Step(c)
          \/ Truncate(c) \/ Begin(c) \/ Commit(c) \/ Rollback(c)

Spec == Init /\ [][Next]_vars
-----------------------------------------------------------------------------
(* The primary key is unique, also when a later chunk of a copy repeats a  *)
(* key of an earlier one and when a MERGE meets keys twice.  The check and *)
(* the append of two statements that run at once may cross, and an UPDATE  *)
(* of the key column is not checked at all.                                *)
KeyIsUnique ==
  keyed /\ ~overlap /\ ~rekeyed =>
    \A i, j \in DOMAIN rows : rows[i].key = rows[j].key => i = j

Ends(c) == job[c] # Idle /\ job'[c] = Idle

LastOf(k) == LET at == CHOOSE i \in DOMAIN source :
                       /\ source[i].key = k
                       /\ \A j \in DOMAIN source : j > i => source[j].key # k
           IN  source[at]

(* What each statement is meant to do, said without an order of steps.     *)
Effect(stmt, s, t) ==
  CASE stmt.op = "values" -> t = s \o stmt.rows
    [] stmt.op = "select" -> stmt.from = "source" => t = s \o source
    [] stmt.op = "update" -> /\ Len(t) = Len(s)
                             /\ \A i \in DOMAIN s :
                                  IF s[i].key = stmt.where
                                  THEN t[i] = [s[i] EXCEPT ![stmt.col] = stmt.to]
                                  ELSE t[i] = s[i]
    [] stmt.op = "delete" -> \A k \in Keys(s) \cup Keys(t) :
                               OnlyKeys(t, {k}) =
                                 IF k = stmt.where THEN <<>> ELSE OnlyKeys(s, {k})
    [] stmt.op = "merge"  ->
         ToSet(source) \cap TooBig = {} =>
           /\ Keys(t) = Keys(s) \cup Keys(source)
           /\ \A i \in DOMAIN t : IF t[i].key \in Keys(source) THEN t[i] = LastOf(t[i].key)
                                  ELSE i \in DOMAIN s /\ t[i] = s[i]
           /\ \A i, j \in DOMAIN t : i < j /\ t[i].key = t[j].key => j \in DOMAIN s

(* A statement that succeeds has its whole effect, and one that throws has *)
(* none, unless it is an INSERT ... SELECT.                                *)
AllOrNothing ==
  [][\A c \in Connections : Ends(c) /\ ~overlap =>
       LET stmt == job[c].stmt
       IN  /\ outcome' = "ok" => Effect(stmt, before[c], rows')
           /\ outcome' = "threw" /\ stmt.op # "select" => rows' = before[c]]_vars

(* An INSERT ... SELECT leaves whole chunks of the source, wherever it     *)
(* throws.                                                                 *)
CopiesAPrefix ==
  \A c \in Connections :
    ~overlap /\ job[c] # Idle /\ job[c].stmt.op = "select" /\ job[c].stmt.from = "source" =>
      \E n \in 0 .. job[c].read :
        /\ rows = before[c] \o SubSeq(source, 1, n)
        /\ n % VectorSize = 0 \/ n = Len(source)
=============================================================================
