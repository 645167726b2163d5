------------------------------ MODULE LiveView ------------------------------
(***************************************************************************)
(* CREATE LIVE VIEW: a view that keeps the rows of a CSV file and decides, *)
(* from the size and the first bytes of the file, whether a SELECT may use *)
(* them as they are (a hit), has to parse what was appended (incremental), *)
(* or has to parse the whole file again (a rescan).                        *)
(*                                                                         *)
(* The file is a sequence of bytes, one byte a letter of a field or NL; a  *)
(* row is the text of a line after the header line.  Someone else writes   *)
(* the file.  Every look the code takes at it is a step of its own.        *)
(***************************************************************************)
EXTENDS Integers, Sequences, FiniteSets, SequencesExt

CONSTANTS Connections,
          NL, Missing,
          Files,        \* what the file may be at the start
          Contents,     \* what it may be rewritten to
          Tails,        \* what may be appended to it
          HeadSize,     \* the bytes compared as the beginning of the file (64)
          MaxSize,      \* bound on the size of the file
          MaxChanges    \* bound on the number of changes

ASSUME LiveViewAssumption ==
  /\ HeadSize \in Nat /\ MaxSize \in Nat /\ MaxChanges \in Nat
  /\ Missing \notin Files \cup Contents
  /\ \A f \in Files \cup Contents \cup Tails : f \in Seq(Range(f))

VARIABLES file,      \* the contents of the file, or Missing
          eligible,  \* incremental_eligible_: SELECT * FROM a .csv or .tsv
          view,      \* the catalog entry: rows of its storage, last_size_, first_bytes_
          created,   \* how far CREATE LIVE VIEW has come
          select,    \* the SELECT of each connection: its state, the size it saw
                     \* and, once it has to append, the last_size_ it found
          changes,   \* the number of changes so far
          quiet,     \* history: the SELECTs under which the file has not changed
          versions,  \* history: everything the file has been
          races      \* history: what has crossed: a change of the file with
                     \*   "create" or "select", or "two" SELECTs

history == <<changes, quiet, versions, races>>
vars    == <<file, eligible, view, created, select, history>>
-----------------------------------------------------------------------------
(* Reading the file                                                        *)

Size == Len(file)

Beginning(v) == SubSeq(v, 1, IF Len(v) < HeadSize THEN Len(v) ELSE HeadSize)
FirstBytes == Beginning(file)

Minimum(S) == CHOOSE m \in S : \A x \in S : m <= x

(* The offset behind the next newline at or after an offset (both count    *)
(* from 0, as in the code), or the size when there is none.                *)
FindLineStart(buffer, offset) ==
  Minimum({i \in offset + 1 .. Len(buffer) : buffer[i] = NL}
            \cup {IF offset < Len(buffer) THEN Len(buffer) ELSE offset})

(* ReadChunk until it returns 0: the lines from an offset to the end.  In  *)
(* rows[n] are those that begin within the first n bytes.                  *)
ParseFrom(buffer, pos) ==
  LET Line(i) == LET next == FindLineStart(buffer, i - 1)
                 IN  SubSeq(buffer, i, IF buffer[next] = NL THEN next - 1 ELSE next)
      rows[n \in 0 .. Len(buffer)] ==
        IF n <= pos THEN <<>>
        ELSE IF n = pos + 1 \/ buffer[n - 1] = NL THEN Append(rows[n - 1], Line(n))
        ELSE rows[n - 1]
  IN  rows[Len(buffer)]

Rows(buffer) == ParseFrom(buffer, FindLineStart(buffer, 0))
-----------------------------------------------------------------------------
Init == /\ file \in Files /\ eligible \in BOOLEAN
        /\ view = [rows |-> <<>>, size |-> 0, head |-> <<>>]
        /\ created = "no"
        /\ select = [c \in Connections |-> [at |-> "idle", size |-> 0, last |-> 0]]
        /\ changes = 0
        /\ quiet = Connections /\ versions = {file} /\ races = {}

Busy(c) == select[c].at \notin {"idle", "done"}

At(c, at)   == select[c].at = at
Goto(c, at) == select' = [select EXCEPT ![c].at = at]

(* CREATE LIVE VIEW: run the query, then ask for the size, then read the   *)
(* beginning.  Nothing is created if the query throws.                     *)
CreateQuery == /\ created = "no" /\ file # Missing
               /\ view' = [view EXCEPT !.rows = Rows(file)]
               /\ created' = "queried"
               /\ UNCHANGED <<file, eligible, select, history>>

CreateStat == /\ created = "queried"
              /\ IF file = Missing
                 THEN created' = "yes" /\ UNCHANGED view
                 ELSE created' = "sized" /\ view' = [view EXCEPT !.size = Size]
              /\ UNCHANGED <<file, eligible, select, history>>

CreateHead == /\ created = "sized"
              /\ view' = [view EXCEPT !.head = IF file = Missing THEN <<>> ELSE FirstBytes]
              /\ created' = "yes"
              /\ UNCHANGED <<file, eligible, select, history>>
-----------------------------------------------------------------------------
(* expand_view, for every SELECT that names the view                       *)

(* The size; a failure goes straight to the query of the view.             *)
Stat(c) == /\ created = "yes" /\ ~Busy(c)
           /\ quiet' = quiet \cup {c}
           /\ select' = [select EXCEPT ![c] =
                           IF file = Missing THEN [at |-> "rescan", size |-> 0, last |-> 0]
                                             ELSE [at |-> "sized", size |-> Size, last |-> 0]]
           /\ races' = races \cup (IF \E d \in Connections : Busy(d) THEN {"two"} ELSE {})
           /\ UNCHANGED <<file, eligible, view, created, changes, versions>>

Hit(c, head) == head = view.head /\ select[c].size = view.size
Grew(c, head) == eligible /\ head = view.head /\ select[c].size > view.size

(* The beginning, and the decision.  A rescan records the new size and     *)
(* beginning before the query runs; an append remembers the size recorded. *)
Decide(c) ==
  /\ At(c, "sized")
  /\ LET head == IF file = Missing THEN <<>> ELSE FirstBytes
     IN  \/ Hit(c, head) /\ Goto(c, "done") /\ UNCHANGED view
         \/ /\ ~Hit(c, head) /\ Grew(c, head) /\ UNCHANGED view
            /\ select' = [select EXCEPT ![c].at = "append", ![c].last = view.size]
         \/ /\ ~Hit(c, head) /\ ~Grew(c, head) /\ Goto(c, "rescan")
            /\ view' = [view EXCEPT !.size = select[c].size, !.head = head]
  /\ UNCHANGED <<file, eligible, created, history>>

(* Fault: last_size_ stays what it was.                                    *)
AppendTailOnly(c) ==
  /\ At(c, "append") /\ file # Missing
  /\ view' = [view EXCEPT !.rows = @ \o ParseFrom(file, FindLineStart(file, select[c].last))]
  /\ Goto(c, "done")
  /\ UNCHANGED <<file, eligible, created, history>>

(* Fault: the parser starts at the seam itself.                            *)
AppendFromSeam(c) ==
  /\ At(c, "append") /\ file # Missing
  /\ view' = [view EXCEPT !.rows = @ \o ParseFrom(file, select[c].last),
                          !.size = select[c].size]
  /\ Goto(c, "done")
  /\ UNCHANGED <<file, eligible, created, history>>

(* The file is mapped at the size it has now; last_size_ becomes the size  *)
(* it had before.  The seam is where it was at the decision, even if        *)
(* another SELECT has appended since.                                      *)
AppendTail(c) ==
  /\ At(c, "append") /\ file # Missing
  /\ view' = [view EXCEPT !.rows = @ \o ParseFrom(file, FindLineStart(file, select[c].last)),
                          !.size = select[c].size]
  /\ Goto(c, "done")
  /\ UNCHANGED <<file, eligible, created, history>>

(* Fault: the rows of the query are added to those of the view.            *)
RescanOntoOld(c) == /\ At(c, "rescan") /\ file # Missing
                    /\ view' = [view EXCEPT !.rows = @ \o Rows(file)]
                    /\ Goto(c, "done")
                    /\ UNCHANGED <<file, eligible, created, history>>

Rescan(c) == /\ At(c, "rescan") /\ file # Missing
             /\ view' = [view EXCEPT !.rows = Rows(file)]
             /\ Goto(c, "done")
             /\ UNCHANGED <<file, eligible, created, history>>

(* The file cannot be opened: the statement ends with an exception.        *)
SelectThrows(c) == /\ select[c].at \in {"append", "rescan"} /\ file = Missing
                   /\ Goto(c, "idle")
                   /\ UNCHANGED <<file, eligible, view, created, history>>
-----------------------------------------------------------------------------
(* The program that writes the file                                        *)

Change(new) ==
  /\ changes < MaxChanges
  /\ file' = new
  /\ changes' = changes + 1
  /\ quiet' = {}
  /\ versions' = versions \cup {new}
  /\ races' = races \cup (IF created \in {"queried", "sized"} THEN {"create"} ELSE {})
                    \cup (IF \E c \in Connections : Busy(c) THEN {"select"} ELSE {})
  /\ UNCHANGED <<eligible, view, created, select>>

Extend == \E tail \in Tails : /\ file # Missing /\ Size + Len(tail) <= MaxSize
                              /\ Change(file \o tail)
Rewrite == \E new \in Contents : new # file /\ Change(new)
Vanish  == file # Missing /\ Change(Missing)

Next == \/ CreateQuery \/ CreateStat \/ CreateHead
        \/ \E c \in Connections : \/ Stat(c) \/ Decide(c) \/ AppendTail(c)
                                  \/ Rescan(c) \/ SelectThrows(c)
        \/ Extend \/ Rewrite \/ Vanish

Spec == Init /\ [][Next]_vars
-----------------------------------------------------------------------------
Begins(v, w) == Len(v) <= Len(w) /\ SubSeq(w, 1, Len(v)) = v
EndsLine(v)  == v # <<>> /\ v[Len(v)] = NL

(* One version can be told from another that replaces it by its size, or   *)
(* by its beginning if no SELECT met both.  A view that parses what was    *)
(* appended also needs the seam to be the end of an unfinished line.       *)
ToldApart(v, w) ==
  \/ v = w
  \/ "select" \notin races /\ Beginning(v) # Beginning(w)
  \/ ~eligible /\ Len(v) # Len(w)
  \/ Len(v) < Len(w) /\ Begins(v, w) /\ ~EndsLine(v) /\ w[Len(v) + 1] = NL

(* A SELECT under which the file has not changed answers with the rows of  *)
(* the file: "auto-refreshes on file change".  That holds while the        *)
(* versions of the file can be told apart, no other SELECT and no change   *)
(* has come between a look at the file and what was made of it, or the     *)
(* whole file is parsed again and no version of it comes back.             *)
SelectIsCurrent ==
  /\ Missing \notin versions /\ races \cap {"create", "two"} = {}
  /\ "select" \in races => ~eligible /\ Cardinality(versions) = changes + 1
  /\ \A v, w \in versions : ToldApart(v, w) \/ ToldApart(w, v)
  => \A c \in quiet : At(c, "done") => view.rows = Rows(file)

(* A view that is not eligible answers every SELECT with all the rows of   *)
(* one version of the file, whatever happens to the file under it.         *)
WholeVersion ==
  ~eligible => \A c \in Connections : At(c, "done") =>
    \E v \in versions \ {Missing} : view.rows = Rows(v)

(* The file has only grown, by whole lines.                                *)
GrowsByLines == /\ Missing \notin versions
                /\ \A v, w \in versions : EndsLine(v) /\ (Begins(v, w) \/ Begins(w, v))

(* Some of the members of t, in order.                                     *)
IsPartOf(s, t) ==
  \E at \in [DOMAIN s -> DOMAIN t] :
    \A i, j \in DOMAIN s : s[i] = t[at[i]] /\ (i < j => at[i] < at[j])

(* Then the view never holds a line twice, nor one the file does not have, *)
(* unless the file grew while a SELECT parsed what had been appended.      *)
OnlyFileRows ==
  GrowsByLines /\ races = {} =>
    \A c \in quiet : At(c, "done") => IsPartOf(view.rows, Rows(file))
-----------------------------------------------------------------------------
(* A claim of the sources that the code does not keep.                     *)

(* DOCUMENTATION.md: "file grew: SlothDB parses only the 100 new rows and  *)
(* appends them to the cache."                                             *)
AppendsAreSeen ==
  GrowsByLines /\ races = {} =>
    \A c \in quiet : At(c, "done") => view.rows = Rows(file)
=============================================================================
