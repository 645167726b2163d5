--------------------------- MODULE DatabaseFile ----------------------------
(***************************************************************************)
(* The life of a database file: processes open it, change their in-memory  *)
(* catalog, and save on close by writing path.tmp, removing path and       *)
(* renaming path.tmp to path.  Processes may crash at any point and the    *)
(* disk may fill up.  A path names a file, so that two processes can have  *)
(* the same path.tmp open.  A catalog is the set of changes it contains;   *)
(* Checkpoint models what one save writes and one load reads.              *)
(***************************************************************************)
EXTENDS Naturals, FiniteSets

CONSTANTS Procs,        \* processes that open the database
          Writers,      \* those that change it
          Changes,      \* the changes they make
          Files,        \* file identities (inodes)
          NoFile,
          MaxCrashes    \* bound on the number of crashes

ASSUME DatabaseFileAssumption ==
  /\ Writers \subseteq Procs
  /\ NoFile \notin Files
  /\ MaxCrashes \in Nat

VARIABLES main,      \* the file that path names, or NoFile
          tmp,       \* the file that path.tmp names, or NoFile
          content,   \* what each file holds
          handle,    \* the file each process has open for writing
          st,        \* where each process is
          cat,       \* the catalog of each process
          diskFull,  \* whether writes may have failed
          crashes,   \* the number of crashes so far
          saved,     \* history: the changes of all the sessions that closed
          cut,       \* history: a crash fell between the removal and the rename
          overlap    \* history: two processes had the database open at once

files   == <<main, tmp, content, handle>>
history == <<crashes, saved, cut, overlap>>
vars    == <<files, st, cat, diskFull, history>>

(* "whole": a complete image; "part": anything shorter.                    *)
Content == [image : SUBSET Changes, is : {"whole", "part"}]
Blank   == [image |-> {}, is |-> "part"]
Image(c) == [image |-> c, is |-> "whole"]

Made == UNION {cat[p] : p \in Procs} \cup saved
        \cup UNION {content[f].image : f \in Files}

Init == /\ main = NoFile /\ tmp = NoFile
        /\ content = [f \in Files |-> Blank]
        /\ handle = [p \in Procs |-> NoFile]
        /\ st = [p \in Procs |-> "closed"]
        /\ cat = [p \in Procs |-> {}]
        /\ diskFull = FALSE
        /\ crashes = 0 /\ saved = {} /\ cut = FALSE /\ overlap = FALSE

Goto(p, s) == st' = [st EXCEPT ![p] = s]
-----------------------------------------------------------------------------
(* Fault: the constructor does not load the file.                          *)
OpenEmpty(p) ==
  /\ st[p] = "closed"
  /\ cat' = [cat EXCEPT ![p] = {}]
  /\ Goto(p, "open")
  /\ overlap' = (overlap \/ \E q \in Procs : st[q] # "closed")
  /\ UNCHANGED <<files, diskFull, crashes, saved, cut>>

(* The constructor: a missing file is an empty database, and Load throws   *)
(* on a partial one.  It does not look at path.tmp.                        *)
Open(p) ==
  /\ st[p] = "closed"
  /\ main # NoFile => content[main].is = "whole"
  /\ cat' = [cat EXCEPT ![p] = IF main = NoFile THEN {} ELSE content[main].image]
  /\ Goto(p, "open")
  /\ overlap' = (overlap \/ \E q \in Procs : st[q] # "closed")
  /\ UNCHANGED <<files, diskFull, crashes, saved, cut>>

Change(p, c) ==
  /\ p \in Writers /\ st[p] = "open"
  /\ c \notin Made
  /\ cat' = [cat EXCEPT ![p] = @ \cup {c}]
  /\ UNCHANGED <<files, st, diskFull, history>>
-----------------------------------------------------------------------------
(* The destructor.                                                         *)

(* Fault: the file itself is written, as it was before path.tmp came in.   *)
WriteInPlace(p) ==
  /\ st[p] = "open"
  /\ \E f \in Files :
       /\ main # NoFile => f = main
       /\ tmp' = f
       /\ content' = [content EXCEPT ![f] = Blank]
       /\ handle' = [handle EXCEPT ![p] = f]
  /\ Goto(p, "writing")
  /\ UNCHANGED <<main, cat, diskFull, history>>

(* fopen(path.tmp, "w+b") truncates the file if it exists, and the header  *)
(* goes first.                                                             *)
CreateTmp(p) ==
  /\ st[p] = "open"
  /\ \E f \in Files :
       /\ IF tmp # NoFile THEN f = tmp
          ELSE f # main /\ \A q \in Procs : handle[q] # f
       /\ tmp' = f
       /\ content' = [content EXCEPT ![f] = Blank]
       /\ handle' = [handle EXCEPT ![p] = f]
  /\ Goto(p, "writing")
  /\ UNCHANGED <<main, cat, diskFull, history>>

(* Another process writes to the same file: the bytes of both are mixed.   *)
Shared(p) == \E q \in Procs \ {p} : handle[q] = handle[p]

(* Save returns: the image is complete, unless the error of the last flush *)
(* went unnoticed or another process wrote to the file.                    *)
FinishTmp(p) ==
  /\ st[p] = "writing"
  /\ \E c \in {Image(cat[p])} \cup (IF diskFull \/ Shared(p) THEN {Blank} ELSE {}) :
       content' = [content EXCEPT ![handle[p]] = c]
  /\ handle' = [handle EXCEPT ![p] = NoFile]
  /\ Goto(p, "ready")
  /\ UNCHANGED <<main, tmp, cat, diskFull, history>>

(* fwrite comes up short: Save throws and the destructor gives up.         *)
SaveThrows(p) ==
  /\ st[p] = "writing" /\ diskFull
  /\ handle' = [handle EXCEPT ![p] = NoFile]
  /\ Goto(p, "closed")
  /\ UNCHANGED <<main, tmp, content, cat, diskFull, history>>

(* Fault: the old file may go before the new one is complete.              *)
RemoveMainEarly(p) ==
  /\ st[p] \in {"writing", "ready"}
  /\ main' = NoFile
  /\ Goto(p, IF st[p] = "ready" THEN "removed" ELSE "writing")
  /\ UNCHANGED <<tmp, content, handle, cat, diskFull, history>>

RemoveMain(p) ==
  /\ st[p] = "ready"
  /\ main' = NoFile
  /\ Goto(p, "removed")
  /\ UNCHANGED <<tmp, content, handle, cat, diskFull, history>>

(* A rename that fails for want of path.tmp is not noticed.                *)
RenameTmp(p) ==
  /\ st[p] = "removed"
  /\ main' = IF tmp # NoFile THEN tmp ELSE main
  /\ tmp' = NoFile
  /\ Goto(p, "closed")
  /\ saved' = saved \cup cat[p]
  /\ UNCHANGED <<content, handle, cat, diskFull, crashes, cut, overlap>>
-----------------------------------------------------------------------------
(* The process dies; what it had buffered for path.tmp is lost.            *)
Crash(p) ==
  /\ st[p] # "closed" /\ crashes < MaxCrashes
  /\ Goto(p, "closed")
  /\ handle' = [handle EXCEPT ![p] = NoFile]
  /\ crashes' = crashes + 1
  /\ cut' = (cut \/ st[p] = "removed")
  /\ UNCHANGED <<main, tmp, content, cat, diskFull, saved, overlap>>

FillDisk == /\ ~diskFull
            /\ diskFull' = TRUE
            /\ UNCHANGED <<files, st, cat, history>>

Close(p) == \/ CreateTmp(p) \/ FinishTmp(p) \/ SaveThrows(p)
            \/ RemoveMain(p) \/ RenameTmp(p)

Next == \/ \E p \in Procs : Open(p) \/ Close(p) \/ Crash(p)
        \/ \E p \in Procs, c \in Changes : Change(p, c)
        \/ FillDisk

Spec == Init /\ [][Next]_vars
-----------------------------------------------------------------------------
TypeOK == /\ main \in Files \cup {NoFile} /\ tmp \in Files \cup {NoFile}
          /\ content \in [Files -> Content]
          /\ handle \in [Procs -> Files \cup {NoFile}]
          /\ st \in [Procs -> {"closed", "open", "writing", "ready", "removed"}]
          /\ \A p \in Procs : handle[p] # NoFile <=> st[p] = "writing"
          /\ cat \in [Procs -> SUBSET Changes]
          /\ diskFull \in BOOLEAN /\ cut \in BOOLEAN /\ overlap \in BOOLEAN
          /\ crashes \in 0..MaxCrashes /\ saved \subseteq Changes

Holds(f, S) == f # NoFile /\ content[f].is = "whole" /\ S \subseteq content[f].image

(* As long as the sessions follow one another and the disk has room, path  *)
(* never names a partial file, wherever a process crashes: the next open   *)
(* succeeds.                                                               *)
Undisturbed == ~diskFull /\ ~overlap

MainIsWhole == Undisturbed /\ main # NoFile => content[main].is = "whole"

(* The changes of every closed session are in the file, or, while a close  *)
(* is between its two calls, in path.tmp.  Only a crash there loses them.  *)
SavedIsKept ==
  Undisturbed /\ ~cut /\ saved # {} =>
    IF \E p \in Procs : st[p] = "removed" THEN Holds(tmp, saved)
                                          ELSE Holds(main, saved)

(* path is given up only for a complete path.tmp that has all that was     *)
(* saved, unless an unnoticed write error spoiled it.                      *)
ReplacedOnlyWhenReady ==
  [][main # NoFile /\ main' = NoFile /\ Undisturbed
       => Holds(tmp, content[main].image)]_vars
-----------------------------------------------------------------------------
(* A claim of the sources that the code does not keep.  README.md: "Single *)
(* writer, crash-safe checkpoint."                                         *)
SavedSurvivesCrash ==
  Undisturbed => \A p \in Procs : st[p] = "open" => saved \subseteq cat[p]
=============================================================================
