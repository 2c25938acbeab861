---------------------------- MODULE JsonStorage ----------------------------
(* agent/storage/local_json.py: one JSON file, the writers that save it and  *)
(* the readers that load it.  A save takes a file lock, writes a temporary   *)
(* file, copies the old file to a backup, renames the temporary file over    *)
(* the old one, and cleans up after it has given the lock back.  A writer    *)
(* may die between any two of these steps.                                   *)
EXTENDS Naturals

CONSTANTS Writer,     \* threads and processes that call save_json on the file
          MaxSaves,   \* bound: saves begun, which also number the documents
          MaxCrashes  \* bound: writers that die in the middle of a save

ASSUME BoundAssumption == MaxSaves \in Nat /\ MaxCrashes \in Nat

Doc == 1..MaxSaves
None == [doc |-> 0, whole |-> FALSE]     \* the path does not exist
File == [doc : Doc, whole : BOOLEAN]     \* whole: parses as the document
NoWriter == "no writer"

VARIABLES main, tmp, bak,  \* the file, filepath.tmp and filepath.bak
          lock,            \* who holds the flock on filepath.lock
          pc,              \* where the save of each writer stands
          doc,             \* the document each writer is saving
          outcome,         \* how its last save ended
          installed,       \* history: the documents ever renamed into place
          saves, crashes   \* counters for the bounds

vars == <<main, tmp, bak, lock, pc, doc, outcome, installed, saves, crashes>>
files == <<main, tmp, bak>>

ASSUME WriterAssumption == NoWriter \notin Writer

Holding == {"open", "dump", "backup", "copying", "replace", "unlock"}

Init ==
  /\ main = None /\ tmp = None /\ bak = None
  /\ lock = NoWriter
  /\ pc = [w \in Writer |-> "idle"]
  /\ doc = [w \in Writer |-> 0]
  /\ outcome = [w \in Writer |-> "none"]
  /\ installed = {} /\ saves = 0 /\ crashes = 0

Goto(w, label) == pc' = [pc EXCEPT ![w] = label]

Begin(w) ==
  /\ pc[w] = "idle" /\ saves < MaxSaves
  /\ saves' = saves + 1
  /\ doc' = [doc EXCEPT ![w] = saves + 1]
  /\ outcome' = [outcome EXCEPT ![w] = "none"]
  /\ Goto(w, "lock")
  /\ UNCHANGED <<files, lock, installed, crashes>>

\* Mutant: no lock is taken.
LockNothing(w) ==
  /\ pc[w] = "lock"
  /\ lock' = w
  /\ Goto(w, "open")
  /\ UNCHANGED <<files, doc, outcome, installed, saves, crashes>>

Lock(w) ==
  /\ pc[w] = "lock" /\ lock = NoWriter
  /\ lock' = w
  /\ Goto(w, "open")
  /\ UNCHANGED <<files, doc, outcome, installed, saves, crashes>>

\* open(tmp_path, "w") creates the temporary file or truncates a leftover.
OpenTmp(w) ==
  /\ pc[w] = "open"
  /\ tmp' = [doc |-> doc[w], whole |-> FALSE]
  /\ Goto(w, "dump")
  /\ UNCHANGED <<main, bak, lock, doc, outcome, installed, saves, crashes>>

\* The lock file cannot be opened or locked: the clean-up runs all the same.
LockRaises(w) ==
  /\ pc[w] = "lock"
  /\ outcome' = [outcome EXCEPT ![w] = "raised"]
  /\ Goto(w, "check")
  /\ UNCHANGED <<files, lock, doc, installed, saves, crashes>>

\* Mutant: nothing is flushed.
DumpUnflushed(w) ==
  /\ pc[w] = "dump"
  /\ Goto(w, "backup")
  /\ UNCHANGED <<files, lock, doc, outcome, installed, saves, crashes>>

\* json.dump, flush and fsync.  A file unlinked meanwhile is written in vain.
Dump(w) ==
  /\ pc[w] = "dump"
  /\ tmp' = IF tmp = None THEN None ELSE [tmp EXCEPT !.whole = TRUE]
  /\ Goto(w, "backup")
  /\ UNCHANGED <<main, bak, lock, doc, outcome, installed, saves, crashes>>

\* Mutant: the old file is moved to the backup instead of copied.
BeginBackupByMove(w) ==
  /\ pc[w] = "backup"
  /\ Goto(w, "replace") /\ bak' = main /\ main' = None
  /\ UNCHANGED <<tmp, lock, doc, outcome, installed, saves, crashes>>

\* shutil.copy2 rewrites the backup in place: it is torn until the copy ends.
BeginBackup(w) ==
  /\ pc[w] = "backup"
  /\ IF main = None
     THEN Goto(w, "replace") /\ UNCHANGED bak
     ELSE Goto(w, "copying") /\ bak' = [main EXCEPT !.whole = FALSE]
  /\ UNCHANGED <<main, tmp, lock, doc, outcome, installed, saves, crashes>>

EndBackup(w) ==
  /\ pc[w] = "copying"
  /\ bak' = main
  /\ Goto(w, "replace")
  /\ UNCHANGED <<main, tmp, lock, doc, outcome, installed, saves, crashes>>

\* os.replace, which raises FileNotFoundError when tmp_path is gone.
Replace(w) ==
  /\ pc[w] = "replace"
  /\ IF tmp = None
     THEN /\ outcome' = [outcome EXCEPT ![w] = "tmp missing"]
          /\ UNCHANGED <<files, installed>>
     ELSE /\ main' = tmp /\ tmp' = None
          /\ installed' = installed \union {tmp.doc}
          /\ outcome' = [outcome EXCEPT ![w] = "saved"]
          /\ UNCHANGED bak
  /\ Goto(w, "unlock")
  /\ UNCHANGED <<lock, doc, saves, crashes>>

Fails(w) ==
  /\ pc[w] \in {"open", "dump", "backup", "copying", "replace"}
  /\ pc[w] = "backup" => main # None
  /\ bak' \in IF pc[w] = "copying" THEN {bak, main} ELSE {bak}
  /\ outcome' = [outcome EXCEPT ![w] = "raised"]

\* Mutant: a backup that fails does not keep the save from going on.
RaisesButInBackup(w) ==
  /\ Fails(w)
  /\ Goto(w, IF pc[w] \in {"backup", "copying"} THEN "replace" ELSE "unlock")
  /\ UNCHANGED <<main, tmp, lock, doc, installed, saves, crashes>>

\* Any call between the lock and the rename may raise: the data cannot be
\* serialised, the disk is full.  A copy2 that raises leaves the backup torn,
\* or whole if only copystat failed; the rest of the save is left out.
Raises(w) ==
  /\ Fails(w)
  /\ Goto(w, "unlock")
  /\ UNCHANGED <<main, tmp, lock, doc, installed, saves, crashes>>

\* The finally block gives the lock back first ...
Unlock(w) ==
  /\ pc[w] = "unlock"
  /\ lock' = NoWriter
  /\ Goto(w, "check")
  /\ UNCHANGED <<files, doc, outcome, installed, saves, crashes>>


\* ... and then removes tmp_path if there is one, whoever wrote it.
CheckTmp(w) ==
  /\ pc[w] = "check"
  /\ Goto(w, IF tmp = None THEN "idle" ELSE "remove")
  /\ UNCHANGED <<files, lock, doc, outcome, installed, saves, crashes>>

\* An OSError of os.remove is swallowed.
RemoveTmp(w) ==
  /\ pc[w] = "remove"
  /\ tmp' \in {None, tmp}
  /\ Goto(w, "idle")
  /\ UNCHANGED <<main, bak, lock, doc, outcome, installed, saves, crashes>>

\* The writer's process dies: the kernel drops its lock, its files stay.
Crash(w) ==
  /\ pc[w] # "idle" /\ crashes < MaxCrashes
  /\ crashes' = crashes + 1
  /\ lock' = IF lock = w THEN NoWriter ELSE lock
  /\ outcome' = [outcome EXCEPT ![w] = "crashed"]
  /\ Goto(w, "idle")
  /\ UNCHANGED <<files, doc, installed, saves>>

\* load_json: the file, else the backup, else the default.
Load == IF main.whole THEN main.doc
        ELSE IF main # None /\ bak.whole THEN bak.doc ELSE 0

Save(w) ==
  \/ Lock(w) \/ LockRaises(w) \/ OpenTmp(w) \/ Dump(w) \/ BeginBackup(w) \/ EndBackup(w)
  \/ Replace(w) \/ Raises(w) \/ Unlock(w) \/ CheckTmp(w) \/ RemoveTmp(w)
AllDone == /\ saves = MaxSaves /\ \A w \in Writer : pc[w] = "idle"
           /\ UNCHANGED vars

Next == (\E w \in Writer : Begin(w) \/ Save(w) \/ Crash(w)) \/ AllDone
Spec == Init /\ [][Next]_vars
\* A save that is under way goes on; the kernel hands the flock on.
FairSpec == Spec /\ \A w \in Writer : WF_vars(Save(w))

-----------------------------------------------------------------------------
\* A reader finds, at every moment and after every crash, a whole document that
\* a save put there, from the first save that reported success on; never the
\* default and never half a document.
LoadsAWholeDocument ==
  /\ main # None => main.whole
  /\ (\E w \in Writer : outcome[w] = "saved") => Load \in installed

\* What the rename puts in place is the document of the writer that holds the
\* lock, whole, though other writers may be removing or have left behind
\* temporary files under the same name.
RenamesOwnDocument ==
  \A w \in Writer :
    pc[w] \in {"backup", "copying", "replace"} /\ tmp # None =>
      tmp = [doc |-> doc[w], whole |-> TRUE]

\* The backup is of a document that has been in place, and a torn backup -- a
\* copy is under way, failed half-way or was cut short by a crash, however many
\* saves ago -- is of the document that still is in place, whole: the copy of
\* the document before is never lost without a newer one to load.
BackupWasInPlace ==
  /\ bak # None => main # None /\ bak.doc \in installed
  /\ (bak # None /\ ~bak.whole) => main = [doc |-> bak.doc, whole |-> TRUE]

\* A failed or interrupted save leaves the file as it was: only a rename by the
\* holder of the lock changes it.
OnlyTheHolderReplaces ==
  [][main' # main => \E w \in Writer : lock = w /\ outcome'[w] = "saved"
                                      /\ main'.doc = doc[w]]_vars


\* agent/storage/local_json.py:20 -- the file lock keeps concurrent writes from
\* racing: while nothing else goes wrong, no save fails because of another save.
ConcurrentSavesDoNotCollide ==
  (\A w \in Writer : outcome[w] # "raised") => \A w \in Writer : outcome[w] # "tmp missing"
=============================================================================
