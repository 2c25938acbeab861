------------------------- MODULE JsonStorageProofs -------------------------
(* What a reader of the file can rely on, for any number of writers, saves   *)
(* and crashes.                                                              *)
EXTENDS JsonStorage, TLAPS

Types ==
  /\ main \in File \union {None} /\ tmp \in File \union {None}
  /\ lock \in Writer \union {NoWriter}
  /\ pc \in [Writer -> Holding \union {"idle", "lock", "check", "remove"}]
  /\ doc \in [Writer -> Doc \union {0}]
  /\ outcome \in [Writer -> {"none", "saved", "tmp missing", "raised", "crashed"}]
  /\ installed \subseteq Doc /\ saves \in 0..MaxSaves

\* The writers between Lock and Unlock hold the lock.
HoldersHoldTheLock == \A w \in Writer : pc[w] \in Holding => lock = w

\* A save under way has a document.
HasDocument == \A w \in Writer : pc[w] # "idle" => doc[w] \in Doc

\* The temporary file of a save in progress is still empty until it is dumped.
DumpsIntoOwnFile ==
  \A w \in Writer : pc[w] = "dump" /\ tmp # None => tmp.doc = doc[w]

\* What is in place was renamed into place, and a save that reported success did.
InstalledIsWhole ==
  /\ main # None => main.whole /\ main.doc \in installed
  /\ (\E w \in Writer : outcome[w] = "saved") => main # None

IInv == /\ Types /\ HoldersHoldTheLock /\ HasDocument /\ DumpsIntoOwnFile
        /\ RenamesOwnDocument /\ InstalledIsWhole

\* "No file" is not the record of a file.
LEMMA NoneIsNoFile == \A f \in File : f # None
BY BoundAssumption DEF File, None, Doc

LEMMA InitEstablishes == Init => IInv
BY BoundAssumption
   DEF Init, IInv, Types, Holding, HoldersHoldTheLock, HasDocument,
       DumpsIntoOwnFile, RenamesOwnDocument, InstalledIsWhole, Doc

\* The steps that leave the files alone.
LEMMA LockStepPreserves ==
  ASSUME NEW w \in Writer
  PROVE  IInv /\ (Begin(w) \/ Lock(w) \/ LockRaises(w) \/ Unlock(w) \/ CheckTmp(w) \/ Raises(w)
             \/ Crash(w))
           => IInv'
<1> SUFFICES ASSUME IInv,
                    Begin(w) \/ Lock(w) \/ LockRaises(w) \/ Unlock(w) \/ CheckTmp(w) \/ Raises(w)
             \/ Crash(w)
             PROVE  IInv'
  OBVIOUS
<1> USE DEF IInv
<1>0. UNCHANGED <<main, tmp, installed>>
  BY DEF Begin, Lock, LockRaises, Unlock, CheckTmp, Fails, Raises, Crash, files
<1>1. CASE Begin(w)
  <2>1. saves + 1 \in Doc /\ saves' \in 0..MaxSaves
    <3>1. saves \in 0..MaxSaves /\ saves < MaxSaves /\ saves' = saves + 1
      BY <1>1 DEF Begin, Types
    <3> QED BY <3>1, BoundAssumption DEF Doc
  <2>2. Types'
    BY <1>0, <1>1, <2>1 DEF Types, Begin, Goto
  <2>3. HoldersHoldTheLock' /\ HasDocument'
    BY <1>1, <2>1 DEF Types, HoldersHoldTheLock, HasDocument, Begin, Goto, Holding
  <2>4. DumpsIntoOwnFile' /\ RenamesOwnDocument' /\ InstalledIsWhole'
    BY <1>0, <1>1 DEF Types, DumpsIntoOwnFile, RenamesOwnDocument, InstalledIsWhole, Begin, Goto
  <2> QED BY <2>2, <2>3, <2>4
<1>2. CASE Lock(w)
  <2>1. Types'
    BY <1>0, <1>2 DEF Types, Lock, Goto, Holding
  <2>2. HoldersHoldTheLock' /\ HasDocument'
    BY <1>2, WriterAssumption DEF Types, HoldersHoldTheLock, HasDocument, Lock, Goto
  <2>3. DumpsIntoOwnFile' /\ RenamesOwnDocument' /\ InstalledIsWhole'
    BY <1>0, <1>2 DEF Types, DumpsIntoOwnFile, RenamesOwnDocument, InstalledIsWhole, Lock, Goto
  <2> QED BY <2>1, <2>2, <2>3
<1>3. CASE Unlock(w)
  <2>1. Types'
    BY <1>0, <1>3 DEF Types, Unlock, Goto
  <2>2. HoldersHoldTheLock' /\ HasDocument'
    BY <1>3 DEF Types, HoldersHoldTheLock, HasDocument, Unlock, Goto, Holding
  <2>3. DumpsIntoOwnFile' /\ RenamesOwnDocument' /\ InstalledIsWhole'
    BY <1>0, <1>3 DEF Types, DumpsIntoOwnFile, RenamesOwnDocument, InstalledIsWhole, Unlock, Goto
  <2> QED BY <2>1, <2>2, <2>3
<1>4. CASE CheckTmp(w)
  <2>1. UNCHANGED <<lock, doc, outcome, saves>>
        /\ \E l \in {"idle", "remove"} : pc[w] = "check" /\ pc' = [pc EXCEPT ![w] = l]
    BY <1>4 DEF CheckTmp, Goto
  <2>2. Types' /\ HoldersHoldTheLock' /\ HasDocument'
    BY <1>0, <2>1 DEF Types, HoldersHoldTheLock, HasDocument, Holding
  <2>3. DumpsIntoOwnFile' /\ RenamesOwnDocument' /\ InstalledIsWhole'
    BY <1>0, <2>1 DEF Types, DumpsIntoOwnFile, RenamesOwnDocument, InstalledIsWhole
  <2> QED BY <2>2, <2>3
<1>5. CASE Raises(w) \/ LockRaises(w)
  <2>1. /\ UNCHANGED <<lock, doc, saves>> /\ outcome' = [outcome EXCEPT ![w] = "raised"]
        /\ \/ pc[w] \in Holding /\ pc' = [pc EXCEPT ![w] = "unlock"]
           \/ pc[w] = "lock" /\ pc' = [pc EXCEPT ![w] = "check"]
    BY <1>5 DEF Raises, Fails, LockRaises, Goto, files, Holding
  <2>2. Types'
    BY <1>0, <2>1 DEF Types, Holding
  <2>3. HoldersHoldTheLock' /\ HasDocument'
    BY <2>1 DEF Types, HoldersHoldTheLock, HasDocument, Holding
  <2>4. DumpsIntoOwnFile' /\ RenamesOwnDocument' /\ InstalledIsWhole'
    BY <1>0, <2>1 DEF Types, DumpsIntoOwnFile, RenamesOwnDocument, InstalledIsWhole
  <2> QED BY <2>2, <2>3, <2>4
<1>6. CASE Crash(w)
  <2>1. Types'
    BY <1>0, <1>6 DEF Types, Crash, Goto
  <2>2. \A v \in Writer : pc'[v] \in Holding => v # w /\ pc[v] \in Holding
    BY <1>6 DEF Types, Crash, Goto, Holding
  <2>3. HoldersHoldTheLock' /\ HasDocument'
    BY <1>6, <2>2 DEF Types, HoldersHoldTheLock, HasDocument, Crash, Goto
  <2>4. DumpsIntoOwnFile' /\ RenamesOwnDocument' /\ InstalledIsWhole'
    BY <1>0, <1>6 DEF Types, DumpsIntoOwnFile, RenamesOwnDocument, InstalledIsWhole, Crash, Goto
  <2> QED BY <2>1, <2>3, <2>4
<1> QED BY <1>1, <1>2, <1>3, <1>4, <1>5, <1>6

\* The steps on the three files.
LEMMA FileStepPreserves ==
  ASSUME NEW w \in Writer
  PROVE  IInv /\ (OpenTmp(w) \/ Dump(w) \/ BeginBackup(w) \/ EndBackup(w) \/ Replace(w) \/ RemoveTmp(w))
           => IInv'
<1> SUFFICES ASSUME IInv,
                    OpenTmp(w) \/ Dump(w) \/ BeginBackup(w) \/ EndBackup(w) \/ Replace(w) \/ RemoveTmp(w)
             PROVE  IInv'
  OBVIOUS
<1> USE DEF IInv
<1>0. UNCHANGED <<lock, doc, saves>>
  BY DEF OpenTmp, Dump, BeginBackup, EndBackup, Replace, RemoveTmp
<1>1. \A v \in Writer : v # w /\ pc[w] \in Holding => pc[v] \notin Holding
  BY DEF HoldersHoldTheLock
<1>2. \A v \in Writer : v # w => pc'[v] = pc[v]
  BY DEF Types, OpenTmp, Dump, BeginBackup, EndBackup, Replace, RemoveTmp, Goto
<1>3. HoldersHoldTheLock' /\ HasDocument'
  BY <1>0 DEF Types, HoldersHoldTheLock, HasDocument, Holding,
              OpenTmp, Dump, BeginBackup, EndBackup, Replace, RemoveTmp, Goto
<1>4. CASE OpenTmp(w)
  <2>1. tmp' = [doc |-> doc[w], whole |-> FALSE] /\ tmp' \in File
    BY <1>4 DEF OpenTmp, HasDocument, File
  <2>2. Types' /\ InstalledIsWhole'
    BY <1>0, <1>4, <2>1 DEF OpenTmp, Types, Goto, Holding, InstalledIsWhole
  <2>3. \A v \in Writer : pc'[v] \in Holding => v = w /\ pc'[v] = "dump"
    BY <1>1, <1>2, <1>4 DEF OpenTmp, Types, Goto, Holding
  <2>4. DumpsIntoOwnFile' /\ RenamesOwnDocument'
    BY <1>0, <2>1, <2>3 DEF Holding, DumpsIntoOwnFile, RenamesOwnDocument
  <2> QED BY <1>3, <2>2, <2>4
<1>5. CASE Dump(w)
  <2>1. \/ tmp = None /\ tmp' = None
        \/ tmp # None /\ tmp' = [doc |-> doc[w], whole |-> TRUE] /\ tmp' \in File
    BY <1>5 DEF Dump, Types, DumpsIntoOwnFile, File
  <2>2. Types' /\ InstalledIsWhole'
    BY <1>0, <1>5, <2>1 DEF Dump, Types, Goto, Holding, InstalledIsWhole
  <2>3. DumpsIntoOwnFile' /\ RenamesOwnDocument'
    BY <1>0, <1>1, <1>2, <1>5, <2>1
       DEF Dump, Types, Goto, Holding, DumpsIntoOwnFile, RenamesOwnDocument
  <2> QED BY <1>3, <2>2, <2>3
<1>6. CASE BeginBackup(w) \/ EndBackup(w)
  <2>1. UNCHANGED <<main, tmp, outcome, installed>>
    BY <1>6 DEF BeginBackup, EndBackup
  <2>2. Types' /\ InstalledIsWhole'
    BY <1>0, <1>6, <2>1
       DEF BeginBackup, EndBackup, Types, Goto, Holding, InstalledIsWhole
  <2>3. DumpsIntoOwnFile' /\ RenamesOwnDocument'
    BY <1>0, <1>6, <2>1
       DEF BeginBackup, EndBackup, Types, Goto, DumpsIntoOwnFile, RenamesOwnDocument
  <2> QED BY <1>3, <2>2, <2>3
<1>7. CASE Replace(w)
  <2>1. tmp # None => tmp.whole /\ tmp.doc \in Doc
    <3>1. tmp # None => tmp = [doc |-> doc[w], whole |-> TRUE]
      BY <1>7 DEF Replace, RenamesOwnDocument
    <3>2. doc[w] \in Doc
      BY <1>7 DEF Replace, HasDocument
    <3> QED BY <3>1, <3>2
  <2>2. Types' /\ InstalledIsWhole'
    <3>1. CASE tmp = None
      <4>1. /\ UNCHANGED <<main, tmp, installed>>
            /\ outcome' = [outcome EXCEPT ![w] = "tmp missing"]
            /\ pc' = [pc EXCEPT ![w] = "unlock"]
        BY <1>7, <3>1 DEF Replace, files, Goto
      <4>2. Types'
        BY <1>0, <4>1 DEF Types, Holding
      <4>3. InstalledIsWhole'
        BY <4>1 DEF Types, InstalledIsWhole
      <4> QED BY <4>2, <4>3
    <3>2. CASE tmp # None
      <4>1. main' = tmp /\ tmp' = None /\ installed' = installed \union {tmp.doc}
        BY <1>7, <3>2 DEF Replace
      <4>2. Types'
        BY <1>0, <1>7, <2>1, <3>2, <4>1 DEF Replace, Types, Goto, Holding
      <4>3. InstalledIsWhole'
        BY <2>1, <3>2, <4>1 DEF InstalledIsWhole
      <4> QED BY <4>2, <4>3
    <3> QED BY <3>1, <3>2
  <2>3. DumpsIntoOwnFile' /\ RenamesOwnDocument'
    BY <1>0, <1>1, <1>2, <1>7
       DEF Replace, Types, Goto, Holding, DumpsIntoOwnFile, RenamesOwnDocument
  <2> QED BY <1>3, <2>2, <2>3
<1>8. CASE RemoveTmp(w)
  <2>1. UNCHANGED <<main, outcome, installed>> /\ tmp' \in {None, tmp}
    BY <1>8 DEF RemoveTmp
  <2>2. Types' /\ InstalledIsWhole'
    BY <1>0, <1>8, <2>1 DEF RemoveTmp, Types, Goto, Holding, InstalledIsWhole
  <2>3. DumpsIntoOwnFile' /\ RenamesOwnDocument'
    BY <1>0, <1>8, <2>1 DEF RemoveTmp, Types, Goto, DumpsIntoOwnFile, RenamesOwnDocument
  <2> QED BY <1>3, <2>2, <2>3
<1> QED BY <1>4, <1>5, <1>6, <1>7, <1>8

\* The lock, the temporary file and the installed document fit together.
THEOREM Invariance == Spec => []IInv
<1>1. IInv /\ UNCHANGED vars => IInv'
  BY DEF vars, IInv, Types, HoldersHoldTheLock, HasDocument, DumpsIntoOwnFile,
         RenamesOwnDocument, InstalledIsWhole
<1>2. IInv /\ [Next]_vars => IInv'
  BY <1>1, LockStepPreserves, FileStepPreserves DEF Next, Save, AllDone
<1> QED BY <1>2, InitEstablishes, PTL DEF Spec

\* Readers always find a whole document once a save has succeeded.
THEOREM LoadsAreWhole == Spec => []LoadsAWholeDocument
<1>1. IInv => LoadsAWholeDocument
  BY DEF IInv, InstalledIsWhole, LoadsAWholeDocument, Load
<1> QED BY <1>1, Invariance, PTL

\* A rename installs the document of the writer that holds the lock, complete.
THEOREM RenamesAreOwn == Spec => []RenamesOwnDocument
<1>1. IInv => RenamesOwnDocument
  BY DEF IInv
<1> QED BY <1>1, Invariance, PTL

\* Nothing but a successful save by the holder of the lock changes the file.
THEOREM FileChangesByRename == Spec => OnlyTheHolderReplaces
<1> DEFINE ByHolder == main' # main => \E w \in Writer : lock = w /\ outcome'[w] = "saved"
                                                        /\ main'.doc = doc[w]
<1>1. IInv /\ [Next]_vars => [ByHolder]_vars
  <2> SUFFICES ASSUME IInv, Next, main' # main
               PROVE  \E w \in Writer : lock = w /\ outcome'[w] = "saved"
                                               /\ main'.doc = doc[w]
    OBVIOUS
  <2>1. PICK w \in Writer : Replace(w) /\ tmp # None
    BY DEF Next, Save, AllDone, vars, files, Begin, Crash, Lock, LockRaises, OpenTmp, Dump, Fails,
           Raises, BeginBackup, EndBackup, Replace, Unlock, CheckTmp, RemoveTmp
  <2>2. lock = w /\ tmp.doc = doc[w]
    BY <2>1 DEF Replace, IInv, HoldersHoldTheLock, Holding, RenamesOwnDocument
  <2> QED BY <2>1, <2>2 DEF Replace, IInv, Types
<1> QED BY <1>1, Invariance, PTL DEF Spec, OnlyTheHolderReplaces

\* Who is about to rename has made its backup whole, or had nothing to copy.
BackedUp == \A w \in Writer : pc[w] = "replace" /\ bak # None => bak.whole

BackupIInv == BackupWasInPlace /\ BackedUp

\* The steps on the backup itself.
LEMMA BackupStep ==
  ASSUME IInv, BackupIInv, NEW w \in Writer, BeginBackup(w) \/ EndBackup(w) \/ Raises(w)
  PROVE  BackupIInv'
<1> USE DEF BackupIInv
<1>1. UNCHANGED <<main, installed>> /\ (main # None => main \in File)
  BY DEF BeginBackup, EndBackup, Raises, Fails, IInv, Types
<1>2. main # None => main.whole /\ main.doc \in installed
                     /\ main = [doc |-> main.doc, whole |-> TRUE]
  BY <1>1 DEF IInv, InstalledIsWhole, File
<1>3. \A v \in Writer : v # w => pc'[v] = pc[v] /\ pc[v] # "replace"
  BY DEF BeginBackup, EndBackup, Raises, Fails, Goto, IInv, Types, HoldersHoldTheLock, Holding
<1>4. CASE BeginBackup(w)
  <2>1. CASE main = None
    <3>1. bak' = bak /\ bak = None
      BY <1>4, <2>1 DEF BeginBackup, BackupWasInPlace
    <3> QED BY <3>1 DEF BackupWasInPlace, BackedUp
  <2>2. CASE main # None
    <3>1. bak' = [main EXCEPT !.whole = FALSE] /\ pc'[w] = "copying"
      BY <1>4, <2>2 DEF BeginBackup, Goto, IInv, Types
    <3>2. bak'.doc = main.doc
      BY <1>1, <2>2, <3>1 DEF File
    <3> QED BY <1>1, <1>2, <1>3, <2>2, <3>1, <3>2 DEF BackupWasInPlace, BackedUp
  <2> QED BY <2>1, <2>2
<1>5. CASE EndBackup(w)
  <2>1. bak' = main
    BY <1>5 DEF EndBackup
  <2> QED BY <1>1, <1>2, <2>1 DEF BackupWasInPlace, BackedUp
<1>6. CASE Raises(w)
  <2>1. bak' \in {bak, main} /\ pc'[w] = "unlock"
    BY <1>6 DEF Raises, Fails, Goto, IInv, Types
  <2> QED BY <1>1, <1>2, <1>3, <2>1 DEF BackupWasInPlace, BackedUp
<1> QED BY <1>4, <1>5, <1>6

\* The rename needs the backup whole; the other steps leave both files alone.
LEMMA BackupPreserved ==
  ASSUME IInv, BackupIInv, NEW w \in Writer, Begin(w) \/ Save(w) \/ Crash(w)
  PROVE  BackupIInv'
<1> USE DEF BackupIInv
<1>1. CASE BeginBackup(w) \/ EndBackup(w) \/ Raises(w)
  BY <1>1, BackupStep
<1>2. CASE Replace(w)
  <2>1. bak' = bak /\ (bak # None => bak.whole) /\ installed \subseteq installed'
        /\ (main # None => main' # None)
    BY <1>2 DEF Replace, files, BackedUp
  <2> QED BY <2>1 DEF BackupWasInPlace, BackedUp
<1>3. CASE Begin(w) \/ Lock(w) \/ LockRaises(w) \/ OpenTmp(w) \/ Dump(w) \/ Unlock(w)
           \/ CheckTmp(w) \/ RemoveTmp(w) \/ Crash(w)
  <2>1. UNCHANGED <<main, bak, installed>>
        /\ \A v \in Writer : pc'[v] = "replace" => pc[v] = "replace"
    BY <1>3 DEF Begin, Crash, Lock, LockRaises, OpenTmp, Dump, Unlock, CheckTmp, RemoveTmp,
       Goto, files, IInv, Types
  <2> QED BY <2>1 DEF BackupWasInPlace, BackedUp
<1> QED BY <1>1, <1>2, <1>3 DEF Save

\* The backup is a document that was in place; half a copy is of the document
\* that still is.
THEOREM BackupsWereInPlace == Spec => []BackupWasInPlace
<1>1. Init => BackupIInv
  BY DEF Init, BackupIInv, BackupWasInPlace, BackedUp
<1>2. IInv /\ BackupIInv /\ [Next]_vars => BackupIInv'
  <2>1. BackupIInv /\ UNCHANGED vars => BackupIInv'
    BY DEF vars, BackupIInv, BackupWasInPlace, BackedUp
  <2> QED BY <2>1, BackupPreserved DEF Next, AllDone
<1> QED BY <1>1, <1>2, Invariance, PTL DEF Spec, BackupIInv
=============================================================================
