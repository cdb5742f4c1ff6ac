------------------------ MODULE UpdateRollback_proofs ------------------------
(***************************************************************************)
(* Updates and rollbacks for every set of files and every number of        *)
(* updates, backups, seconds, crashes and failures: a completed backup     *)
(* stays available until the next update begins, a rollback brings it      *)
(* back, and a journal that says Complete is right.                        *)
(***************************************************************************)
EXTENDS UpdateRollback, FiniteSetTheorems, TLAPS

Newest(t) == t \in Made /\ \A u \in Made : u <= t

\* Every file of `from` that is not in `rest` has been copied to `dir`.
Copied(dir, from, rest) ==
    /\ dir # NoDir
    /\ \A f \in DOMAIN from \ rest : f \in DOMAIN dir /\ dir[f] = from[f]

\* Backups are no newer than the clock, and one of them is the newest.
Ordered ==
    /\ \A t \in Made : t <= clock
    /\ Made # {} => \E t \in Times : Newest(t)

\* Until its backup is made, an update leaves what it found alone.
Backing ==
    /\ pc \in {"verifying", "begin backup", "backing up"}
         => ~backed /\ before = install
    /\ pc = "backing up" =>
         /\ slot = clock /\ install # NoDir /\ todo \subseteq DOMAIN install
         /\ Copied(backups[slot], install, todo)

Installing ==
    pc = "installing" =>
        /\ install # NoDir
        /\ \A f \in carries \ todo : f \in DOMAIN install /\ install[f] = version

\* The backup in use is the newest.
Restoring ==
    /\ pc \in {"installing", "removing", "restoring"} => Newest(slot)
    /\ pc = "restoring" =>
         /\ todo \subseteq DOMAIN backups[slot]
         /\ Copied(install, backups[slot], todo)

\* The newest backup holds what the update found, once it is complete.
Kept == backed => \E t \in Times : Newest(t) /\ Holds(backups[t], before)

\* Nothing is installed after a rollback or a complete update before another
\* update or startup begins.
Settled ==
    /\ restored => pc \in {"clearing", "ready", "down"}
    /\ journal = "Complete" => pc \in {"down", "starting", "ready"}
    /\ RollbackRestores
    /\ CompleteMeansInstalled

IndInv ==
    TypeOK /\ Ordered /\ Backing /\ Installing /\ Restoring /\ Kept /\ Settled

-----------------------------------------------------------------------------
(* Directories *)

\* What a directory is made of.
LEMMA DirElim ==
    ASSUME NEW d \in Dirs
    PROVE  /\ DOMAIN d \in SUBSET Files
           /\ d \in [DOMAIN d -> Contents]
           /\ \A f \in DOMAIN d : d[f] \in Contents
           /\ d # NoDir
  BY NoDirAssumption DEF Dirs

\* Any function from some of the files to contents is one.
LEMMA DirIntro ==
    ASSUME NEW S \in SUBSET Files, NEW d \in [S -> Contents]
    PROVE  d \in Dirs
  BY DEF Dirs

\* The empty directory.
LEMMA EmptyDirLemma ==
    EmptyDir \in Dirs /\ DOMAIN EmptyDir = {}
<1>1. EmptyDir \in [{} -> Contents] /\ DOMAIN EmptyDir = {}
  BY DEF EmptyDir
<1>2. QED BY <1>1, DirIntro

\* Writing a file.
LEMMA WithLemma ==
    ASSUME NEW d \in Dirs, NEW f \in Files, NEW c \in Contents
    PROVE  /\ With(d, f, c) \in Dirs
           /\ With(d, f, c) # NoDir
           /\ DOMAIN With(d, f, c) = DOMAIN d \cup {f}
           /\ With(d, f, c)[f] = c
           /\ \A g \in DOMAIN d \ {f} : With(d, f, c)[g] = d[g]
<1>1. With(d, f, c) \in [DOMAIN d \cup {f} -> Contents]
  BY DirElim DEF With
<1>2. DOMAIN d \cup {f} \in SUBSET Files BY DirElim
<1>3. With(d, f, c) \in Dirs BY <1>1, <1>2, DirIntro
<1>4. With(d, f, c) # NoDir BY <1>3, NoDirAssumption
<1>5. QED BY <1>1, <1>3, <1>4 DEF With

\* Removing a file.
LEMMA WithoutLemma ==
    ASSUME NEW d \in Dirs, NEW f
    PROVE  Without(d, f) \in Dirs
<1>1. Without(d, f) \in [DOMAIN d \ {f} -> Contents]
  BY DirElim DEF Without
<1>2. DOMAIN d \ {f} \in SUBSET Files BY DirElim
<1>3. QED BY <1>1, <1>2, DirIntro

\* The contents an update writes, and what a write cut short leaves.
LEMMA ContentsLemma ==
    /\ Garbled \in Contents
    /\ \A v \in 0..MaxUpdates : v \in Contents
  BY DEF Contents, Garbled

\* A write cut short leaves a directory.
LEMMA CutShortLemma ==
    ASSUME NEW d \in Dirs, todo \in SUBSET Files, NEW e \in CutShort(d)
    PROVE  e \in Dirs /\ e # NoDir
<1>1. CASE e = d BY <1>1, DirElim
<1>2. ASSUME NEW f \in todo, e = With(d, f, Garbled)
      PROVE  e \in Dirs /\ e # NoDir
  BY <1>2, WithLemma, ContentsLemma
<1>3. QED BY <1>1, <1>2 DEF CutShort

\* The backup recover_on_startup chooses is the newest.
LEMMA LatestLemma ==
    ASSUME NEW t \in Times, Newest(t)
    PROVE  Latest = t
<1>1. \A u \in Made : u \in Int BY DEF Made, Times
<1>2. \A u \in Made : (\A w \in Made : w <= u) => u = t
  BY <1>1 DEF Newest
<1>3. QED BY <1>2 DEF Newest, Latest

-----------------------------------------------------------------------------
(* Types *)

\* What an attempt to write the journal leaves, whether it succeeds or not.
LEMMA JournalStep ==
    ASSUME TypeOK, NEW s \in States,
           Recorded(s) \/ NotRecorded \/ FaultThenRecord(s)
    PROVE  /\ journal' \in {journal, "Torn", s}
           /\ journal' \in States \cup {"Empty", "Torn"}
           /\ st' \in States
           /\ faults' \in 0..MaxFaults
<1>1. CASE Recorded(s)
  BY <1>1 DEF Recorded, Appended, TypeOK
<1>2. CASE NotRecorded
  BY <1>2, UpdateAssumption DEF NotRecorded, Fault, TypeOK
<1>3. CASE FaultThenRecord(s)
  BY <1>3, UpdateAssumption DEF FaultThenRecord, Fault, Appended, TypeOK
<1>4. QED BY <1>1, <1>2, <1>3

\* A failure is counted within its bound.
LEMMA FaultStep == TypeOK /\ Fault => faults' \in 0..MaxFaults
  BY UpdateAssumption DEF TypeOK, Fault

\* Every step keeps the types.
LEMMA TypeStep ==
    ASSUME IndInv, Next
    PROVE  TypeOK'
<1> USE DEF callVars, diskVars, historyVars
<1>0. /\ TypeOK /\ todo \in SUBSET Files /\ slot \in Times /\ clock \in Times
      /\ \A t \in Times : backups[t] # NoDir => backups[t] \in Dirs
      /\ install # NoDir => install \in Dirs
  BY DEF IndInv, TypeOK
<1>1. CASE \/ Start \/ RecoverNothing \/ RecoverFails \/ Quit
  <2>1. CASE Start BY <1>0, <2>1 DEF TypeOK, Start, Pcs, States
  <2>2. CASE RecoverNothing BY <1>0, <2>2 DEF TypeOK, RecoverNothing, Pcs
  <2>3. CASE RecoverFails
    BY <1>0, <2>3, FaultStep DEF TypeOK, RecoverFails, Pcs
  <2>4. CASE Quit BY <1>0, <2>4 DEF TypeOK, Quit, Pcs
  <2>5. QED BY <1>1, <2>1, <2>2, <2>3, <2>4
<1>2. CASE Recover
  <2>1. "RollingBack" \in States BY DEF States
  <2>2. Latest \in Times
    BY <1>2, LatestLemma DEF IndInv, Ordered, Recover
  <2>3. QED
    BY <1>0, <1>2, <2>1, <2>2, JournalStep DEF TypeOK, Recover, Pcs
<1>3. CASE Clear
  BY <1>0, <1>3, FaultStep DEF TypeOK, Clear, Pcs, States
<1>4. CASE RecoverWithoutBackup \/ Reject \/ NothingToBackUp
  <2>1. "Failed" \in States BY DEF States
  <2>2. QED
    BY <1>0, <1>4, <2>1, JournalStep
       DEF TypeOK, RecoverWithoutBackup, Reject, NothingToBackUp, Pcs
<1>5. CASE Verified
  <2>1. "Installing" \in States BY DEF States
  <2>2. QED BY <1>0, <1>5, <2>1, JournalStep DEF TypeOK, Verified, Pcs
<1>6. ASSUME NEW S \in SUBSET Files, BeginUpdate(S) PROVE TypeOK'
  <2>1. "Verifying" \in States BY DEF States
  <2>2. version < MaxUpdates /\ version' \in {version, version + 1}
    BY <1>6 DEF BeginUpdate
  <2>3. version' \in 0..MaxUpdates BY <1>0, <2>2, UpdateAssumption DEF TypeOK
  <2>4. QED
    BY <1>0, <1>6, <2>1, <2>3, JournalStep DEF TypeOK, BeginUpdate, Pcs
<1>7. CASE BeginBackup
  <2>1. clock' \in Times
    <3>1. clock' \in clock..MaxTime BY <1>7 DEF BeginBackup
    <3>2. QED BY <1>0, <3>1, UpdateAssumption DEF Times
  <2>2. DOMAIN install \in SUBSET Files
    BY <1>0, <1>7, DirElim DEF BeginBackup
  <2>3. backups' \in [Times -> Dirs \cup {NoDir}]
    BY <1>0, <1>7, <2>1, EmptyDirLemma DEF BeginBackup, TypeOK
  <2>4. QED BY <1>0, <1>7, <2>1, <2>2, <2>3 DEF TypeOK, BeginBackup, Pcs
<1>8. ASSUME NEW f \in Files, BackupFile(f) PROVE TypeOK'
  <2>1. install \in Dirs /\ backups[slot] \in Dirs /\ f \in DOMAIN install
    BY <1>0, <1>8 DEF IndInv, Backing, BackupFile, Copied, TypeOK
  <2>2. With(backups[slot], f, install[f]) \in Dirs
    BY <2>1, DirElim, WithLemma
  <2>3. backups' \in [Times -> Dirs \cup {NoDir}]
    BY <1>0, <1>8, <2>2 DEF BackupFile, TypeOK
  <2>4. QED BY <1>0, <1>8, <2>3 DEF TypeOK, BackupFile
<1>9. CASE BackupFails
  <2>1. "Failed" \in States BY DEF States
  <2>2. backups' \in [Times -> Dirs \cup {NoDir}]
    <3>1. CASE pc = "begin backup"
      BY <1>0, <1>9, <3>1 DEF BackupFails, TypeOK
    <3>2. CASE pc = "backing up"
      <4>1. PICK d \in CutShort(backups[slot]) :
              backups' = [backups EXCEPT ![slot] = d]
        BY <1>9, <3>2 DEF BackupFails
      <4>2. d \in Dirs
        BY <1>0, <3>2, CutShortLemma DEF IndInv, Backing, Copied
      <4>3. QED BY <1>0, <4>1, <4>2 DEF TypeOK
    <3>3. QED BY <1>9, <3>1, <3>2 DEF BackupFails
  <2>3. QED BY <1>0, <1>9, <2>1, <2>2, JournalStep DEF TypeOK, BackupFails, Pcs
<1>10. CASE BackupDone
  BY <1>0, <1>10 DEF TypeOK, BackupDone, Pcs
<1>11. ASSUME NEW f \in Files, InstallFile(f) PROVE TypeOK'
  <2>1. install \in Dirs /\ version \in Contents
    BY <1>0, <1>11, ContentsLemma DEF IndInv, Installing, InstallFile, TypeOK
  <2>2. install' \in Dirs BY <1>11, <2>1, WithLemma DEF InstallFile
  <2>3. QED BY <1>0, <1>11, <2>2 DEF TypeOK, InstallFile
<1>12. CASE InstallFails
  <2>1. "RollingBack" \in States BY DEF States
  <2>2. install' \in Dirs
    BY <1>0, <1>12, CutShortLemma DEF IndInv, Installing, InstallFails
  <2>3. QED
    BY <1>0, <1>12, <2>1, <2>2, JournalStep DEF TypeOK, InstallFails, Pcs
<1>13. CASE InstallDone
  <2>1. "Complete" \in States BY DEF States
  <2>2. QED BY <1>0, <1>13, <2>1, JournalStep DEF TypeOK, InstallDone, Pcs
<1>14. ASSUME NEW f \in Files, RemoveFile(f) PROVE TypeOK'
  <2>1. install' \in Dirs BY <1>0, <1>14, WithoutLemma DEF RemoveFile
  <2>2. QED BY <1>0, <1>14, <2>1 DEF TypeOK, RemoveFile
<1>15. CASE RemoveDir
  BY <1>0, <1>15 DEF TypeOK, RemoveDir
<1>16. CASE RestoreStart
  <2>1. backups[slot] \in Dirs
    BY <1>0, <1>16 DEF IndInv, Restoring, RestoreStart, Newest, Made
  <2>2. QED
    BY <1>0, <1>16, <2>1, EmptyDirLemma, DirElim DEF TypeOK, RestoreStart, Pcs
<1>17. ASSUME NEW f \in Files, RestoreFile(f) PROVE TypeOK'
  <2>1. install \in Dirs /\ backups[slot] \in Dirs /\ f \in DOMAIN backups[slot]
    BY <1>0, <1>17
       DEF IndInv, Restoring, RestoreFile, Copied, Newest, Made
  <2>2. install' \in Dirs BY <1>17, <2>1, DirElim, WithLemma DEF RestoreFile
  <2>3. QED BY <1>0, <1>17, <2>2 DEF TypeOK, RestoreFile
<1>18. CASE RestoreFails
  <2>1. "Failed" \in States BY DEF States
  <2>2. install' \in Dirs \cup {NoDir}
    BY <1>0, <1>18, CutShortLemma
       DEF IndInv, Restoring, Copied, RestoreFails, TypeOK
  <2>3. /\ journal' \in States \cup {"Empty", "Torn"} /\ st' \in States
        /\ faults' \in 0..MaxFaults
    BY <1>0, <1>18, <2>1, JournalStep, FaultStep DEF RestoreFails, TypeOK
  <2>4. QED BY <1>0, <1>18, <2>2, <2>3 DEF TypeOK, RestoreFails, Pcs
<1>19. CASE RestoreDone
  <2>1. PICK s \in States : Recorded(s) \/ NotRecorded
    BY <1>19 DEF RestoreDone, States
  <2>2. QED
    BY <1>0, <1>19, <2>1, JournalStep DEF TypeOK, RestoreDone, Pcs
<1>20. CASE Cleanup
  <2>1. PICK t \in Made : \E d \in RemovedFrom(backups[t]) :
          backups' = [backups EXCEPT ![t] = d]
    BY <1>20 DEF Cleanup
  <2>2. t \in Times /\ backups[t] \in Dirs BY <1>0 DEF Made
  <2>3. \A d \in RemovedFrom(backups[t]) : d \in Dirs \cup {NoDir}
    BY <2>2, WithoutLemma DEF RemovedFrom
  <2>4. backups' \in [Times -> Dirs \cup {NoDir}]
    BY <1>0, <2>1, <2>2, <2>3 DEF TypeOK
  <2>5. QED BY <1>0, <1>20, <2>4 DEF TypeOK, Cleanup
<1>21. CASE Crash
  <2>1. install' \in Dirs \cup {NoDir}
    BY <1>0, <1>21, CutShortLemma
       DEF IndInv, Installing, Restoring, Copied, Crash, TypeOK
  <2>2. backups' \in [Times -> Dirs \cup {NoDir}]
    <3>1. ASSUME pc = "backing up", NEW d \in CutShort(backups[slot]),
                 backups' = [backups EXCEPT ![slot] = d]
          PROVE  backups' \in [Times -> Dirs \cup {NoDir}]
      <4>1. d \in Dirs
        BY <1>0, <3>1, CutShortLemma DEF IndInv, Backing, Copied
      <4>2. QED BY <1>0, <3>1, <4>1 DEF TypeOK
    <3>2. QED BY <1>0, <1>21, <3>1 DEF Crash, TypeOK
  <2>3. QED
    BY <1>0, <1>21, <2>1, <2>2, FaultStep DEF TypeOK, Crash, Pcs
<1>22. QED
  BY <1>1, <1>2, <1>3, <1>4, <1>5, <1>6, <1>7, <1>8, <1>9, <1>10, <1>11,
     <1>12, <1>13, <1>14, <1>15, <1>16, <1>17, <1>18, <1>19, <1>20, <1>21
     DEF Next, Proceed

-----------------------------------------------------------------------------
(* Steps *)

\* A step that ends a call, or happens outside of one, and leaves the clock
\* and a backup that is in use alone.
LEMMA RestStep ==
    ASSUME IndInv, TypeOK', Settled', Made' = Made, clock' = clock,
           pc' \in {"down", "starting", "ready", "clearing"},
           backed' => backed /\ before' = before /\ backups' = backups
    PROVE  IndInv'
<1>1. Ordered' BY DEF IndInv, Ordered, Newest
<1>2. Backing' /\ Installing' /\ Restoring'
  BY DEF Backing, Installing, Restoring
<1>3. Kept' BY DEF IndInv, Kept, Newest, Holds
<1>4. QED BY <1>1, <1>2, <1>3 DEF IndInv

\* The same for a step that leaves every file alone.
LEMMA QuietStep ==
    ASSUME IndInv, TypeOK',
           UNCHANGED <<install, backups, clock, version, carries, before,
                       backed, restored>>,
           pc' \in {"down", "starting", "ready", "clearing"},
           restored => pc' # "starting",
           journal' = "Complete" => journal = "Complete" /\ pc' # "clearing"
    PROVE  IndInv'
<1>1. Settled'
  BY DEF IndInv, Settled, RollbackRestores, CompleteMeansInstalled, Holds
<1>2. Made' = Made BY DEF Made
<1>3. QED BY <1>1, <1>2, RestStep

\* Nothing has been restored or completed since the call under way began.
LEMMA InCall ==
    ASSUME IndInv, pc \in {"verifying", "begin backup", "backing up",
                           "installing", "removing", "restoring"}
    PROVE  ~restored /\ journal # "Complete"
  BY DEF IndInv, Settled

\* Steps inside a call: nothing is said to be restored or complete.
LEMMA InCallSettled ==
    ASSUME IndInv, pc \in {"verifying", "begin backup", "backing up",
                           "installing", "removing", "restoring"},
           UNCHANGED restored, journal' # "Complete"
    PROVE  Settled'
<1>1. ~restored' BY InCall
<1>2. QED BY <1>1 DEF Settled, RollbackRestores, CompleteMeansInstalled

\* recover_on_startup.
LEMMA RecoverSteps ==
    ASSUME IndInv,
           \/ Start \/ RecoverNothing \/ RecoverFails \/ Recover
           \/ RecoverWithoutBackup \/ Clear
    PROVE  IndInv'
<1> USE DEF callVars, diskVars, historyVars
<1>0. TypeOK' BY TypeStep DEF Next, Proceed
<1>1. CASE Start
  <2>1. Settled'
    BY <1>1 DEF IndInv, Settled, RollbackRestores, CompleteMeansInstalled, Start
  <2>2. Made' = Made BY <1>1 DEF Start, Made
  <2>3. QED BY <1>0, <1>1, <2>1, <2>2, RestStep DEF Start
<1>2. CASE RecoverNothing \/ RecoverFails
  BY <1>0, <1>2, QuietStep DEF RecoverNothing, RecoverFails
<1>3. CASE Recover
  <2>1. ~restored /\ journal # "Complete"
    BY <1>3 DEF IndInv, Settled, Recover, Incomplete
  <2>2. journal' # "Complete"
    BY <1>3, <2>1 DEF Recover, Recorded, NotRecorded, Appended
  <2>3. CASE pc' = "ready"
    BY <1>0, <1>3, <2>1, <2>2, <2>3, QuietStep DEF Recover
  <2>4. CASE pc' = "removing"
    <3>1. Newest(slot')
      BY <1>3, LatestLemma DEF IndInv, Ordered, Recover
    <3>2. Made' = Made BY <1>3 DEF Recover, Made
    <3>3. Ordered' /\ Restoring'
      BY <1>3, <2>4, <3>1, <3>2 DEF IndInv, Ordered, Restoring, Newest, Recover
    <3>4. Backing' /\ Installing' BY <2>4 DEF Backing, Installing
    <3>5. Kept' BY <1>3, <3>2 DEF IndInv, Kept, Newest, Holds, Recover
    <3>6. Settled'
      BY <1>3, <2>1, <2>2
         DEF Settled, RollbackRestores, CompleteMeansInstalled, Recover
    <3>7. QED BY <1>0, <3>3, <3>4, <3>5, <3>6 DEF IndInv
  <2>5. QED BY <1>3, <2>3, <2>4 DEF Recover
<1>4. CASE RecoverWithoutBackup
  <2>1. ~restored /\ journal # "Complete"
    BY <1>4 DEF IndInv, Settled, RecoverWithoutBackup, Incomplete
  <2>2. journal' # "Complete"
    BY <1>4, <2>1 DEF RecoverWithoutBackup, Recorded, NotRecorded, Appended
  <2>3. QED BY <1>0, <1>4, <2>1, <2>2, QuietStep DEF RecoverWithoutBackup
<1>5. CASE Clear
  BY <1>0, <1>5, QuietStep DEF Clear
<1>6. QED BY <1>1, <1>2, <1>3, <1>4, <1>5

\* apply_update up to the backup.
LEMMA BackupSteps ==
    ASSUME IndInv,
           \/ \E S \in SUBSET Files \ {{}} : BeginUpdate(S)
           \/ Reject \/ Verified \/ BeginBackup \/ NothingToBackUp
           \/ BackupFails \/ BackupDone \/ \E f \in Files : BackupFile(f)
    PROVE  IndInv'
<1> USE DEF callVars, diskVars, historyVars
<1>0. /\ TypeOK' /\ TypeOK
      /\ slot \in Times /\ clock \in Times /\ todo \in SUBSET Files
      /\ \A t \in Times : backups[t] # NoDir => backups[t] \in Dirs
      /\ install # NoDir => install \in Dirs
  BY TypeStep DEF Next, Proceed, IndInv, TypeOK
<1>1. ASSUME NEW S \in SUBSET Files, BeginUpdate(S) PROVE IndInv'
  <2>1. Made' = Made /\ ~backed' /\ ~restored' BY <1>1 DEF BeginUpdate, Made
  <2>2. CASE pc' = "ready"
    <3>1. Settled'
      BY <1>1, <2>1, <2>2
         DEF IndInv, Settled, RollbackRestores, CompleteMeansInstalled,
             BeginUpdate, NotRecorded
    <3>2. QED BY <1>0, <1>1, <2>1, <2>2, <3>1, RestStep DEF BeginUpdate
  <2>3. CASE pc' = "verifying"
    <3>1. journal' # "Complete"
      BY <1>1, <2>3 DEF BeginUpdate, Recorded, Appended
    <3>2. Ordered' BY <1>1, <2>1 DEF IndInv, Ordered, Newest, BeginUpdate
    <3>3. Backing' /\ Installing' /\ Restoring' /\ Kept'
      BY <1>1, <2>1, <2>3
         DEF Backing, Installing, Restoring, Kept, BeginUpdate
    <3>4. Settled'
      BY <2>1, <3>1 DEF Settled, RollbackRestores, CompleteMeansInstalled
    <3>5. QED BY <1>0, <3>2, <3>3, <3>4 DEF IndInv
  <2>4. QED BY <1>1, <2>2, <2>3 DEF BeginUpdate
<1>2. CASE Reject \/ NothingToBackUp
  <2>1. ~restored /\ journal # "Complete"
    BY <1>2, InCall DEF Reject, NothingToBackUp
  <2>2. journal' # "Complete"
    BY <1>2, <2>1 DEF Reject, NothingToBackUp, Recorded, NotRecorded, Appended
  <2>3. QED BY <1>0, <1>2, <2>1, <2>2, QuietStep DEF Reject, NothingToBackUp
<1>3. CASE Verified
  <2>1. ~restored /\ journal # "Complete" BY <1>3, InCall DEF Verified
  <2>2. journal' # "Complete"
    BY <1>3, <2>1 DEF Verified, Recorded, NotRecorded, Appended
  <2>3. CASE pc' = "ready"
    BY <1>0, <1>3, <2>1, <2>2, <2>3, QuietStep DEF Verified
  <2>4. CASE pc' = "begin backup"
    <3>1. Made' = Made BY <1>3 DEF Verified, Made
    <3>2. Ordered' BY <1>3, <3>1 DEF IndInv, Ordered, Newest, Verified
    <3>3. Backing' /\ Installing' /\ Restoring' /\ Kept'
      BY <1>3, <2>4
         DEF IndInv, Backing, Installing, Restoring, Kept, Verified
    <3>4. Settled' BY <1>3, <2>2, InCallSettled DEF Verified
    <3>5. QED BY <1>0, <3>2, <3>3, <3>4 DEF IndInv
  <2>5. QED BY <1>3, <2>3, <2>4 DEF Verified
<1>4. CASE BeginBackup
  <2>1. /\ clock' \in Times /\ clock <= clock'
    <3>1. clock' \in clock..MaxTime BY <1>4 DEF BeginBackup
    <3>2. QED BY <1>0, <3>1, UpdateAssumption DEF Times
  <2>2. backups'[clock'] # NoDir
    BY <1>0, <1>4, <2>1, EmptyDirLemma, NoDirAssumption DEF BeginBackup, TypeOK
  <2>3. Made' = Made \cup {clock'}
    BY <1>0, <1>4, <2>1, <2>2 DEF BeginBackup, Made, TypeOK
  <2>4. \A t \in Made' : t \in Times /\ t <= clock'
    <3>1. \A t \in Made : t \in Times /\ t <= clock BY DEF IndInv, Ordered, Made
    <3>2. QED BY <1>0, <2>1, <2>3, <3>1 DEF Times
  <2>5. Ordered'
    BY <2>1, <2>3, <2>4 DEF Ordered, Newest
  <2>6. ~backed' BY <1>4 DEF IndInv, Backing, BeginBackup
  <2>7. Backing'
    BY <1>4, <2>2 DEF IndInv, Backing, Copied, BeginBackup
  <2>8. Installing' /\ Restoring' /\ Kept'
    BY <1>4, <2>6 DEF Installing, Restoring, Kept, BeginBackup
  <2>9. Settled'
    BY <1>4, InCall, InCallSettled DEF BeginBackup
  <2>10. QED BY <1>0, <2>5, <2>7, <2>8, <2>9 DEF IndInv
<1>5. ASSUME NEW f \in Files, BackupFile(f) PROVE IndInv'
  <2> DEFINE e == With(backups[slot], f, install[f])
  <2>1. /\ install \in Dirs /\ backups[slot] \in Dirs /\ f \in DOMAIN install
        /\ slot \in Made /\ Copied(backups[slot], install, todo)
    BY <1>0, <1>5 DEF IndInv, Backing, BackupFile, Copied, TypeOK, Made
  <2>2. /\ e # NoDir /\ DOMAIN e = DOMAIN backups[slot] \cup {f}
        /\ e[f] = install[f]
        /\ \A g \in DOMAIN backups[slot] \ {f} : e[g] = backups[slot][g]
    BY <2>1, DirElim, WithLemma
  <2>3. backups' = [backups EXCEPT ![slot] = e] BY <1>5 DEF BackupFile
  <2> HIDE DEF e
  <2>4. Made' = Made BY <1>0, <2>1, <2>2, <2>3 DEF Made, TypeOK
  <2>5. Copied(e, install, todo')
    BY <1>5, <2>1, <2>2 DEF Copied, BackupFile
  <2>6. Backing'
    BY <1>0, <1>5, <2>3, <2>5 DEF IndInv, Backing, Copied, BackupFile, TypeOK
  <2>7. Ordered' BY <1>5, <2>4 DEF IndInv, Ordered, Newest, BackupFile
  <2>8. Installing' /\ Restoring' /\ Kept'
    BY <1>5 DEF IndInv, Backing, Installing, Restoring, Kept, BackupFile
  <2>9. Settled' BY <1>5, InCall, InCallSettled DEF BackupFile
  <2>10. QED BY <1>0, <2>6, <2>7, <2>8, <2>9 DEF IndInv
<1>6. CASE BackupFails
  <2>1. journal' # "Complete"
    BY <1>6, InCall DEF BackupFails, FaultThenRecord, Appended
  <2>2. Settled' BY <1>6, <2>1, InCallSettled DEF BackupFails
  <2>3. Made' = Made
    <3>1. CASE pc = "begin backup" BY <1>6, <3>1 DEF BackupFails, Made
    <3>2. CASE pc = "backing up"
      <4>1. PICK d \in CutShort(backups[slot]) :
              backups' = [backups EXCEPT ![slot] = d]
        BY <1>6, <3>2 DEF BackupFails
      <4>2. d # NoDir /\ backups[slot] # NoDir
        BY <1>0, <3>2, CutShortLemma DEF IndInv, Backing, Copied
      <4>3. QED BY <1>0, <4>1, <4>2 DEF TypeOK, Made
    <3>3. QED BY <1>6, <3>1, <3>2 DEF BackupFails
  <2>4. ~backed' BY <1>6 DEF IndInv, Backing, BackupFails
  <2>5. QED BY <1>0, <1>6, <2>2, <2>3, <2>4, RestStep DEF BackupFails
<1>7. CASE BackupDone
  <2>1. Made' = Made BY <1>7 DEF BackupDone, Made
  <2>2. slot \in Made /\ Newest(slot)
    BY <1>0, <1>7
       DEF IndInv, Ordered, Backing, Copied, Newest, BackupDone, Made
  <2>3. Holds(backups[slot], before)
    BY <1>7 DEF IndInv, Backing, Copied, Holds, BackupDone
  <2>4. Kept' /\ Restoring'
    BY <1>0, <1>7, <2>1, <2>2, <2>3
       DEF Kept, Restoring, Newest, Holds, BackupDone
  <2>5. Ordered' BY <1>7, <2>1 DEF IndInv, Ordered, Newest, BackupDone
  <2>6. Backing' /\ Installing'
    BY <1>7 DEF IndInv, Backing, Installing, BackupDone
  <2>7. Settled' BY <1>7, InCall, InCallSettled DEF BackupDone
  <2>8. QED BY <1>0, <2>4, <2>5, <2>6, <2>7 DEF IndInv
<1>8. QED BY <1>1, <1>2, <1>3, <1>4, <1>5, <1>6, <1>7

\* A step inside a call that leaves the backups alone keeps what is known of
\* them.
LEMMA BackupsUntouched ==
    ASSUME IndInv, UNCHANGED <<backups, clock, before, backed>>
    PROVE  Made' = Made /\ Ordered' /\ Kept'
<1>1. Made' = Made BY DEF Made
<1>2. QED BY <1>1 DEF IndInv, Ordered, Kept, Newest, Holds

\* apply_update after the backup.
LEMMA InstallSteps ==
    ASSUME IndInv, \/ \E f \in Files : InstallFile(f)
                   \/ InstallFails \/ InstallDone
    PROVE  IndInv'
<1> USE DEF callVars, diskVars, historyVars
<1>0. /\ TypeOK' /\ TypeOK
      /\ todo \in SUBSET Files /\ version \in Contents
      /\ install # NoDir => install \in Dirs
  BY TypeStep, ContentsLemma DEF Next, Proceed, IndInv, TypeOK
<1>1. Made' = Made /\ Ordered' /\ Kept'
  BY BackupsUntouched DEF InstallFile, InstallFails, InstallDone
<1>2. ASSUME NEW f \in Files, InstallFile(f) PROVE IndInv'
  <2>1. install \in Dirs BY <1>0, <1>2 DEF IndInv, Installing, InstallFile
  <2>2. /\ install' # NoDir /\ DOMAIN install' = DOMAIN install \cup {f}
        /\ install'[f] = version
        /\ \A g \in DOMAIN install \ {f} : install'[g] = install[g]
    <3> DEFINE e == With(install, f, version)
    <3>1. /\ e # NoDir /\ DOMAIN e = DOMAIN install \cup {f} /\ e[f] = version
          /\ \A g \in DOMAIN install \ {f} : e[g] = install[g]
      BY <1>0, <2>1, WithLemma
    <3>2. install' = e BY <1>2 DEF InstallFile
    <3> HIDE DEF e
    <3>3. QED BY <3>1, <3>2
  <2>3. Installing'
    BY <1>2, <2>2 DEF IndInv, Installing, InstallFile
  <2>4. Restoring' /\ Backing'
    BY <1>1, <1>2 DEF IndInv, Restoring, Backing, Newest, InstallFile
  <2>5. Settled' BY <1>2, InCall, InCallSettled DEF InstallFile
  <2>6. QED BY <1>0, <1>1, <2>3, <2>4, <2>5 DEF IndInv
<1>3. CASE InstallFails
  <2>1. journal' # "Complete"
    BY <1>3, InCall DEF InstallFails, FaultThenRecord, Appended
  <2>2. Settled' BY <1>3, <2>1, InCallSettled DEF InstallFails
  <2>3. Backing' /\ Installing' /\ Restoring'
    BY <1>1, <1>3
       DEF IndInv, Restoring, Backing, Installing, Newest, InstallFails
  <2>4. QED BY <1>0, <1>1, <2>2, <2>3 DEF IndInv
<1>4. CASE InstallDone
  <2>1. ~restored' BY <1>4, InCall DEF InstallDone
  <2>2. Settled'
    BY <1>4, <2>1
       DEF IndInv, Installing, Settled, RollbackRestores,
           CompleteMeansInstalled, InstallDone
  <2>3. QED BY <1>0, <1>1, <1>4, <2>2, RestStep DEF InstallDone
<1>5. QED BY <1>2, <1>3, <1>4

\* restore_backup.
LEMMA RestoreSteps ==
    ASSUME IndInv,
           \/ \E f \in Files : RemoveFile(f) \/ RestoreFile(f)
           \/ RemoveDir \/ RestoreStart \/ RestoreFails \/ RestoreDone
    PROVE  IndInv'
<1> USE DEF callVars, diskVars, historyVars
<1>0. /\ TypeOK' /\ TypeOK /\ slot \in Times
      /\ \A t \in Times : backups[t] # NoDir => backups[t] \in Dirs
      /\ install # NoDir => install \in Dirs
  BY TypeStep DEF Next, Proceed, IndInv, TypeOK
<1>1. Made' = Made /\ Ordered' /\ Kept'
  BY BackupsUntouched
     DEF RemoveFile, RestoreFile, RemoveDir, RestoreStart, RestoreFails,
         RestoreDone
<1>2. CASE RemoveDir \/ \E f \in Files : RemoveFile(f)
  <2>1. /\ pc = "removing"
        /\ UNCHANGED <<backups, journal, pc, slot, restored>>
    BY <1>2 DEF RemoveFile, RemoveDir
  <2>2. Backing' /\ Installing' /\ Restoring'
    BY <1>1, <2>1 DEF IndInv, Restoring, Backing, Installing, Newest
  <2>3. Settled' BY <2>1, InCall, InCallSettled
  <2>4. QED BY <1>0, <1>1, <2>2, <2>3 DEF IndInv
<1>3. CASE RestoreStart
  <2>1. install' # NoDir
    BY <1>3, EmptyDirLemma, NoDirAssumption DEF RestoreStart
  <2>2. Restoring'
    BY <1>1, <1>3, <2>1 DEF IndInv, Restoring, Copied, Newest, RestoreStart
  <2>3. Backing' /\ Installing' BY <1>3 DEF Backing, Installing, RestoreStart
  <2>4. Settled' BY <1>3, InCall, InCallSettled DEF RestoreStart
  <2>5. QED BY <1>0, <1>1, <2>2, <2>3, <2>4 DEF IndInv
<1>4. ASSUME NEW f \in Files, RestoreFile(f) PROVE IndInv'
  <2>1. /\ install \in Dirs /\ backups[slot] \in Dirs
        /\ f \in DOMAIN backups[slot] /\ Copied(install, backups[slot], todo)
    BY <1>0, <1>4
       DEF IndInv, Restoring, RestoreFile, Copied, Newest, Made
  <2>2. /\ install' # NoDir /\ DOMAIN install' = DOMAIN install \cup {f}
        /\ install'[f] = backups[slot][f]
        /\ \A g \in DOMAIN install \ {f} : install'[g] = install[g]
    <3> DEFINE c == backups[slot][f]
               e == With(install, f, c)
    <3>1. c \in Contents BY <2>1, DirElim
    <3>2. /\ e # NoDir /\ DOMAIN e = DOMAIN install \cup {f} /\ e[f] = c
          /\ \A g \in DOMAIN install \ {f} : e[g] = install[g]
      <4> HIDE DEF c
      <4>1. QED BY <2>1, <3>1, WithLemma
    <3>3. install' = e BY <1>4 DEF RestoreFile
    <3> HIDE DEF e
    <3>4. QED BY <3>2, <3>3
  <2>3. Copied(install', backups[slot], todo')
    BY <1>4, <2>1, <2>2 DEF Copied, RestoreFile
  <2>4. Restoring'
    BY <1>1, <1>4, <2>3 DEF IndInv, Restoring, Copied, Newest, RestoreFile
  <2>5. Backing' /\ Installing' BY <1>4 DEF Backing, Installing, RestoreFile
  <2>6. Settled' BY <1>4, InCall, InCallSettled DEF RestoreFile
  <2>7. QED BY <1>0, <1>1, <2>4, <2>5, <2>6 DEF IndInv
<1>5. CASE RestoreFails
  <2>1. journal' # "Complete"
    BY <1>5, InCall DEF RestoreFails, FaultThenRecord, Appended
  <2>2. Settled' BY <1>5, <2>1, InCallSettled DEF RestoreFails
  <2>3. QED BY <1>0, <1>1, <1>5, <2>2, RestStep DEF RestoreFails
<1>6. CASE RestoreDone
  <2>1. journal' # "Complete"
    BY <1>6, InCall DEF RestoreDone, Recorded, NotRecorded, Appended
  <2>2. Newest(slot) /\ Copied(install, backups[slot], {})
    BY <1>6 DEF IndInv, Restoring, RestoreDone
  <2>3. ASSUME backed PROVE Holds(install, before)
    <3>1. PICK t \in Times : Newest(t) /\ Holds(backups[t], before)
      BY <2>3 DEF IndInv, Kept
    <3>2. t = slot BY <1>0, <2>2, <3>1, LatestLemma
    <3>3. QED BY <2>2, <3>1, <3>2 DEF Holds, Copied
  <2>4. Settled'
    BY <1>6, <2>1, <2>3
       DEF Settled, RollbackRestores, CompleteMeansInstalled, Holds,
           RestoreDone
  <2>5. QED BY <1>0, <1>1, <1>6, <2>4, RestStep DEF RestoreDone
<1>7. QED BY <1>2, <1>3, <1>4, <1>5, <1>6

\* cleanup_backup removes the oldest of several backups, never the newest.
LEMMA CleanupStep == IndInv /\ Cleanup => IndInv'
<1> SUFFICES ASSUME IndInv, Cleanup PROVE IndInv'
  OBVIOUS
<1>0. TypeOK' /\ TypeOK BY TypeStep DEF Next, IndInv
<1>1. PICK t \in Made :
        /\ \A u \in Made : t <= u
        /\ \E d \in RemovedFrom(backups[t]) :
              backups' = [backups EXCEPT ![t] = d]
  BY DEF Cleanup
<1>2. \A u \in Made : u \in Times /\ u \in Int BY DEF Made, Times
<1>3. PICK o \in Made : o # t
  <2>1. CASE Made = {t}
    <3>1. Cardinality(Made) = 1 BY <2>1, FS_Singleton
    <3>2. QED BY <3>1, UpdateAssumption DEF Cleanup
  <2>2. QED BY <2>1
<1>4. \A u \in Made : Newest(u) => u # t
  BY <1>1, <1>2, <1>3 DEF Newest
<1>5. /\ Made' \in {Made, Made \ {t}}
      /\ \A u \in Times \ {t} : backups'[u] = backups[u]
  BY <1>0, <1>1, <1>2 DEF Made, TypeOK
<1>6. UNCHANGED <<install, pc, slot, todo, version, carries, clock, journal,
                  historyVars>>
  BY DEF Cleanup, callVars
<1>7. \A u \in Times : Newest(u) => Newest(u)'
  BY <1>4, <1>5 DEF Newest
<1>8. Ordered'
  BY <1>5, <1>6, <1>7 DEF IndInv, Ordered, Newest
<1>9. Kept'
  <2> SUFFICES ASSUME backed'
               PROVE  \E u \in Times : (Newest(u) /\ Holds(backups[u], before))'
    BY DEF Kept
  <2>1. PICK u \in Times : Newest(u) /\ Holds(backups[u], before)
    BY <1>6 DEF IndInv, Kept, historyVars
  <2>2. u # t BY <1>4, <2>1 DEF Newest
  <2>3. backups'[u] = backups[u] BY <1>5, <2>1, <2>2
  <2>4. QED BY <1>6, <1>7, <2>1, <2>3 DEF Holds, historyVars
<1>10. Backing' /\ Installing' /\ Restoring'
  BY <1>6 DEF Cleanup, Backing, Installing, Restoring
<1>11. Settled'
  BY <1>6
     DEF IndInv, Settled, RollbackRestores, CompleteMeansInstalled, Holds,
         historyVars
<1>12. QED BY <1>0, <1>8, <1>9, <1>10, <1>11 DEF IndInv

\* The program ends or dies.
LEMMA EndSteps ==
    ASSUME IndInv, Quit \/ Crash
    PROVE  IndInv'
<1> USE DEF callVars, diskVars, historyVars
<1>0. /\ TypeOK' /\ TypeOK /\ slot \in Times /\ todo \in SUBSET Files
      /\ \A t \in Times : backups[t] # NoDir => backups[t] \in Dirs
  BY TypeStep DEF Next, IndInv, TypeOK
<1>1. CASE Quit BY <1>0, <1>1, QuietStep DEF Quit
<1>2. CASE Crash
  <2>0. pc' = "down" /\ UNCHANGED <<clock, version, carries, historyVars>>
    BY <1>2 DEF Crash
  <2>1. CASE UNCHANGED <<install, backups>>
    <3>1. journal' = "Complete" => journal = "Complete"
      BY <1>2 DEF Crash
    <3>2. QED BY <1>0, <2>0, <2>1, <3>1, QuietStep
  <2>2. CASE /\ pc \in {"installing", "restoring"}
             /\ UNCHANGED <<backups, journal>>
    <3>1. Settled' BY <2>0, <2>2, InCall, InCallSettled
    <3>2. Made' = Made BY <2>2 DEF Made
    <3>3. QED BY <1>0, <2>0, <2>2, <3>1, <3>2, RestStep
  <2>3. ASSUME pc = "backing up", UNCHANGED <<install, journal>>,
               NEW d \in CutShort(backups[slot]),
               backups' = [backups EXCEPT ![slot] = d]
        PROVE  IndInv'
    <3>1. Settled' BY <2>0, <2>3, InCall, InCallSettled
    <3>2. d # NoDir /\ backups[slot] # NoDir
      BY <1>0, <2>3, CutShortLemma DEF IndInv, Backing, Copied
    <3>3. Made' = Made BY <1>0, <2>3, <3>2 DEF TypeOK, Made
    <3>4. ~backed' BY <2>0, <2>3 DEF IndInv, Backing
    <3>5. QED BY <1>0, <2>0, <3>1, <3>3, <3>4, RestStep
  <2>4. QED BY <1>2, <2>1, <2>2, <2>3 DEF Crash
<1>3. QED BY <1>1, <1>2

-----------------------------------------------------------------------------
\* The invariant holds in every state of the manager.
THEOREM IndInvHolds == Spec => []IndInv
<1>1. Init => IndInv
  <2> SUFFICES ASSUME Init PROVE IndInv
    OBVIOUS
  <2>1. install \in Dirs
    <3>1. PICK S \in SUBSET Files : install = [f \in S |-> 0] BY DEF Init
    <3>2. 0 \in Contents BY ContentsLemma, UpdateAssumption
    <3>3. QED BY <3>1, <3>2, DirIntro
  <2>2. 0 \in Times /\ 0 \in 0..MaxUpdates /\ 0 \in 0..MaxFaults
    BY UpdateAssumption DEF Times
  <2>3. TypeOK BY <2>1, <2>2 DEF Init, TypeOK, Pcs, States
  <2>4. Made = {} BY DEF Init, Made
  <2>5. Ordered BY <2>4 DEF Ordered
  <2>6. Backing /\ Installing /\ Restoring /\ Kept /\ Settled
    BY DEF Init, Backing, Installing, Restoring, Kept, Settled,
           RollbackRestores, CompleteMeansInstalled
  <2>7. QED BY <2>3, <2>5, <2>6 DEF IndInv
<1>2. IndInv /\ [Next]_vars => IndInv'
  <2> SUFFICES ASSUME IndInv, [Next]_vars PROVE IndInv'
    OBVIOUS
  <2>1. CASE Next
    BY <2>1, RecoverSteps, BackupSteps, InstallSteps, RestoreSteps,
       CleanupStep, EndSteps DEF Next, Proceed
  <2>2. CASE UNCHANGED vars
    <3> USE <2>2 DEF vars, callVars, diskVars, historyVars
    <3>1. Made' = Made /\ Ordered' /\ Kept' BY BackupsUntouched
    <3>2. TypeOK' BY DEF IndInv, TypeOK
    <3>3. Backing' /\ Installing' BY DEF IndInv, Backing, Installing, Copied
    <3>4. Restoring' BY <3>1 DEF IndInv, Restoring, Newest, Copied
    <3>5. Settled'
      BY DEF IndInv, Settled, RollbackRestores, CompleteMeansInstalled, Holds
    <3>6. QED BY <3>1, <3>2, <3>3, <3>4, <3>5 DEF IndInv
  <2>3. QED BY <2>1, <2>2
<1>3. QED BY <1>1, <1>2, PTL DEF Spec

\* The installation, the backups and the journal keep their types: nothing is
\* copied into or out of a directory that does not exist.
THEOREM TypeCorrect == Spec => []TypeOK
  BY IndInvHolds, PTL DEF IndInv

\* Whatever cleanup_backup, crashes, failures and backups of the same second
\* do: the backup that recover_on_startup would choose holds every file that
\* the update found, as long as the journal asks for it.
THEOREM BackupsSurvive == Spec => []BackupSurvives
<1>1. IndInv => BackupSurvives
  <2> SUFFICES ASSUME IndInv, backed
               PROVE  Made # {} /\ Holds(backups[Latest], before)
    BY DEF BackupSurvives
  <2>1. PICK t \in Times : Newest(t) /\ Holds(backups[t], before)
    BY DEF IndInv, Kept
  <2>2. Latest = t BY <2>1, LatestLemma
  <2>3. QED BY <2>1, <2>2 DEF Newest
<1>2. QED BY <1>1, IndInvHolds, PTL

\* A rollback that runs to its end, in apply_update or on any later startup,
\* brings back every file of the completed backup.
THEOREM RollbacksRestore == Spec => []RollbackRestores
  BY IndInvHolds, PTL DEF IndInv, Settled

\* A journal that ends in Complete is right about the installation.
THEOREM CompleteIsInstalled == Spec => []CompleteMeansInstalled
  BY IndInvHolds, PTL DEF IndInv, Settled
=============================================================================
