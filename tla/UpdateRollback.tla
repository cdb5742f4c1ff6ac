--------------------------- MODULE UpdateRollback ---------------------------
(***************************************************************************)
(* UpdateRollbackManager (crates/flight-updater/src/rollback.rs): an       *)
(* update verifies its artifacts, copies the installation to a backup and  *)
(* overwrites it file by file; a journal on disk lets the next startup put *)
(* the backup back.  Every file operation may fail, and the program may    *)
(* crash between any two of them or in the middle of one.                  *)
(*                                                                         *)
(* A directory is a function from the names in it to versions.  Backups    *)
(* are named after the second in which they are made, so that two made in  *)
(* one second share a directory.  Of the journal only its last entry       *)
(* matters, and whether all of it can be parsed.  What has been written    *)
(* and closed survives a crash; the clock is never set back.  The program  *)
(* calls recover_on_startup first, then apply_update and cleanup_backup in *)
(* any order; backup and restore are only called from these.               *)
(***************************************************************************)
EXTENDS Integers, FiniteSets

CONSTANTS
    Files,        \* file names
    NoDir,        \* a directory that does not exist
    MaxBackups,   \* max_backups
    MaxUpdates,   \* bound on the versions released
    MaxTime,      \* bound on the seconds that pass
    MaxFaults     \* bound on crashes and failing file operations

ASSUME UpdateAssumption ==
    /\ MaxBackups \in Nat \ {0}
    /\ MaxUpdates \in Nat /\ MaxTime \in Nat /\ MaxFaults \in Nat

Garbled == -1
Contents == {Garbled} \cup 0..MaxUpdates
Dirs == UNION {[S -> Contents] : S \in SUBSET Files}
ASSUME NoDirAssumption == NoDir \notin Dirs

Times == 0..MaxTime
States == {"Idle", "Verifying", "Installing", "RollingBack", "Complete",
           "Failed"}
Incomplete == {"Verifying", "Installing", "RollingBack"}

VARIABLES
    install,   \* install_dir
    backups,   \* [Times -> Dirs \cup {NoDir}]: backup_dir
    journal,   \* its last state, "Empty", or "Torn": a line does not parse
    pc,        \* where the manager is in a call; "down": no program runs
    st,        \* the manager's state, which a restart forgets
    startup,   \* the rollback under way was begun by recover_on_startup
    slot,      \* the backup this call makes or restores
    todo,      \* files still to be copied
    version,   \* new_version of the latest update
    carries,   \* the files among its artifacts
    clock,     \* seconds
    faults,    \* crashes and failures so far
    \* history variables
    before,    \* install when the latest update began
    backed,    \* its backup was completed
    restored   \* a rollback has run to its end since then

historyVars == <<before, backed, restored>>
diskVars == <<install, backups, journal>>
callVars == <<startup, slot, todo, version, carries, clock>>
vars == <<diskVars, pc, st, callVars, faults, historyVars>>

Pcs == {"down", "starting", "ready", "verifying", "begin backup",
        "backing up", "installing", "removing", "restoring", "clearing"}

TypeOK ==
    /\ install \in Dirs \cup {NoDir}
    /\ backups \in [Times -> Dirs \cup {NoDir}]
    /\ journal \in States \cup {"Empty", "Torn"}
    /\ pc \in Pcs /\ st \in States /\ startup \in BOOLEAN
    /\ slot \in Times /\ todo \subseteq Files
    /\ version \in 0..MaxUpdates /\ carries \subseteq Files
    /\ clock \in Times /\ faults \in 0..MaxFaults
    /\ before \in Dirs \cup {NoDir}
    /\ backed \in BOOLEAN /\ restored \in BOOLEAN

EmptyDir == [f \in {} |-> 0]
With(dir, f, c) == [g \in DOMAIN dir \cup {f} |-> IF g = f THEN c ELSE dir[g]]
Without(dir, f) == [g \in DOMAIN dir \ {f} |-> dir[g]]

\* What a write that is cut short may leave of a directory.
CutShort(dir) == {dir} \cup {With(dir, f, Garbled) : f \in todo}

Made == {t \in Times : backups[t] # NoDir}
Latest == CHOOSE t \in Made : \A u \in Made : u <= t

Init ==
    /\ \E S \in SUBSET Files : install = [f \in S |-> 0]
    /\ backups = [t \in Times |-> NoDir]
    /\ journal = "Empty"
    /\ pc = "down" /\ st = "Idle" /\ startup = FALSE
    /\ slot = 0 /\ todo = {} /\ version = 0 /\ carries = {}
    /\ clock = 0 /\ faults = 0
    /\ before = install /\ backed = FALSE /\ restored = FALSE

-----------------------------------------------------------------------------
(* transition(): the state changes only if the journal line was appended. *)
(* A line after one that was cut short cannot be parsed either.           *)

Appended(s) == IF journal = "Torn" THEN "Torn" ELSE s

\* Mutant: the state is what the journal then says.
RecordedInJournal(s) ==
    /\ journal' = Appended(s) /\ st' = journal'
    /\ UNCHANGED faults

Recorded(s) ==
    /\ journal' = Appended(s) /\ st' = s
    /\ UNCHANGED faults

Fault == faults < MaxFaults /\ faults' = faults + 1

NotRecorded ==
    /\ Fault
    /\ journal' \in {journal, "Torn"}
    /\ UNCHANGED st

\* An operation failed, and then the transition that reports it (`let _ =`)
\* succeeds or fails as well.
FaultThenRecord(s) ==
    \/ Fault /\ journal' = Appended(s) /\ st' = s
    \/ /\ faults + 1 < MaxFaults /\ faults' = faults + 2
       /\ journal' \in {journal, "Torn"}
       /\ UNCHANGED st

-----------------------------------------------------------------------------
(* recover_on_startup *)

Start ==
    /\ pc = "down"
    /\ pc' = "starting" /\ st' = "Idle" /\ restored' = FALSE
    /\ UNCHANGED <<diskVars, callVars, faults, before, backed>>

\* Nothing to recover, or a journal that cannot be read.
RecoverNothing ==
    /\ pc = "starting" /\ journal \notin Incomplete
    /\ pc' = "ready"
    /\ UNCHANGED <<diskVars, st, callVars, faults, historyVars>>

\* The journal or the backup directory cannot be listed.
RecoverFails ==
    /\ pc = "starting" /\ Fault
    /\ pc' = "ready"
    /\ UNCHANGED <<diskVars, st, callVars, historyVars>>

\* Mutant: the first backup in the directory is restored.
RecoverFirst ==
    /\ pc = "starting" /\ journal \in Incomplete /\ Made # {}
    /\ slot' = CHOOSE t \in Made : \A u \in Made : t <= u
    /\ startup' = TRUE
    /\ \/ Recorded("RollingBack") /\ pc' = "removing"
       \/ NotRecorded /\ pc' = "ready"
    /\ UNCHANGED <<install, backups, todo, version, carries, clock, historyVars>>

Recover ==
    /\ pc = "starting" /\ journal \in Incomplete /\ Made # {}
    /\ slot' = Latest
    /\ startup' = TRUE
    /\ \/ Recorded("RollingBack") /\ pc' = "removing"
       \/ NotRecorded /\ pc' = "ready"
    /\ UNCHANGED <<install, backups, todo, version, carries, clock, historyVars>>

RecoverWithoutBackup ==
    /\ pc = "starting" /\ journal \in Incomplete /\ Made = {}
    /\ Recorded("Failed") \/ NotRecorded
    /\ pc' = "clearing"
    /\ UNCHANGED <<install, backups, callVars, historyVars>>

\* The end of both recoveries; a failure leaves the state as it is.
Clear ==
    /\ pc = "clearing"
    /\ \/ journal' = "Empty" /\ st' = "Idle" /\ UNCHANGED faults
       \/ Fault /\ UNCHANGED <<journal, st>>
    /\ pc' = "ready"
    /\ UNCHANGED <<install, backups, callVars, historyVars>>

-----------------------------------------------------------------------------
(* apply_update *)

BeginUpdate(S) ==
    /\ pc = "ready" /\ st = "Idle"
    /\ version < MaxUpdates
    /\ before' = install /\ backed' = FALSE /\ restored' = FALSE
    /\ startup' = FALSE
    /\ \/ /\ Recorded("Verifying")
          /\ pc' = "verifying" /\ version' = version + 1 /\ carries' = S
       \/ NotRecorded /\ UNCHANGED <<pc, version, carries>>
    /\ UNCHANGED <<install, backups, slot, todo, clock>>

\* verify_update_integrity rejects the artifacts, which is no fault.
Reject ==
    /\ pc = "verifying"
    /\ Recorded("Failed") \/ NotRecorded
    /\ pc' = "ready"
    /\ UNCHANGED <<install, backups, callVars, historyVars>>

Verified ==
    /\ pc = "verifying"
    /\ \/ Recorded("Installing") /\ pc' = "begin backup"
       \/ NotRecorded /\ pc' = "ready"
    /\ UNCHANGED <<install, backups, callVars, historyVars>>

\* backup_current_version: time has passed since the last reading.
BeginBackup ==
    /\ pc = "begin backup" /\ install # NoDir
    /\ clock' \in clock..MaxTime
    /\ slot' = clock'
    /\ backups' = [backups EXCEPT ![slot'] = IF @ = NoDir THEN EmptyDir ELSE @]
    /\ todo' = DOMAIN install
    /\ pc' = "backing up"
    /\ UNCHANGED <<install, journal, st, startup, version, carries, faults,
                   historyVars>>

NothingToBackUp ==
    /\ pc = "begin backup" /\ install = NoDir
    /\ Recorded("Failed") \/ NotRecorded
    /\ pc' = "ready"
    /\ UNCHANGED <<install, backups, callVars, historyVars>>

BackupFile(f) ==
    /\ pc = "backing up" /\ f \in todo
    /\ backups' = [backups EXCEPT ![slot] = With(@, f, install[f])]
    /\ todo' = todo \ {f}
    /\ UNCHANGED <<install, journal, pc, st, startup, slot, version, carries,
                   clock, faults, historyVars>>

BackupFails ==
    /\ pc \in {"begin backup", "backing up"}
    /\ \/ pc = "begin backup" /\ UNCHANGED backups
       \/ /\ pc = "backing up"
          /\ \E d \in CutShort(backups[slot]) :
                backups' = [backups EXCEPT ![slot] = d]
    /\ FaultThenRecord("Failed")
    /\ pc' = "ready"
    /\ UNCHANGED <<install, callVars, historyVars>>

BackupDone ==
    /\ pc = "backing up" /\ todo = {}
    /\ backed' = TRUE
    /\ todo' = carries
    /\ pc' = "installing"
    /\ UNCHANGED <<diskVars, st, startup, slot, version, carries, clock,
                   faults, before, restored>>

InstallFile(f) ==
    /\ pc = "installing" /\ f \in todo
    /\ install' = With(install, f, version)
    /\ todo' = todo \ {f}
    /\ UNCHANGED <<backups, journal, pc, st, startup, slot, version, carries,
                   clock, faults, historyVars>>

InstallFails ==
    /\ pc = "installing"
    /\ install' \in CutShort(install)
    /\ FaultThenRecord("RollingBack")
    /\ pc' = "removing"
    /\ UNCHANGED <<backups, callVars, historyVars>>

\* Mutant: an install that stops early counts as complete.
InstallDoneEarly ==
    /\ pc = "installing"
    /\ Recorded("Complete") \/ NotRecorded
    /\ pc' = "ready"
    /\ UNCHANGED <<install, backups, callVars, historyVars>>

InstallDone ==
    /\ pc = "installing" /\ todo = {}
    /\ Recorded("Complete") \/ NotRecorded
    /\ pc' = "ready"
    /\ UNCHANGED <<install, backups, callVars, historyVars>>

-----------------------------------------------------------------------------
(* restore_backup, for a failed install or at startup *)

RemoveFile(f) ==
    /\ pc = "removing" /\ install # NoDir /\ f \in DOMAIN install
    /\ install' = Without(install, f)
    /\ UNCHANGED <<backups, journal, pc, st, callVars, faults, historyVars>>

RemoveDir ==
    /\ pc = "removing" /\ install = EmptyDir
    /\ install' = NoDir
    /\ UNCHANGED <<backups, journal, pc, st, callVars, faults, historyVars>>

RestoreStart ==
    /\ pc = "removing" /\ install = NoDir
    /\ install' = EmptyDir
    /\ todo' = DOMAIN backups[slot]
    /\ pc' = "restoring"
    /\ UNCHANGED <<backups, journal, st, startup, slot, version, carries,
                   clock, faults, historyVars>>

RestoreFile(f) ==
    /\ pc = "restoring" /\ f \in todo
    /\ install' = With(install, f, backups[slot][f])
    /\ todo' = todo \ {f}
    /\ UNCHANGED <<backups, journal, pc, st, startup, slot, version, carries,
                   clock, faults, historyVars>>

\* apply_update reports Failed, a terminal state; recover_on_startup returns
\* the error with the journal at RollingBack.
RestoreFails ==
    /\ pc \in {"removing", "restoring"}
    /\ IF pc = "removing" THEN UNCHANGED install
                          ELSE install' \in CutShort(install)
    /\ IF startup THEN Fault /\ UNCHANGED <<journal, st>>
                  ELSE FaultThenRecord("Failed")
    /\ pc' = "ready"
    /\ UNCHANGED <<backups, callVars, historyVars>>

\* Mutant: a startup that has restored the backup does not say so.
RestoreDoneUnrecorded ==
    /\ pc = "restoring" /\ todo = {}
    /\ restored' = TRUE
    /\ pc' = "ready"
    /\ UNCHANGED <<diskVars, st, callVars, faults, before, backed>>

RestoreDone ==
    /\ pc = "restoring" /\ todo = {}
    /\ restored' = TRUE
    /\ \/ Recorded(IF startup THEN "Idle" ELSE "Failed")
          /\ pc' = (IF startup THEN "clearing" ELSE "ready")
       \/ NotRecorded /\ pc' = "ready"
    /\ UNCHANGED <<install, backups, callVars, before, backed>>

-----------------------------------------------------------------------------
(* cleanup_backup, and the program's life *)

\* What remove_dir_all leaves of a directory after one more step.
RemovedFrom(dir) ==
    IF dir = EmptyDir THEN {NoDir} ELSE {Without(dir, f) : f \in DOMAIN dir}

\* Mutant: the newest backups are the ones removed.
CleanupNewest ==
    /\ pc = "ready" /\ Cardinality(Made) > MaxBackups
    /\ \E d \in RemovedFrom(backups[Latest]) :
          backups' = [backups EXCEPT ![Latest] = d]
    /\ UNCHANGED <<install, journal, pc, st, callVars, faults, historyVars>>

\* The oldest backups go first, file by file; a failure ends the call.
Cleanup ==
    /\ pc = "ready" /\ Cardinality(Made) > MaxBackups
    /\ \E t \in Made :
         /\ \A u \in Made : t <= u
         /\ \E d \in RemovedFrom(backups[t]) :
               backups' = [backups EXCEPT ![t] = d]
    /\ UNCHANGED <<install, journal, pc, st, callVars, faults, historyVars>>

Quit ==
    /\ pc = "ready"
    /\ pc' = "down"
    /\ UNCHANGED <<diskVars, st, callVars, faults, historyVars>>

\* A journal line may be being appended.
MayAppend ==
    \/ pc \in {"starting", "ready", "verifying", "begin backup", "backing up",
               "installing"}
    \/ pc \in {"removing", "restoring"} /\ ~startup
    \/ pc = "restoring" /\ todo = {}

\* The program dies, perhaps while it appends a line or writes a file.
Crash ==
    /\ pc # "down" /\ Fault
    /\ pc' = "down"
    /\ \/ UNCHANGED diskVars
       \/ /\ MayAppend /\ journal' = "Torn" /\ UNCHANGED <<install, backups>>
       \/ /\ pc \in {"installing", "restoring"}
          /\ install' \in CutShort(install) /\ UNCHANGED <<backups, journal>>
       \/ /\ pc = "backing up"
          /\ \E d \in CutShort(backups[slot]) :
                backups' = [backups EXCEPT ![slot] = d]
          /\ UNCHANGED <<install, journal>>
    /\ UNCHANGED <<st, callVars, historyVars>>

Proceed ==
    \/ Start \/ RecoverNothing \/ RecoverFails \/ Recover
    \/ RecoverWithoutBackup \/ Clear
    \/ Reject \/ Verified \/ BeginBackup \/ NothingToBackUp \/ BackupFails
    \/ BackupDone \/ InstallFails \/ InstallDone
    \/ RemoveDir \/ RestoreStart \/ RestoreFails \/ RestoreDone
    \/ \E f \in Files : \/ BackupFile(f) \/ InstallFile(f)
                        \/ RemoveFile(f) \/ RestoreFile(f)

Next ==
    \/ Proceed
    \/ \E S \in SUBSET Files \ {{}} : BeginUpdate(S)
    \/ Cleanup \/ Quit \/ Crash

Spec == Init /\ [][Next]_vars

\* A running program gets on with its call, one that is not is started again,
\* and one that is ready is ended some day.
FairSpec == Spec /\ WF_vars(Proceed) /\ WF_vars(Quit)

-----------------------------------------------------------------------------

\* Every file of `old` is in `dir` with the same content.
Holds(dir, old) ==
    old # NoDir => /\ dir # NoDir
                   /\ \A f \in DOMAIN old : f \in DOMAIN dir /\ dir[f] = old[f]

\* While the journal asks for a rollback of an update whose backup was made,
\* the backup that recover_on_startup would choose holds every file the
\* update found, whatever cleanup_backup, crashes, failures and backups of
\* the same second did in between (rollback.rs:757-775, 790-815).
BackupSurvives ==
    journal \in {"Installing", "RollingBack"} /\ backed
        => Made # {} /\ Holds(backups[Latest], before)

\* Once a rollback has run to its end, in apply_update or on a later startup,
\* every file that the update found installed is back, provided that the
\* update's backup was complete (rollback.rs:649-662).
RollbackRestores == restored /\ backed => Holds(install, before)

\* A journal that ends in Complete means that every artifact of that update
\* is installed (rollback.rs:728-752).
CompleteMeansInstalled ==
    journal = "Complete" =>
        \A f \in carries : /\ install # NoDir /\ f \in DOMAIN install
                           /\ install[f] = version

\* An update that a crash left incomplete does not stay so: once failures
\* cease, a startup brings the journal to an end, or finds it unreadable
\* (rollback.rs:757-787).
IncompleteIsResolved == journal \in Incomplete ~> journal \notin Incomplete

\* What rollback.rs:521-522 says: incomplete updates are "detected and
\* automatically rolled back on the next startup".
RollbackRevertsUpdate == restored => Holds(install, before)
=============================================================================
