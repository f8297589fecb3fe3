---------------------------- MODULE ManifestStore ----------------------------
(***************************************************************************)
(* The manifest file under concurrent commands.  item-add, item-update,    *)
(* import-reconcile and import-apply all load the manifest, work, hash the *)
(* file as it then is, and save: take the lock file, compare the hash,     *)
(* replace the file atomically, drop the lock.  People edit the file with  *)
(* an editor, which knows nothing of the lock, and commands are killed.    *)
(*                                                                         *)
(* A manifest is the set of changes it contains; its hash is that set.     *)
(***************************************************************************)
EXTENDS Naturals

CONSTANTS
    Session,    \* commands, each making one change, named after it
    HandEdit,   \* changes made with an editor
    MaxCrashes  \* bound on killed commands

ASSUME NamesDiffer == Session \cap HandEdit = {}
ASSUME MaxCrashesType == MaxCrashes \in Nat

VARIABLES
    file,       \* .agentic-backlog/manifest.json
    lock,       \* manifest.json.lock exists
    pc, base, expected,   \* per command: where it is, what it loaded, what it hashed
    saved,      \* history: the changes reported or typed as saved
    undisturbed,\* history: no editor saved since the command's check
    crashes

vars == <<file, lock, pc, base, expected, saved, undisturbed, crashes>>

Content == SUBSET (Session \cup HandEdit)
Critical == {"locked", "checked", "replaced"}
Ended == {"saved", "refused", "killed"}
Phase == {"idle", "loaded", "hashed"} \cup Critical \cup Ended

TypeOK ==
    /\ file \in Content /\ lock \in BOOLEAN /\ saved \in Content
    /\ pc \in [Session -> Phase]
    /\ base \in [Session -> Content]
    /\ expected \in [Session -> Content]
    /\ undisturbed \in [Session -> BOOLEAN]
    /\ crashes \in 0..MaxCrashes

Init ==
    /\ file = {} /\ lock = FALSE /\ saved = {}
    /\ pc = [s \in Session |-> "idle"]
    /\ base = [s \in Session |-> {}]
    /\ expected = [s \in Session |-> {}]
    /\ undisturbed = [s \in Session |-> FALSE]
    /\ crashes = 0

Goto(s, p) == pc' = [pc EXCEPT ![s] = p]

-----------------------------------------------------------------------------
(* load_manifest, once at the start of every command. *)
Load(s) ==
    /\ pc[s] = "idle"
    /\ base' = [base EXCEPT ![s] = file]
    /\ Goto(s, "loaded")
    /\ UNCHANGED <<file, lock, expected, saved, undisturbed, crashes>>

(* The command's own input is bad, or the GitHub work in between fails. *)
GiveUp(s) ==
    /\ pc[s] \in {"loaded", "hashed"}
    /\ Goto(s, "refused")
    /\ UNCHANGED <<file, lock, base, expected, saved, undisturbed, crashes>>

(* file_sha256 of the file as it is by now. *)
Hash(s) ==
    /\ pc[s] = "loaded"
    /\ expected' = [expected EXCEPT ![s] = file]
    /\ Goto(s, "hashed")
    /\ UNCHANGED <<file, lock, base, saved, undisturbed, crashes>>

(* Faulty: the lock file is opened without O_EXCL. *)
AcquireShared(s) ==
    /\ pc[s] = "hashed"
    /\ lock' = TRUE
    /\ Goto(s, "locked")
    /\ UNCHANGED <<file, base, expected, saved, undisturbed, crashes>>

(* save_manifest: O_CREAT | O_EXCL, refused at once if the lock exists ... *)
Acquire(s) ==
    /\ pc[s] = "hashed" /\ ~lock
    /\ lock' = TRUE
    /\ Goto(s, "locked")
    /\ UNCHANGED <<file, base, expected, saved, undisturbed, crashes>>

(* Faulty: the lock of another command is dropped on the way out. *)
BusyReleasing(s) ==
    /\ pc[s] = "hashed" /\ lock
    /\ lock' = FALSE
    /\ Goto(s, "refused")
    /\ UNCHANGED <<file, base, expected, saved, undisturbed, crashes>>

Busy(s) ==
    /\ pc[s] = "hashed" /\ lock
    /\ Goto(s, "refused")
    /\ UNCHANGED <<file, lock, base, expected, saved, undisturbed, crashes>>

(* Faulty: the hash is not compared. *)
CheckNothing(s) ==
    /\ pc[s] = "locked"
    /\ undisturbed' = [undisturbed EXCEPT ![s] = TRUE]
    /\ Goto(s, "checked")
    /\ UNCHANGED <<file, lock, base, expected, saved, crashes>>

(* ... the current hash must be the expected one ... *)
Check(s) ==
    /\ pc[s] = "locked" /\ file = expected[s]
    /\ undisturbed' = [undisturbed EXCEPT ![s] = TRUE]
    /\ Goto(s, "checked")
    /\ UNCHANGED <<file, lock, base, expected, saved, crashes>>

(* ... or the save is refused; so is one that cannot write its temporary   *)
(* file.  Either way the lock is dropped.                                  *)
Stale(s) ==
    /\ \/ pc[s] = "locked" /\ file # expected[s]
       \/ pc[s] = "checked"
    /\ lock' = FALSE
    /\ Goto(s, "refused")
    /\ UNCHANGED <<file, base, expected, saved, undisturbed, crashes>>

(* os.replace: what was loaded, with the command's own change.             *)
Replace(s) ==
    /\ pc[s] = "checked"
    /\ file' = base[s] \cup {s}
    /\ saved' = saved \cup {s}
    /\ Goto(s, "replaced")
    /\ UNCHANGED <<lock, base, expected, undisturbed, crashes>>

Release(s) ==
    /\ pc[s] = "replaced"
    /\ lock' = FALSE
    /\ Goto(s, "saved")
    /\ UNCHANGED <<file, base, expected, saved, undisturbed, crashes>>

-----------------------------------------------------------------------------
(* Killed: no finally clause runs, and the lock file stays. *)
Kill(s) ==
    /\ pc[s] \notin Ended \cup {"idle"}
    /\ crashes < MaxCrashes
    /\ Goto(s, "killed")
    /\ crashes' = crashes + 1
    /\ UNCHANGED <<file, lock, base, expected, saved, undisturbed>>

(* A person edits the file in place: read and written at once here. *)
Edit(e) ==
    /\ e \notin saved
    /\ file' = file \cup {e}
    /\ saved' = saved \cup {e}
    /\ undisturbed' = [s \in Session |-> FALSE]
    /\ UNCHANGED <<lock, pc, base, expected, crashes>>

Command(s) ==
    \/ Load(s) \/ GiveUp(s) \/ Hash(s) \/ Acquire(s) \/ Busy(s)
    \/ Check(s) \/ Stale(s) \/ Replace(s) \/ Release(s)

Next ==
    \/ \E s \in Session : Command(s) \/ Kill(s)
    \/ \E e \in HandEdit : Edit(e)

Spec == Init /\ [][Next]_vars

-----------------------------------------------------------------------------
(* At most one command is between taking and dropping the lock, and the    *)
(* lock file is there while it is (mutations.py 107-145).                  *)
MutualExclusion ==
    /\ \A s, t \in Session : pc[s] \in Critical /\ pc[t] \in Critical => s = t
    /\ \A s \in Session : pc[s] \in Critical => lock

(* The state is well formed and the critical sections exclude each other. *)
Inv == TypeOK /\ MutualExclusion

(* A save replaces exactly the version it hashed: no other command's save  *)
(* can slip in after the hash, and only an editor can after the check.     *)
ReplacesExpected ==
    [][\A s \in Session : Replace(s) /\ undisturbed[s] => file = expected[s]]_vars

(* A lock left behind by a killed command is there for good: from then on  *)
(* no command changes the file.                                            *)
Orphaned == lock /\ \A s \in Session : pc[s] \notin Critical
OrphanedLockBlocks ==
    [][Orphaned => Orphaned' /\ (file' = file \/ \E e \in HandEdit : Edit(e))]_vars

(* "optimistic, atomic manifest updates" (README.md 35): a change reported *)
(* as saved stays in the file until somebody removes it.                   *)
NoLostUpdate == saved \subseteq file
=============================================================================
