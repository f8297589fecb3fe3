------------------------- MODULE ManifestStoreProofs -------------------------
(* The guarantees of save_manifest for any number of concurrent commands.  *)
EXTENDS ManifestStore, TLAPS

(* Every reachable state is well formed.                                   *)
THEOREM TypeCorrect == Spec => []TypeOK
<1> USE NamesDiffer, MaxCrashesType DEF TypeOK, Content, Phase, Critical, Ended
<1>1. Init => TypeOK
  <2> SUFFICES ASSUME Init PROVE TypeOK
    OBVIOUS
  <2>1. file \in Content /\ saved \in Content
    BY DEF Init
  <2>2. lock \in BOOLEAN
    BY DEF Init
  <2>3. crashes \in 0..MaxCrashes
    BY DEF Init
  <2>4. /\ pc \in [Session -> Phase] /\ undisturbed \in [Session -> BOOLEAN]
        /\ base \in [Session -> Content] /\ expected \in [Session -> Content]
    BY DEF Init
  <2> QED BY <2>1, <2>2, <2>3, <2>4
<1>2. ASSUME TypeOK, [Next]_vars PROVE TypeOK'
  <2> USE <1>2 DEF Goto
  <2>1. ASSUME NEW s \in Session, Load(s) \/ GiveUp(s) \/ Hash(s) PROVE TypeOK'
    BY <2>1 DEF Load, GiveUp, Hash
  <2>2. ASSUME NEW s \in Session, Acquire(s) \/ Busy(s) PROVE TypeOK'
    BY <2>2 DEF Acquire, Busy
  <2>3. ASSUME NEW s \in Session, Check(s) \/ Stale(s) PROVE TypeOK'
    BY <2>3 DEF Check, Stale
  <2>4. ASSUME NEW s \in Session, Replace(s) PROVE TypeOK'
    BY <2>4 DEF Replace
  <2>5. ASSUME NEW s \in Session, Release(s) PROVE TypeOK'
    BY <2>5 DEF Release
  <2>6. ASSUME NEW s \in Session, Kill(s) PROVE TypeOK'
    BY <2>6 DEF Kill
  <2>7. ASSUME NEW e \in HandEdit, Edit(e) PROVE TypeOK'
    BY <2>7 DEF Edit
  <2>8. CASE UNCHANGED vars
    BY <2>8 DEF vars
  <2> QED BY <2>1, <2>2, <2>3, <2>4, <2>5, <2>6, <2>7, <2>8, <1>2 DEF Next, Command
<1> QED BY <1>1, <1>2, PTL DEF Spec

(* The lock file admits one command at a time, however many race for it    *)
(* and whichever are killed: O_EXCL lets in one, and only who was let in   *)
(* ever removes the file.                                                  *)
THEOREM SavesAreExclusive == Spec => []MutualExclusion
<1>1. Init => MutualExclusion
  BY DEF Init, MutualExclusion, Critical
<1>2. ASSUME TypeOK, MutualExclusion, [Next]_vars PROVE MutualExclusion'
  <2> USE <1>2 DEF MutualExclusion, TypeOK, Critical, Goto
  <2>1. ASSUME NEW s \in Session, Load(s) \/ GiveUp(s) \/ Hash(s) \/ Busy(s)
        PROVE  MutualExclusion'
    BY <2>1 DEF Load, GiveUp, Hash, Busy
  <2>2. ASSUME NEW s \in Session, Acquire(s) PROVE MutualExclusion'
    BY <2>2 DEF Acquire
  <2>3. ASSUME NEW s \in Session, Check(s) \/ Replace(s) PROVE MutualExclusion'
    BY <2>3 DEF Check, Replace
  <2>4. ASSUME NEW s \in Session, Stale(s) \/ Release(s) PROVE MutualExclusion'
    BY <2>4 DEF Stale, Release
  <2>5. ASSUME NEW s \in Session, Kill(s) PROVE MutualExclusion'
    BY <2>5 DEF Kill
  <2>6. ASSUME NEW e \in HandEdit, Edit(e) PROVE MutualExclusion'
    BY <2>6 DEF Edit
  <2>7. CASE UNCHANGED vars
    BY <2>7 DEF vars
  <2> QED BY <2>1, <2>2, <2>3, <2>4, <2>5, <2>6, <2>7, <1>2 DEF Next, Command
<1> QED BY <1>1, <1>2, TypeCorrect, PTL DEF Spec

(* Both together: no reachable state has two commands in the critical      *)
(* section, or one without the lock file.                                  *)
THEOREM InvHolds == Spec => []Inv
BY TypeCorrect, SavesAreExclusive, PTL DEF Inv

(* From its check to its replace, a command that no editor disturbed still *)
(* sees the version it hashed: the lock keeps every other command out.     *)
CheckHolds ==
    \A s \in Session : pc[s] = "checked" /\ undisturbed[s] => file = expected[s]

(* The strengthening of ReplacesExpected is an invariant.                  *)
LEMMA CheckAlwaysHolds == Spec => []CheckHolds
<1>1. Init => CheckHolds
  BY DEF Init, CheckHolds
<1>2. ASSUME TypeOK, MutualExclusion, CheckHolds, [Next]_vars PROVE CheckHolds'
  <2> USE <1>2 DEF CheckHolds, TypeOK, Goto
  <2>1. ASSUME NEW s \in Session, Load(s) \/ GiveUp(s) \/ Hash(s) PROVE CheckHolds'
    BY <2>1 DEF Load, GiveUp, Hash
  <2>2. ASSUME NEW s \in Session, Acquire(s) \/ Busy(s) PROVE CheckHolds'
    BY <2>2 DEF Acquire, Busy
  <2>3. ASSUME NEW s \in Session, Check(s) \/ Stale(s) PROVE CheckHolds'
    BY <2>3 DEF Check, Stale
  <2>4. ASSUME NEW s \in Session, Replace(s) PROVE CheckHolds'
    BY <2>4 DEF Replace, MutualExclusion, Critical
  <2>5. ASSUME NEW s \in Session, Release(s) \/ Kill(s) PROVE CheckHolds'
    BY <2>5 DEF Release, Kill
  <2>6. ASSUME NEW e \in HandEdit, Edit(e) PROVE CheckHolds'
    BY <2>6 DEF Edit
  <2>7. CASE UNCHANGED vars
    BY <2>7 DEF vars
  <2> QED BY <2>1, <2>2, <2>3, <2>4, <2>5, <2>6, <2>7, <1>2 DEF Next, Command
<1> QED BY <1>1, <1>2, TypeCorrect, SavesAreExclusive, PTL DEF Spec

(* A save replaces exactly the version it hashed.                          *)
THEOREM SavesReplaceExpected == Spec => ReplacesExpected
<1>1. CheckHolds => [\A s \in Session : Replace(s) /\ undisturbed[s]
                                          => file = expected[s]]_vars
  BY DEF CheckHolds, Replace
<1> QED BY <1>1, CheckAlwaysHolds, PTL DEF ReplacesExpected

(* An orphaned lock is never removed, and no command saves past it.        *)
THEOREM OrphanedLockIsForever == Spec => OrphanedLockBlocks
<1>1. ASSUME TypeOK, Orphaned, [Next]_vars
      PROVE  Orphaned' /\ (file' = file \/ \E e \in HandEdit : Edit(e))
  <2> USE <1>1 DEF Orphaned, TypeOK, Critical, Goto
  <2>1. ASSUME NEW s \in Session, Command(s) \/ Kill(s)
        PROVE  Orphaned' /\ file' = file
    BY <2>1 DEF Command, Load, GiveUp, Hash, Acquire, Busy, Check, Stale, Replace,
                Release, Kill, Ended
  <2>2. ASSUME NEW e \in HandEdit, Edit(e) PROVE Orphaned'
    BY <2>2 DEF Edit
  <2>3. CASE UNCHANGED vars
    BY <2>3 DEF vars
  <2> QED BY <2>1, <2>2, <2>3, <1>1 DEF Next
<1>2. TypeOK /\ [Next]_vars
        => [Orphaned => Orphaned' /\ (file' = file \/ \E e \in HandEdit : Edit(e))]_vars
  BY <1>1
<1> QED BY <1>2, TypeCorrect, PTL DEF Spec, OrphanedLockBlocks
=============================================================================
