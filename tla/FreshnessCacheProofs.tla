------------------------ MODULE FreshnessCacheProofs ------------------------
(* What the cache guarantees for any number of overlapping processes, any  *)
(* ages and any targets.                                                   *)
EXTENDS FreshnessCache, TLAPS

(* One point of a function is replaced.                                    *)
LEMMA Replaced ==
    ASSUME NEW S, NEW T, NEW f \in [S -> T], NEW s \in S, NEW x \in T
    PROVE  /\ [f EXCEPT ![s] = x] \in [S -> T]
           /\ [f EXCEPT ![s] = x][s] = x
           /\ \A q \in S \ {s} : [f EXCEPT ![s] = x][q] = f[q]
  OBVIOUS

(* What a process is after each of its steps, field by field.              *)
LEMMA StartEffect ==
    ASSUME TypeOK, NEW p \in Planner, Start(p)
    PROVE  /\ planner' \in [Planner -> Process]
           /\ \A q \in Planner \ {p} : planner'[q] = planner[q]
           /\ planner'[p].pc = "started" /\ planner'[p].now = clock
           /\ planner'[p].target = target /\ planner'[p].owed = written
           /\ planner'[p].snapshot = planner[p].snapshot
           /\ planner'[p].source = planner[p].source
  <1> DEFINE x == [planner[p] EXCEPT !.pc = "started", !.now = clock,
                                     !.target = target, !.owed = written]
  <1>1. planner[p] \in Process /\ clock \in 0..MaxClock /\ target \in Target
        /\ written \in 0..MaxVersion /\ planner \in [Planner -> Process]
    BY DEF TypeOK
  <1>2. /\ x.pc = "started" /\ x.now = clock /\ x.target = target /\ x.owed = written
        /\ x.snapshot = planner[p].snapshot /\ x.source = planner[p].source
    BY <1>1 DEF Process
  <1>3. x \in Process
    BY <1>1 DEF Process
  <1>4. planner' = [planner EXCEPT ![p] = x]
    BY DEF Start
  <1> HIDE DEF x
  <1> QED BY <1>1, <1>2, <1>3, <1>4, Replaced

(* What the cache holds, when it holds something, is a well-formed entry.  *)
LEMMA StoredEntry ==
    ASSUME TypeOK, cache.stored
    PROVE  /\ cache \in Entry /\ cache.snapshot \in Snapshot
           /\ cache.observed \in Nat /\ cache.manual \in BOOLEAN
  <1>1. NoCache.stored = FALSE
    BY DEF NoCache
  <1>2. cache \in Entry
    BY <1>1 DEF TypeOK
  <1>3. cache.observed \in 0..MaxClock /\ cache.snapshot \in Snapshot /\ cache.manual \in BOOLEAN
    BY <1>2 DEF Entry
  <1> QED BY <1>2, <1>3, BoundsType

(* An answer from the cache is the entry it was judged by.                 *)
LEMMA AnswerEffect ==
    ASSUME TypeOK, NEW p \in Planner, AnswerFromCache(p)
    PROVE  /\ planner' \in [Planner -> Process]
           /\ \A q \in Planner \ {p} : planner'[q] = planner[q]
           /\ planner'[p].pc = "answered" /\ planner'[p].now = planner[p].now
           /\ planner'[p].target = planner[p].target /\ planner'[p].owed = planner[p].owed
           /\ planner'[p].snapshot = cache.snapshot
           /\ planner'[p].source = IF cache.manual THEN "stamped" ELSE "cache"
  <1> DEFINE source == IF cache.manual THEN "stamped" ELSE "cache"
             x == [planner[p] EXCEPT !.pc = "answered", !.snapshot = cache.snapshot,
                                     !.source = source]
  <1>1. /\ planner[p] \in Process /\ planner \in [Planner -> Process]
        /\ cache.snapshot \in Snapshot /\ source \in {"stamped", "cache"}
    BY StoredEntry DEF TypeOK, AnswerFromCache, CacheIsFresh
  <1>2. planner' = [planner EXCEPT ![p] = x]
    BY DEF AnswerFromCache
  <1> HIDE DEF source
  <1>3. /\ x.pc = "answered" /\ x.snapshot = cache.snapshot /\ x.source = source
        /\ x.now = planner[p].now /\ x.target = planner[p].target
        /\ x.owed = planner[p].owed
    BY <1>1 DEF Process
  <1>4. x \in Process
    BY <1>1 DEF Process
  <1> HIDE DEF x
  <1> QED BY <1>1, <1>2, <1>3, <1>4, Replaced DEF source

(* A fetch reads GitHub as it is, for the target the process was given.    *)
LEMMA FetchEffect ==
    ASSUME TypeOK, NEW p \in Planner, Fetch(p)
    PROVE  /\ planner' \in [Planner -> Process]
           /\ \A q \in Planner \ {p} : planner'[q] = planner[q]
           /\ planner'[p].pc = "fetched" /\ planner'[p].source = "fetched"
           /\ planner'[p].now = planner[p].now
           /\ planner'[p].target = planner[p].target /\ planner'[p].owed = planner[p].owed
           /\ planner'[p].snapshot.version = version
           /\ planner'[p].snapshot.target = planner[p].target
  <1> DEFINE read == [version |-> version, target |-> planner[p].target]
             x == [planner[p] EXCEPT !.pc = "fetched", !.source = "fetched",
                                     !.snapshot = read]
  <1>1. /\ planner[p] \in Process /\ planner \in [Planner -> Process]
        /\ read \in Snapshot /\ read.version = version /\ read.target = planner[p].target
    BY DEF TypeOK, Process, Snapshot
  <1>2. planner' = [planner EXCEPT ![p] = x]
    BY DEF Fetch
  <1> HIDE DEF read
  <1>3. /\ x.pc = "fetched" /\ x.snapshot = read /\ x.source = "fetched"
        /\ x.now = planner[p].now /\ x.target = planner[p].target
        /\ x.owed = planner[p].owed
    BY <1>1 DEF Process
  <1>4. x \in Process
    BY <1>1 DEF Process
  <1> HIDE DEF x
  <1> QED BY <1>1, <1>2, <1>3, <1>4, Replaced

(* The steps that only move a process on.                                  *)
LEMMA MoveEffect ==
    ASSUME TypeOK, NEW p \in Planner, NEW pc \in {"missed", "answered", "failed"},
           planner' = [planner EXCEPT ![p] = [@ EXCEPT !.pc = pc]]
    PROVE  /\ planner' \in [Planner -> Process]
           /\ \A q \in Planner \ {p} : planner'[q] = planner[q]
           /\ planner'[p].pc = pc /\ planner'[p].source = planner[p].source
           /\ planner'[p].now = planner[p].now
           /\ planner'[p].target = planner[p].target /\ planner'[p].owed = planner[p].owed
           /\ planner'[p].snapshot = planner[p].snapshot
  <1> DEFINE x == [planner[p] EXCEPT !.pc = pc]
  <1>1. planner[p] \in Process /\ planner \in [Planner -> Process]
    BY DEF TypeOK
  <1>2. planner' = [planner EXCEPT ![p] = x]
    OBVIOUS
  <1>3. /\ x.pc = pc /\ x.snapshot = planner[p].snapshot /\ x.source = planner[p].source
        /\ x.now = planner[p].now /\ x.target = planner[p].target
        /\ x.owed = planner[p].owed
    BY <1>1 DEF Process
  <1>4. x \in Process
    BY <1>1 DEF Process
  <1> HIDE DEF x
  <1> QED BY <1>1, <1>2, <1>3, <1>4, Replaced

(* A stored entry is the fetched snapshot, stamped as its command stamps it. *)
LEMMA StoreEffect ==
    ASSUME TypeOK, NEW p \in Planner, Store(p)
    PROVE  /\ cache' \in Entry
           /\ cache'.snapshot = planner[p].snapshot
           /\ cache'.observed = IF p \in Manual THEN clock ELSE planner[p].now
           /\ cache'.manual <=> p \in Manual
  <1> DEFINE observed == IF p \in Manual THEN clock ELSE planner[p].now
             manual == p \in Manual
  <1>1. /\ planner[p].snapshot \in Snapshot /\ observed \in 0..MaxClock
        /\ manual \in BOOLEAN
    BY DEF TypeOK, Process
  <1>2. cache' = [stored |-> TRUE, snapshot |-> planner[p].snapshot,
                  observed |-> observed, manual |-> manual]
    BY DEF Store
  <1> HIDE DEF observed, manual
  <1>3. /\ cache' \in Entry /\ cache'.snapshot = planner[p].snapshot
        /\ cache'.observed = observed /\ cache'.manual = manual
    BY <1>1, <1>2 DEF Entry
  <1> QED BY <1>3 DEF observed, manual

(* Every reachable state is well formed.                                   *)
THEOREM TypeCorrect == Spec => []TypeOK
<1> USE ManualType, BoundsType
<1>1. Init => TypeOK
  <2> SUFFICES ASSUME Init PROVE TypeOK
    OBVIOUS
  <2>1. 0 \in 0..MaxClock /\ 0 \in 0..MaxVersion
    OBVIOUS
  <2>2. clock \in 0..MaxClock /\ version \in 0..MaxVersion /\ written \in 0..MaxVersion
    BY <2>1 DEF Init
  <2>3. target \in Target /\ racing \in BOOLEAN /\ cache = NoCache
    BY DEF Init
  <2>4. born \in [0..MaxVersion -> 0..MaxClock]
    BY <2>1 DEF Init
  <2>5. planner \in [Planner -> Process]
    <3> DEFINE x == [pc |-> "idle", now |-> 0, target |-> target, owed |-> 0,
                     snapshot |-> [version |-> 0, target |-> target], source |-> "none"]
    <3>1. x \in Process
      BY <2>1, <2>3 DEF Process, Snapshot
    <3>2. planner = [p \in Planner |-> x]
      BY DEF Init
    <3> HIDE DEF x
    <3> QED BY <3>1, <3>2
  <2>6. writer \in [Writer -> {"idle", "writing", "ended"}]
    BY DEF Init
  <2> QED BY <2>2, <2>3, <2>4, <2>5, <2>6 DEF TypeOK
<1>2. ASSUME TypeOK, [Next]_vars PROVE TypeOK'
  <2>1. ASSUME NEW p \in Planner, Start(p) PROVE TypeOK'
    BY <1>2, <2>1, StartEffect DEF Start, TypeOK
  <2>2. ASSUME NEW p \in Planner, AnswerFromCache(p) PROVE TypeOK'
    BY <1>2, <2>2, AnswerEffect DEF AnswerFromCache, TypeOK
  <2>3. ASSUME NEW p \in Planner, Miss(p) \/ FailClosed(p) \/ StoreFails(p) PROVE TypeOK'
    BY <1>2, <2>3, MoveEffect DEF Miss, FailClosed, StoreFails, TypeOK
  <2>4. ASSUME NEW p \in Planner, Fetch(p) PROVE TypeOK'
    BY <1>2, <2>4, FetchEffect DEF Fetch, TypeOK
  <2>5. ASSUME NEW p \in Planner, Store(p) PROVE TypeOK'
    BY <1>2, <2>5, StoreEffect, MoveEffect DEF Store, TypeOK
  <2>6. ASSUME NEW w \in Writer, Invalidate(w) \/ End(w) PROVE TypeOK'
    BY <1>2, <2>6 DEF Invalidate, End, TypeOK
  <2>7. ASSUME NEW w \in Writer, Land(w) PROVE TypeOK'
    BY <1>2, <2>7 DEF Land, TypeOK
  <2>8. CASE ChangeGitHub
    BY <1>2, <2>8 DEF ChangeGitHub, TypeOK
  <2>9. CASE Retarget \/ UNCHANGED vars
    BY <1>2, <2>9 DEF Retarget, vars, TypeOK
  <2>10. CASE Tick
    BY <1>2, <2>10 DEF Tick, TypeOK
  <2> QED BY <2>1, <2>2, <2>3, <2>4, <2>5, <2>6, <2>7, <2>8, <2>9, <2>10, <1>2 DEF Next
<1> QED BY <1>1, <1>2, PTL DEF Spec

-----------------------------------------------------------------------------
(* A process answers about the target its own manifest named: a cached     *)
(* entry for another target counts as missing.                             *)
OwnTarget ==
    \A p \in Planner :
        planner[p].pc \in {"fetched", "answered"}
          => planner[p].snapshot.target = planner[p].target

(* Every process starts idle, at time zero.                                *)
LEMMA InitIdle ==
    ASSUME Init, NEW p \in Planner
    PROVE  planner[p].pc = "idle" /\ planner[p].now = 0
  <1> DEFINE x == [pc |-> "idle", now |-> 0, target |-> target, owed |-> 0,
                   snapshot |-> [version |-> 0, target |-> target], source |-> "none"]
  <1>1. planner = [q \in Planner |-> x]
    BY DEF Init
  <1>2. x.pc = "idle" /\ x.now = 0
    OBVIOUS
  <1> HIDE DEF x
  <1> QED BY <1>1, <1>2

(* A process holds no snapshot but of its own target.                      *)
LEMMA OwnTargetAlways == Spec => []OwnTarget
<1>1. Init => OwnTarget
  BY InitIdle DEF OwnTarget
<1>2. ASSUME TypeOK, OwnTarget, [Next]_vars PROVE OwnTarget'
  <2> USE <1>2 DEF OwnTarget
  <2>1. ASSUME NEW p \in Planner, Start(p) PROVE OwnTarget'
    BY <2>1, StartEffect
  <2>2. ASSUME NEW p \in Planner, AnswerFromCache(p) PROVE OwnTarget'
    BY <2>2, AnswerEffect DEF AnswerFromCache, CacheIsFresh
  <2>3. ASSUME NEW p \in Planner, Miss(p) \/ FailClosed(p) PROVE OwnTarget'
    BY <2>3, MoveEffect DEF Miss, FailClosed
  <2>4. ASSUME NEW p \in Planner, Fetch(p) PROVE OwnTarget'
    <3>1. /\ \A q \in Planner \ {p} : planner'[q] = planner[q]
          /\ planner'[p].snapshot.target = planner'[p].target
      <4> HIDE DEF OwnTarget
      <4> QED BY <2>4, FetchEffect
    <3> QED BY <3>1
  <2>5. ASSUME NEW p \in Planner, Store(p) \/ StoreFails(p) PROVE OwnTarget'
    BY <2>5, MoveEffect DEF Store, StoreFails
  <2>6. ASSUME UNCHANGED planner PROVE OwnTarget'
    BY <2>6
  <2> QED BY <2>1, <2>2, <2>3, <2>4, <2>5, <2>6
         DEF Next, Invalidate, Land, End, ChangeGitHub, Retarget, Tick, vars
<1> QED BY <1>1, <1>2, TypeCorrect, PTL DEF Spec

(* No answer is ever about another target than the one the answering       *)
(* command was given, however the manifest is retargeted meanwhile.        *)
THEOREM TargetsNeverMix == Spec => []AnswersOwnTarget
<1>1. OwnTarget => AnswersOwnTarget
  BY DEF OwnTarget, AnswersOwnTarget, Answered
<1> QED BY <1>1, OwnTargetAlways, PTL

(* With the type invariant: every well-formed answer is about its own      *)
(* command's target.                                                       *)
THEOREM InvHolds == Spec => []Inv
BY TypeCorrect, TargetsNeverMix, PTL DEF Inv

-----------------------------------------------------------------------------
(* The age of an entry.  Time is monotonic; what a process fetched was     *)
(* complete when its freshness was judged, and what resolve_snapshot       *)
(* stored was complete at the time stamped on it.                          *)
CompleteAt(s, t) == \A v \in 1..version : v > s.version => t <= born[v]

TimeInv ==
    /\ \A v \in 1..version : born[v] <= clock
    /\ \A p \in Planner : planner[p].now <= clock
    /\ cache.stored => cache.observed <= clock
FetchInv ==
    \A p \in Planner :
        /\ planner[p].pc = "fetched" => planner[p].source = "fetched"
        /\ planner[p].pc \in {"fetched", "answered"} /\ planner[p].source = "fetched"
             => CompleteAt(planner[p].snapshot, planner[p].now)
        /\ planner[p].pc = "answered" /\ planner[p].source = "cache"
             => MissesOnlyRecent(p)
EntryInv == cache.stored /\ ~cache.manual => CompleteAt(cache.snapshot, cache.observed)
AgeInv == TimeInv /\ FetchInv /\ EntryInv

(* Times and versions are natural numbers.                                 *)
LEMMA Numbers ==
    ASSUME TypeOK
    PROVE  /\ clock \in Nat /\ version \in Nat /\ MaxAge \in Nat
           /\ \A v \in 1..version : v \in 0..MaxVersion /\ born[v] \in Nat
           /\ \A p \in Planner : planner[p].now \in Nat /\ planner[p].snapshot.version \in Nat
  <1>1. clock \in Nat /\ version \in Nat /\ MaxAge \in Nat
    BY BoundsType DEF TypeOK
  <1>2. \A v \in 1..version : v \in 0..MaxVersion /\ born[v] \in Nat
    BY BoundsType DEF TypeOK
  <1>3. ASSUME NEW p \in Planner
        PROVE  planner[p].now \in Nat /\ planner[p].snapshot.version \in Nat
    <2>1. planner[p] \in Process
      BY DEF TypeOK
    <2>2. planner[p].now \in 0..MaxClock /\ planner[p].snapshot \in Snapshot
      BY <2>1 DEF Process
    <2>3. planner[p].snapshot.version \in 0..MaxVersion
      BY <2>2 DEF Snapshot
    <2> QED BY <2>2, <2>3, BoundsType
  <1> QED BY <1>1, <1>2, <1>3

(* A change of GitHub comes too late for every snapshot that was complete. *)
LEMMA NewVersion ==
    ASSUME TypeOK, version < MaxVersion, version' = version + 1,
           born' = [born EXCEPT ![version + 1] = clock]
    PROVE  /\ \A v \in 1..version : born'[v] = born[v]
           /\ born'[version + 1] = clock
           /\ 1..version' = 1..version \cup {version + 1}
           /\ \A s, t : t <= clock /\ CompleteAt(s, t) => CompleteAt(s, t)'
  <1>1. /\ \A v \in 1..version : born'[v] = born[v]
        /\ born'[version + 1] = clock
        /\ 1..version' = 1..version \cup {version + 1}
    BY BoundsType DEF TypeOK
  <1> QED BY <1>1 DEF CompleteAt

(* Whatever is held or stored misses no change older than its time stamp.  *)
LEMMA AgeAlways == Spec => []AgeInv
<1>1. Init => AgeInv
  <2> SUFFICES ASSUME Init PROVE AgeInv
    OBVIOUS
  <2>1. /\ \A p \in Planner : planner[p].pc = "idle" /\ planner[p].now = 0
        /\ clock = 0 /\ version = 0 /\ ~cache.stored
    BY InitIdle DEF Init, NoCache
  <2> QED BY <2>1 DEF AgeInv, TimeInv, FetchInv, EntryInv
<1>2. ASSUME TypeOK, AgeInv, [Next]_vars PROVE AgeInv'
  <2> USE <1>2, Numbers
  <2>1. ASSUME NEW p \in Planner, Start(p) PROVE AgeInv'
    <3>1. UNCHANGED <<clock, version, born, cache>>
      BY <2>1 DEF Start
    <3> QED BY <2>1, <3>1, StartEffect
            DEF AgeInv, TimeInv, FetchInv, EntryInv, CompleteAt, MissesOnlyRecent
  <2>2. ASSUME NEW p \in Planner, AnswerFromCache(p) PROVE AgeInv'
    <3>1. UNCHANGED <<clock, version, born, cache>>
      BY <2>2 DEF AnswerFromCache
    <3>2. cache.stored /\ planner[p].now - cache.observed <= MaxAge /\ cache.observed \in Nat
      BY <2>2, StoredEntry DEF AnswerFromCache, CacheIsFresh
    <3>3. ~cache.manual => MissesOnlyRecent(p)'
      BY <2>2, <3>1, <3>2, AnswerEffect DEF AgeInv, EntryInv, CompleteAt, MissesOnlyRecent
    <3>4. /\ planner'[p].source = "cache" => ~cache.manual
          /\ planner'[p].source # "fetched"
      BY <2>2, AnswerEffect
    <3> QED BY <2>2, <3>1, <3>3, <3>4, AnswerEffect
            DEF AgeInv, TimeInv, FetchInv, EntryInv, CompleteAt, MissesOnlyRecent
  <2>3. ASSUME NEW p \in Planner, Miss(p) \/ FailClosed(p) PROVE AgeInv'
    <3>1. UNCHANGED <<clock, version, born, cache>>
      BY <2>3 DEF Miss, FailClosed
    <3>2. /\ \A q \in Planner \ {p} : planner'[q] = planner[q]
          /\ planner'[p].pc \in {"missed", "failed"} /\ planner'[p].now = planner[p].now
      BY <2>3, MoveEffect DEF Miss, FailClosed
    <3> QED BY <3>1, <3>2
            DEF AgeInv, TimeInv, FetchInv, EntryInv, CompleteAt, MissesOnlyRecent
  <2>4. ASSUME NEW p \in Planner, Fetch(p) PROVE AgeInv'
    <3>1. UNCHANGED <<clock, version, born, cache>>
      BY <2>4 DEF Fetch
    <3>2. planner'[p].snapshot.version = version
      BY <2>4, FetchEffect
    <3>3. CompleteAt(planner[p].snapshot, planner[p].now)'
      BY <3>1, <3>2 DEF CompleteAt
    <3> QED BY <2>4, <3>1, <3>3, FetchEffect
            DEF AgeInv, TimeInv, FetchInv, EntryInv, CompleteAt, MissesOnlyRecent
  <2>5. ASSUME NEW p \in Planner, Store(p) \/ StoreFails(p) PROVE AgeInv'
    <3>1. /\ UNCHANGED <<clock, version, born>>
          /\ planner[p].pc = "fetched"
          /\ planner' = [planner EXCEPT ![p] = [@ EXCEPT !.pc = "answered"]]
      BY <2>5 DEF Store, StoreFails
    <3>2. /\ \A q \in Planner \ {p} : planner'[q] = planner[q]
          /\ planner'[p].pc = "answered" /\ planner'[p].source = "fetched"
          /\ planner'[p].now = planner[p].now /\ planner'[p].snapshot = planner[p].snapshot
      BY <3>1, MoveEffect DEF AgeInv, FetchInv
    <3>3. CompleteAt(planner[p].snapshot, planner[p].now)
      BY <3>1 DEF AgeInv, FetchInv
    <3>4. FetchInv'
      BY <3>1, <3>2, <3>3 DEF AgeInv, FetchInv, CompleteAt, MissesOnlyRecent
    <3>5. TimeInv' /\ EntryInv'
      <4>1. CASE StoreFails(p)
        <5>1. cache' = cache
          BY <4>1 DEF StoreFails
        <5> QED BY <3>1, <3>2, <5>1 DEF AgeInv, TimeInv, EntryInv, CompleteAt
      <4>2. CASE Store(p)
        <5>1. /\ cache'.snapshot = planner[p].snapshot
              /\ cache'.observed = IF p \in Manual THEN clock ELSE planner[p].now
              /\ cache'.manual <=> p \in Manual
          BY <4>2, StoreEffect
        <5>2. EntryInv'
          BY <3>1, <3>3, <5>1 DEF EntryInv, CompleteAt
        <5>3. TimeInv'
          BY <3>1, <3>2, <5>1 DEF AgeInv, TimeInv
        <5> QED BY <5>2, <5>3
      <4> QED BY <2>5, <4>1, <4>2
    <3> QED BY <3>4, <3>5 DEF AgeInv
  <2>6. ASSUME NEW w \in Writer, Invalidate(w) PROVE AgeInv'
    <3>1. UNCHANGED <<clock, version, born, planner>> /\ ~cache'.stored
      BY <2>6 DEF Invalidate, NoCache
    <3> QED BY <3>1
            DEF AgeInv, TimeInv, FetchInv, EntryInv, CompleteAt, MissesOnlyRecent
  <2>7. ASSUME ChangeGitHub \/ \E w \in Writer : Land(w) PROVE AgeInv'
    <3>1. /\ version < MaxVersion /\ version' = version + 1
          /\ born' = [born EXCEPT ![version + 1] = clock]
          /\ UNCHANGED <<clock, cache, planner>>
      BY <2>7 DEF ChangeGitHub, Land
    <3>2. /\ \A v \in 1..version : born'[v] = born[v]
          /\ born'[version + 1] = clock
          /\ 1..version' = 1..version \cup {version + 1}
          /\ \A s, t : t <= clock /\ CompleteAt(s, t) => CompleteAt(s, t)'
      BY <3>1, NewVersion
    <3>3. TimeInv'
      BY <3>1, <3>2 DEF AgeInv, TimeInv
    <3>4. EntryInv'
      BY <3>1, <3>2 DEF AgeInv, TimeInv, EntryInv, CompleteAt
    <3>5. ASSUME NEW p \in Planner, MissesOnlyRecent(p) PROVE MissesOnlyRecent(p)'
      BY <3>1, <3>2, <3>5 DEF AgeInv, TimeInv, MissesOnlyRecent
    <3>6. ASSUME NEW p \in Planner, CompleteAt(planner[p].snapshot, planner[p].now)
          PROVE  CompleteAt(planner[p].snapshot, planner[p].now)'
      BY <3>1, <3>2, <3>6 DEF AgeInv, TimeInv, CompleteAt
    <3>7. FetchInv'
      BY <3>1, <3>5, <3>6 DEF AgeInv, FetchInv
    <3> QED BY <3>3, <3>4, <3>7 DEF AgeInv
  <2>8. ASSUME Retarget \/ UNCHANGED vars \/ \E w \in Writer : End(w) PROVE AgeInv'
    <3>1. UNCHANGED <<clock, version, born, cache, planner>>
      BY <2>8 DEF Retarget, vars, End
    <3> QED BY <3>1
            DEF AgeInv, TimeInv, FetchInv, EntryInv, CompleteAt, MissesOnlyRecent
  <2>9. CASE Tick
    <3>1. UNCHANGED <<version, born, cache, planner>> /\ clock' = clock + 1
      BY <2>9 DEF Tick
    <3>2. cache.stored => cache.observed \in Nat
      BY StoredEntry
    <3> QED BY <3>1, <3>2
            DEF AgeInv, TimeInv, FetchInv, EntryInv, CompleteAt, MissesOnlyRecent
  <2> QED BY <2>1, <2>2, <2>3, <2>4, <2>5, <2>6, <2>7, <2>8, <2>9, <1>2 DEF Next
<1> QED BY <1>1, <1>2, TypeCorrect, PTL DEF Spec

(* An answer misses no change that was MaxAge old when it was asked for.   *)
THEOREM StalenessIsBounded == Spec => []BoundedStaleness
<1>1. ASSUME TypeOK, AgeInv, NEW p \in Planner, Answered(p),
             planner[p].source \in {"cache", "fetched"}
      PROVE  MissesOnlyRecent(p)
  <2>1. CASE planner[p].source = "cache"
    BY <1>1, <2>1 DEF AgeInv, FetchInv, Answered
  <2>2. CASE planner[p].source = "fetched"
    <3>1. CompleteAt(planner[p].snapshot, planner[p].now)
      BY <1>1, <2>2 DEF AgeInv, FetchInv, Answered
    <3> QED BY <1>1, <3>1, Numbers DEF CompleteAt, MissesOnlyRecent
  <2> QED BY <1>1, <2>1, <2>2
<1>2. TypeOK /\ AgeInv => BoundedStaleness
  BY <1>1 DEF BoundedStaleness
<1> QED BY <1>2, TypeCorrect, AgeAlways, PTL
-----------------------------------------------------------------------------
(* While no read ever overlapped an apply: whoever reads owes the newest   *)
(* apply and no older one, whoever writes meets neither a reader nor a     *)
(* stored snapshot, and what is fetched, stored or answered has seen every *)
(* apply it owes.                                                          *)
NobodyReads == \A p \in Planner : ~InFlight(p)
UpToDate(p) ==
    /\ InFlight(p) => planner[p].owed = written
    /\ planner[p].pc = "fetched" => planner[p].snapshot.version >= written
ApartInv ==
    /\ (\E w \in Writer : Writing(w)) => NobodyReads /\ ~cache.stored
    /\ cache.stored => cache.snapshot.version >= written
    /\ \A p \in Planner : UpToDate(p) /\ SeesKitWrites(p)
NoRaceInv == written <= version /\ (~racing => ApartInv)

(* What every apply made is a version of GitHub, and without a race        *)
(* everything read keeps up with it.                                       *)
LEMMA NoRaceAlways == Spec => []NoRaceInv
<1> USE DEF NoRaceInv
<1>1. Init => NoRaceInv
  <2> SUFFICES ASSUME Init PROVE NoRaceInv
    OBVIOUS
  <2>1. /\ \A p \in Planner : planner[p].pc = "idle"
        /\ \A w \in Writer : ~Writing(w)
        /\ version = 0 /\ written = 0 /\ ~cache.stored
    BY InitIdle DEF Init, NoCache, Writing
  <2> QED BY <2>1 DEF ApartInv, UpToDate, InFlight, SeesKitWrites, Answered
<1>2. ASSUME TypeOK, NoRaceInv, [Next]_vars PROVE NoRaceInv'
  <2> USE <1>2
  <2>0. written \in Nat /\ version \in Nat
    BY BoundsType DEF TypeOK
  <2>1. ASSUME NEW p \in Planner, Start(p) PROVE NoRaceInv'
    <3>1. /\ UNCHANGED <<version, written, cache, writer>>
          /\ racing' <=> racing \/ \E w \in Writer : Writing(w)
      BY <2>1 DEF Start, TypeOK
    <3>2. /\ \A q \in Planner \ {p} : planner'[q] = planner[q]
          /\ planner'[p].pc = "started" /\ planner'[p].owed = written
      BY <2>1, StartEffect
    <3>3. ASSUME ~racing' PROVE ApartInv'
      BY <3>1, <3>2, <3>3 DEF ApartInv, UpToDate, InFlight, SeesKitWrites, Answered, Writing
    <3> QED BY <3>1, <3>3
  <2>2. ASSUME NEW p \in Planner, AnswerFromCache(p) PROVE NoRaceInv'
    <3>1. UNCHANGED <<version, written, racing, cache, writer>> /\ cache.stored
          /\ planner[p].pc = "started"
      BY <2>2 DEF AnswerFromCache, CacheIsFresh
    <3>2. /\ \A q \in Planner \ {p} : planner'[q] = planner[q]
          /\ planner'[p].pc = "answered" /\ planner'[p].owed = planner[p].owed
          /\ planner'[p].snapshot = cache.snapshot
      BY <2>2, AnswerEffect
    <3>3. ASSUME ~racing' PROVE ApartInv'
      BY <3>1, <3>2, <3>3
         DEF ApartInv, NobodyReads, UpToDate, InFlight, SeesKitWrites, Answered, Writing
    <3> QED BY <3>1, <3>3
  <2>3. ASSUME NEW p \in Planner, Miss(p) \/ FailClosed(p) PROVE NoRaceInv'
    <3>1. UNCHANGED <<version, written, racing, cache, writer>> /\ InFlight(p)
      BY <2>3 DEF Miss, FailClosed, InFlight
    <3>2. /\ \A q \in Planner \ {p} : planner'[q] = planner[q]
          /\ planner'[p].pc \in {"missed", "failed"} /\ planner'[p].owed = planner[p].owed
      BY <2>3, MoveEffect DEF Miss, FailClosed
    <3>3. ASSUME ~racing' PROVE ApartInv'
      BY <3>1, <3>2, <3>3
         DEF ApartInv, NobodyReads, UpToDate, InFlight, SeesKitWrites, Answered, Writing
    <3> QED BY <3>1, <3>3
  <2>4. ASSUME NEW p \in Planner, Fetch(p) PROVE NoRaceInv'
    <3>1. UNCHANGED <<version, written, racing, cache, writer>> /\ planner[p].pc = "missed"
      BY <2>4 DEF Fetch
    <3>2. /\ \A q \in Planner \ {p} : planner'[q] = planner[q]
          /\ planner'[p].pc = "fetched" /\ planner'[p].owed = planner[p].owed
          /\ planner'[p].snapshot.version = version
      BY <2>4, FetchEffect
    <3>3. ASSUME ~racing' PROVE ApartInv'
      BY <2>0, <3>1, <3>2, <3>3
         DEF ApartInv, NobodyReads, UpToDate, InFlight, SeesKitWrites, Answered, Writing
    <3> QED BY <3>1, <3>3
  <2>5. ASSUME NEW p \in Planner, Store(p) \/ StoreFails(p) PROVE NoRaceInv'
    <3>1. /\ UNCHANGED <<version, written, racing, writer>> /\ planner[p].pc = "fetched"
          /\ planner' = [planner EXCEPT ![p] = [@ EXCEPT !.pc = "answered"]]
      BY <2>5 DEF Store, StoreFails
    <3>2. /\ \A q \in Planner \ {p} : planner'[q] = planner[q]
          /\ planner'[p].pc = "answered" /\ planner'[p].owed = planner[p].owed
          /\ planner'[p].snapshot = planner[p].snapshot
      BY <3>1, MoveEffect
    <3>3. cache' = cache \/ cache'.snapshot = planner[p].snapshot
      BY <2>5, StoreEffect DEF StoreFails
    <3>4. ASSUME ~racing' PROVE ApartInv'
      <4>1. InFlight(p) /\ ApartInv
        BY <3>1, <3>4 DEF InFlight
      <4>2. \A w \in Writer : ~Writing(w)
        BY <4>1 DEF ApartInv, NobodyReads
      <4>3. planner[p].snapshot.version >= written /\ planner[p].owed = written
        BY <3>1, <4>1 DEF ApartInv, UpToDate
      <4>4. cache'.stored => cache'.snapshot.version >= written
        BY <3>3, <4>1, <4>3 DEF ApartInv
      <4> QED BY <3>1, <3>2, <4>1, <4>2, <4>3, <4>4
              DEF ApartInv, UpToDate, InFlight, SeesKitWrites, Answered, Writing
    <3> QED BY <3>1, <3>4
  <2>6. ASSUME NEW w \in Writer, Invalidate(w) PROVE NoRaceInv'
    <3>1. /\ UNCHANGED <<version, written, planner>> /\ ~cache'.stored
          /\ racing' <=> racing \/ \E p \in Planner : InFlight(p)
      BY <2>6 DEF Invalidate, NoCache, TypeOK
    <3>2. ASSUME ~racing' PROVE ApartInv'
      BY <3>1, <3>2
         DEF ApartInv, NobodyReads, UpToDate, InFlight, SeesKitWrites, Answered
    <3> QED BY <3>1, <3>2
  <2>7. ASSUME NEW w \in Writer, Land(w) PROVE NoRaceInv'
    <3>1. /\ UNCHANGED <<racing, cache, planner, writer>> /\ Writing(w)
          /\ version' = version + 1 /\ written' = version + 1
      BY <2>7 DEF Land
    <3>2. ASSUME ~racing' PROVE ApartInv'
      BY <3>1, <3>2
         DEF ApartInv, NobodyReads, UpToDate, InFlight, SeesKitWrites, Answered, Writing
    <3> QED BY <2>0, <3>1, <3>2
  <2>8. ASSUME NEW w \in Writer, End(w) PROVE NoRaceInv'
    <3>1. UNCHANGED <<version, written, racing, cache, planner>>
      BY <2>8 DEF End
    <3>2. \A v \in Writer : Writing(v)' => Writing(v)
      BY <2>8 DEF End, Writing, TypeOK
    <3> QED BY <3>1, <3>2
            DEF ApartInv, NobodyReads, UpToDate, InFlight, SeesKitWrites, Answered
  <2>9. ASSUME ChangeGitHub \/ Retarget \/ Tick \/ UNCHANGED vars PROVE NoRaceInv'
    <3>1. /\ UNCHANGED <<written, racing, cache, planner, writer>>
          /\ version' = version \/ version' = version + 1
      BY <2>9 DEF ChangeGitHub, Retarget, Tick, vars
    <3>2. written' <= version'
      BY <2>0, <3>1
    <3> QED BY <3>1, <3>2
            DEF ApartInv, NobodyReads, UpToDate, InFlight, SeesKitWrites, Answered, Writing
  <2> QED BY <2>1, <2>2, <2>3, <2>4, <2>5, <2>6, <2>7, <2>8, <2>9 DEF Next
<1> QED BY <1>1, <1>2, TypeCorrect, PTL DEF Spec

(* After an apply, failed or not, the next planning command has seen what  *)
(* it wrote, unless some read overlapped some apply: for any number of     *)
(* readers and appliers (freshness.py 253-280).                            *)
THEOREM AppliesAreSeen == Spec => []RefetchesUnlessRacing
<1>1. NoRaceInv => RefetchesUnlessRacing
  BY DEF NoRaceInv, ApartInv, RefetchesUnlessRacing
<1> QED BY <1>1, NoRaceAlways, PTL
=============================================================================
