---------------------------- MODULE FreshnessCache ----------------------------
(***************************************************************************)
(* The observed-state cache: the planning commands and observe that answer *)
(* from it or refetch, abk snapshot that refreshes it, the apply commands  *)
(* that delete it before their first write, all of them processes that may *)
(* overlap, while people change GitHub.                                    *)
(*                                                                         *)
(* GitHub's state is a version number; a snapshot is the version it read   *)
(* (a snapshot torn over several pages is not modelled).  The manifest     *)
(* names the target a snapshot is taken of.                                *)
(***************************************************************************)
EXTENDS Naturals

CONSTANTS
    Planner,    \* next, prioritize, sprint-plan, gantt, observe: resolve_snapshot
    Manual,     \* the ones that are abk snapshot
    Writer,     \* sync-apply, import-apply, scaffold-, iteration-, init-apply
    Target,     \* owner, repository and Project
    MaxAge,     \* --max-age
    MaxClock, MaxVersion    \* bounds on time and on changes of GitHub

ASSUME ManualType == Manual \subseteq Planner
ASSUME BoundsType == MaxAge \in Nat /\ MaxClock \in Nat /\ MaxVersion \in Nat

VARIABLES
    clock,
    target,     \* of the manifest
    version,    \* of GitHub
    born,       \* history: when each version came to be
    written,    \* history: the newest version an apply command made
    racing,     \* history: some read overlapped some apply
    cache,      \* observed-snapshot.json
    planner,    \* the processes that read
    writer      \* the processes that write

vars == <<clock, target, version, born, written, racing, cache, planner, writer>>

NoCache == [stored |-> FALSE]
Snapshot == [version : 0..MaxVersion, target : Target]
Entry == [stored : {TRUE}, observed : 0..MaxClock, snapshot : Snapshot, manual : BOOLEAN]

(* now: the clock when the freshness of the cache was judged.  owed: the   *)
(* newest apply the process started after.                                 *)
Process == [pc : {"idle", "started", "missed", "fetched", "answered", "failed"},
            now : 0..MaxClock, target : Target, owed : 0..MaxVersion,
            snapshot : Snapshot, source : {"none", "cache", "stamped", "fetched"}]
InFlight(p) == planner[p].pc \in {"started", "missed", "fetched"}
Writing(w) == writer[w] = "writing"

TypeOK ==
    /\ clock \in 0..MaxClock /\ target \in Target /\ version \in 0..MaxVersion
    /\ born \in [0..MaxVersion -> 0..MaxClock]
    /\ written \in 0..MaxVersion /\ racing \in BOOLEAN
    /\ cache = NoCache \/ cache \in Entry
    /\ planner \in [Planner -> Process]
    /\ writer \in [Writer -> {"idle", "writing", "ended"}]

Init ==
    /\ clock = 0 /\ target \in Target /\ version = 0
    /\ born = [v \in 0..MaxVersion |-> 0]
    /\ written = 0 /\ racing = FALSE
    /\ cache = NoCache
    /\ planner = [p \in Planner |->
          [pc |-> "idle", now |-> 0, target |-> target, owed |-> 0,
           snapshot |-> [version |-> 0, target |-> target], source |-> "none"]]
    /\ writer = [w \in Writer |-> "idle"]

-----------------------------------------------------------------------------
(* A reading command loads the manifest and takes the time. *)
Start(p) ==
    /\ planner[p].pc = "idle"
    /\ planner' = [planner EXCEPT ![p] = [@ EXCEPT !.pc = "started", !.now = clock,
                                  !.target = target, !.owed = written]]
    /\ racing' = (racing \/ \E w \in Writer : Writing(w))
    /\ UNCHANGED <<clock, target, version, born, written, cache, writer>>

(* Faulty: the target is not compared. *)
CacheIsRecent(p) ==
    /\ cache.stored
    /\ cache.observed <= planner[p].now
    /\ planner[p].now - cache.observed <= MaxAge

(* cache_is_fresh: same target, not from the future, not too old. *)
CacheIsFresh(p) ==
    /\ cache.stored
    /\ cache.snapshot.target = planner[p].target
    /\ cache.observed <= planner[p].now
    /\ planner[p].now - cache.observed <= MaxAge

AnswerFromCache(p) ==
    /\ planner[p].pc = "started" /\ p \notin Manual
    /\ CacheIsFresh(p)
    /\ planner' = [planner EXCEPT ![p] =
          [@ EXCEPT !.pc = "answered", !.snapshot = cache.snapshot,
                        !.source = IF cache.manual THEN "stamped" ELSE "cache"]]
    /\ UNCHANGED <<clock, target, version, born, written, racing, cache, writer>>

Miss(p) ==
    /\ planner[p].pc = "started"
    /\ p \in Manual \/ ~CacheIsFresh(p)
    /\ planner' = [planner EXCEPT ![p] = [@ EXCEPT !.pc = "missed"]]
    /\ UNCHANGED <<clock, target, version, born, written, racing, cache, writer>>

Fetch(p) ==
    /\ planner[p].pc = "missed"
    /\ planner' = [planner EXCEPT ![p] = [@ EXCEPT !.pc = "fetched", !.source = "fetched",
                        !.snapshot = [version |-> version, target |-> planner[p].target]]]
    /\ UNCHANGED <<clock, target, version, born, written, racing, cache, writer>>

(* The read fails: no answer, and the cache is left as it was. *)
FailClosed(p) ==
    /\ planner[p].pc = "missed"
    /\ planner' = [planner EXCEPT ![p] = [@ EXCEPT !.pc = "failed"]]
    /\ UNCHANGED <<clock, target, version, born, written, racing, cache, writer>>

(* Faulty: every entry is stamped when it is written. *)
StoreStampedLate(p) ==
    /\ planner[p].pc = "fetched"
    /\ cache' = [stored |-> TRUE, snapshot |-> planner[p].snapshot,
                 observed |-> clock, manual |-> p \in Manual]
    /\ planner' = [planner EXCEPT ![p] = [@ EXCEPT !.pc = "answered"]]
    /\ UNCHANGED <<clock, target, version, born, written, racing, writer>>

(* try_write_cache, stamped with the time the freshness was judged; abk    *)
(* snapshot stamps it with the time of the write.                          *)
Store(p) ==
    /\ planner[p].pc = "fetched"
    /\ cache' = [stored |-> TRUE, snapshot |-> planner[p].snapshot,
                 observed |-> IF p \in Manual THEN clock ELSE planner[p].now,
                 manual |-> p \in Manual]
    /\ planner' = [planner EXCEPT ![p] = [@ EXCEPT !.pc = "answered"]]
    /\ UNCHANGED <<clock, target, version, born, written, racing, writer>>

(* Failing to store it never fails the command. *)
StoreFails(p) ==
    /\ planner[p].pc = "fetched"
    /\ planner' = [planner EXCEPT ![p] = [@ EXCEPT !.pc = "answered"]]
    /\ UNCHANGED <<clock, target, version, born, written, racing, cache, writer>>

-----------------------------------------------------------------------------
(* Faulty: the cache outlives the apply. *)
InvalidateNothing(w) ==
    /\ writer[w] = "idle"
    /\ writer' = [writer EXCEPT ![w] = "writing"]
    /\ racing' = (racing \/ \E p \in Planner : InFlight(p))
    /\ UNCHANGED <<clock, target, version, born, written, cache, planner>>

(* An apply command: invalidate_cache, then the writes, then the end,      *)
(* successful or not.                                                      *)
Invalidate(w) ==
    /\ writer[w] = "idle"
    /\ cache' = NoCache
    /\ writer' = [writer EXCEPT ![w] = "writing"]
    /\ racing' = (racing \/ \E p \in Planner : InFlight(p))
    /\ UNCHANGED <<clock, target, version, born, written, planner>>

Land(w) ==
    /\ Writing(w)
    /\ version < MaxVersion
    /\ version' = version + 1
    /\ born' = [born EXCEPT ![version + 1] = clock]
    /\ written' = version + 1
    /\ UNCHANGED <<clock, target, racing, cache, planner, writer>>

End(w) ==
    /\ Writing(w)
    /\ writer' = [writer EXCEPT ![w] = "ended"]
    /\ UNCHANGED <<clock, target, version, born, written, racing, cache, planner>>

-----------------------------------------------------------------------------
(* People, and time. *)
ChangeGitHub ==
    /\ version < MaxVersion
    /\ version' = version + 1
    /\ born' = [born EXCEPT ![version + 1] = clock]
    /\ UNCHANGED <<clock, target, written, racing, cache, planner, writer>>

Retarget ==
    /\ target' \in Target \ {target}
    /\ UNCHANGED <<clock, version, born, written, racing, cache, planner, writer>>

Tick ==
    /\ clock < MaxClock
    /\ clock' = clock + 1
    /\ UNCHANGED <<target, version, born, written, racing, cache, planner, writer>>

Next ==
    \/ \E p \in Planner : \/ Start(p) \/ AnswerFromCache(p) \/ Miss(p) \/ Fetch(p)
                          \/ FailClosed(p) \/ Store(p) \/ StoreFails(p)
    \/ \E w \in Writer : Invalidate(w) \/ Land(w) \/ End(w)
    \/ ChangeGitHub \/ Retarget \/ Tick

Spec == Init /\ [][Next]_vars

-----------------------------------------------------------------------------
Answered(p) == planner[p].pc = "answered"

(* A command only ever answers about the target its own manifest named,    *)
(* however often the manifest is retargeted under a shared cache           *)
(* (freshness.py 90-110).                                                  *)
AnswersOwnTarget ==
    \A p \in Planner : Answered(p) => planner[p].snapshot.target = planner[p].target

(* The state is well formed and targets are never mixed. *)
Inv == TypeOK /\ AnswersOwnTarget

(* An answer misses no change that was MaxAge old when it was asked for:   *)
(* an entry resolve_snapshot stored is stamped with the time before its    *)
(* read, so its age is never understated (freshness.py 253-280).  Excepted *)
(* are the entries of abk snapshot, stamped after the read (cli.py 938).   *)
MissesOnlyRecent(p) ==
    \A v \in 1..version :
        v > planner[p].snapshot.version => planner[p].now <= born[v] + MaxAge
BoundedStaleness ==
    \A p \in Planner :
        Answered(p) /\ planner[p].source \in {"cache", "fetched"} => MissesOnlyRecent(p)

(* After an apply the next planning command refetches, partly failed       *)
(* applies included (operational-authority.md 138-147), as long as no read *)
(* ever overlapped an apply: a reader that fetched before the write may    *)
(* store its snapshot after the invalidation (freshness.py 277).           *)
SeesKitWrites(p) == Answered(p) => planner[p].snapshot.version >= planner[p].owed
RefetchesUnlessRacing == ~racing => \A p \in Planner : SeesKitWrites(p)
=============================================================================
