-------------------------- MODULE DiscoveryJournal --------------------------
(***************************************************************************)
(* The durable discovery journal of core/src/store.rs and the coordinator  *)
(* steps of core/src/lib.rs that write to it.                              *)
(*                                                                         *)
(* A grant (an authorized root folder) owns a tree of paths.  File events  *)
(* become pending scopes; the coordinator claims a scope, opens a refresh, *)
(* publishes what a read-only helper reports and settles the claim.  Every *)
(* SQLite transaction is one step; a crash may fall between any two.       *)
(*                                                                         *)
(* A candidate's id is a hash of its grant and its path (scanner.rs        *)
(* make_candidate), so a path of the model names the candidate as well.    *)
(***************************************************************************)
EXTENDS Integers, FiniteSets

CONSTANTS
    Paths,       \* every path the model tells apart
    Roots,       \* the paths that are granted folders
    Above,       \* Above[p]: p and its ancestors, up to its grant's folder
    Grant,       \* Grant[p]: the folder of the grant that p belongs to
    EventScope,  \* EventScope[p]: the scope an event at p asks to refresh
    Normal,      \* Normal[p]: p widened to its outermost artifact directory
    LockTarget,  \* LockTarget[p]: the target beside the Cargo.lock at p
    MaxVersion,  \* a path's content is 0 (nothing to report) .. MaxVersion
    MaxRows,     \* DerivedLimits.max_candidate_rows
    ActiveScans, \* scan_worker::ACTIVE_SCANS
    MaxBatch,    \* events received in one bridge batch
    Gaps,        \* whether the event source may lose history
    Lapses,      \* which of the lapses below a behaviour may contain
    None

\* Two ways in which "execute" can hide a candidate that stays on disk without
\* the journal owing another look at it: it stops between suppress_candidate
\* and enqueue_scope, or the reviewed row is already gone when it is suppressed.
Unqueued == "unqueued"
Unlocated == "unlocated"

Below(p) == {q \in Paths : p \in Above[q]}

ASSUME PathsAssumption ==
    /\ Roots \subseteq Paths
    /\ None \notin Paths
    /\ Above \in [Paths -> SUBSET Paths]
    /\ \A p \in Paths : p \in Above[p]
    /\ \A p \in Paths : \A q \in Above[p] : Above[q] \subseteq Above[p]
    /\ \A p, q \in Paths : p \in Above[q] /\ q \in Above[p] => p = q
    /\ \A p \in Paths : \A S \in (SUBSET Above[p]) \ {{}} :
        \E top \in S : \A q \in S : top \in Above[q]
    /\ Grant \in [Paths -> Roots]
    /\ \A p \in Paths : Grant[p] \in Above[p]
    /\ \A p \in Paths : \A q \in Above[p] : Grant[q] = Grant[p]
    /\ \A r \in Roots : Above[r] = {r}

ASSUME ScopeAssumption ==
    /\ EventScope \in [Paths -> Paths]
    /\ Normal \in [Paths -> Paths]
    /\ \A p \in Paths : EventScope[p] \in Above[p] /\ Normal[p] \in Above[p]
    /\ DOMAIN LockTarget \subseteq Paths \ Roots
    /\ \A p \in DOMAIN LockTarget :
        /\ LockTarget[p] \in Paths \ Roots
        /\ Grant[LockTarget[p]] = Grant[p]
        /\ LockTarget[p] \notin Above[p] /\ p \notin Above[LockTarget[p]]

\* A path has finitely many ancestors, one of them the nearest of any group; the
\* target is in the same folder as its Cargo.lock.
ASSUME NearestAssumption ==
    /\ \A p \in Paths : \A S \in (SUBSET Above[p]) \ {{}} :
        \E nearest \in S : S \subseteq Above[nearest]
    /\ \A p \in DOMAIN LockTarget :
        Above[LockTarget[p]] \ {LockTarget[p]} = Above[p] \ {p}

ASSUME BoundAssumption ==
    /\ MaxVersion \in Nat \ {0}
    /\ MaxRows \in Nat \ {0}
    /\ ActiveScans \in Nat \ {0}
    /\ MaxBatch \in Nat \ {0}
    /\ Gaps \in BOOLEAN
    /\ Lapses \subseteq {Unqueued, Unlocated}

Items == Paths \ Roots       \* a granted folder is never itself a candidate
Versions == 0..MaxVersion
Unread == -1
Tickets == [claimed : Paths, scope : Paths, lock : BOOLEAN, was : BOOLEAN,
            obs : [Items -> Versions \cup {Unread}], sent : SUBSET Items]
Measures == UNION {[Below(p) -> Versions] : p \in Items}

ASSUME NoneAssumption == None \notin Measures /\ None \notin Tickets

VARIABLES
    disk,        \* what is on disk (external)
    unheard,     \* changed paths whose event is not yet journaled (external)
    historyLost, \* the event source reported a gap (external)
    granted,     \* roots
    pending,     \* pending_scopes
    before,      \* rowid order of pending_scopes, as a relation
    active,      \* active_scopes
    marker,      \* refreshes: the scope of each grant's open refresh
    unseen,      \* refresh_seen rows with seen = 0
    rows,        \* candidates: the published measurement of each path
    tomb,        \* candidate_tombstones
    incomplete,  \* incomplete_roots
    limited,     \* derived_limited_roots
    omitted,     \* refresh_admission: the open refresh left a row out
    pressed,     \* derived_admission_pressure is non-zero
    reader,      \* each grant's helper and its ScopeRefresh ticket (memory)
    admitting,   \* the scope claimed by an unfinished admission (memory)
    worker,      \* the discovery worker; "stopping" once admissions ended (memory)
    review,      \* the reviewed candidate (memory)
    cleanup      \* how far the cleanup of the reviewed candidate is (memory)

fsVars == <<disk, unheard, historyLost>>
queueVars == <<pending, before>>
claimVars == <<active, marker, unseen, omitted>>
indexVars == <<rows, tomb, incomplete, limited, pressed>>
engineVars == <<reader, admitting, worker>>
cleanVars == <<review, cleanup>>
vars == <<fsVars, granted, queueVars, claimVars, indexVars, engineVars,
          cleanVars>>

-----------------------------------------------------------------------------
(* Scopes and the pending queue                                            *)

Covered(P, p) == \E q \in P : q \in Above[p]

\* enqueue_scopes and enqueue_validated_scope_in: a batch drops its own
\* descendants; a pending ancestor subsumes a new scope, which otherwise
\* replaces its pending descendants.
Tops(S) == {p \in S : \A q \in S : q \in Above[p] => q = p}

\* Faulty on purpose: pending descendants stay beside the scope that covers them.
EnqueuedBeside(P, S) == P \cup {p \in Tops(S) : ~Covered(P, p)}

EnqueuedAll(P, S) ==
    LET new == {p \in Tops(S) : ~Covered(P, p)}
    IN  {p \in P : ~Covered(new, p)} \cup new

\* Faulty on purpose: a row queued again keeps its place in the queue.
QueueKeepingRowids(P) ==
    /\ pending' = P
    /\ before' = before \cup ((P \cap pending) \X (P \ pending))

\* A row keeps its rowid while it stays queued; a new row gets the largest.
Queue(P) ==
    /\ pending' = P
    /\ before' = (before \cap (P \X P)) \cup ((P \cap pending) \X (P \ pending))

\* Store::enclosing_candidate: the nearest row among the paths of S.
NearestRow(S) == {q \in S \cap Items :
                    /\ rows[q] # None
                    /\ \A s \in S \cap Items : rows[s] # None => s \in Above[q]}

\* scan_worker::resolve_request: widen a claim to the candidate that encloses
\* it; the row of a Cargo.lock itself does not count as enclosing.
Resolved(p) ==
    LET indexed == NearestRow(IF p \in DOMAIN LockTarget
                              THEN Above[p] \ {p} ELSE Above[p])
    IN  Normal[IF indexed = {} THEN p ELSE CHOOSE q \in indexed : TRUE]

IsLockRefresh(p) == p \in DOMAIN LockTarget /\ Resolved(p) = p

\* What a refresh reads, and the rows and tombstones it captures: its scope
\* (and the target beside a Cargo.lock), with the scope's ancestors unless
\* the refresh is that pair.
Footprint(scope, lock) ==
    Below(scope) \cup (IF lock THEN Below(LockTarget[scope]) ELSE {})

\* Faulty on purpose: the target beside a Cargo.lock is not captured.
CapturedScopeOnly(scope, lock) == Below(scope) \cup Above[scope]

Captured(scope, lock) ==
    Footprint(scope, lock) \cup (IF lock THEN {} ELSE Above[scope])

-----------------------------------------------------------------------------
(* What is on disk, and what a helper makes of it                          *)

Measure(d, p) == [q \in Below(p) |-> d[q]]

\* A candidate is reported as a unit, never a path inside another one.
Visible(d, p, within) ==
    /\ d[p] > 0
    /\ \A q \in (Above[p] \ {p}) \cap within : d[q] <= 0

Truth(p) == IF Visible(disk, p, Items) THEN Measure(disk, p) ELSE None

Foot(rd) == Footprint(rd.scope, rd.lock) \cap Items

\* candidate_in_read_scope
InReadScope(rd, p) ==
    IF rd.lock THEN p \in {rd.scope, LockTarget[rd.scope]} ELSE p \in Foot(rd)

\* The traversal comes down to p, and does not enter a candidate above it.
Reached(rd, p) ==
    /\ InReadScope(rd, p)
    /\ \A q \in Above[p] \cap Foot(rd) : rd.obs[q] # Unread
    /\ Visible(rd.obs, p, Foot(rd))

Reports(rd, p) == Reached(rd, p) /\ \A q \in Below(p) : rd.obs[q] # Unread

\* Everything was read and reported; a refresh of a Cargo.lock that comes upon
\* anything but its two paths fails.
ReadAll(rd) ==
    /\ \A q \in Foot(rd) : rd.obs[q] # Unread
    /\ \A p \in Foot(rd) : Visible(rd.obs, p, Foot(rd)) => p \in rd.sent

RowCount == Cardinality({p \in Items : rows[p] # None})
NoReaders == \A r \in Roots : reader[r] = None

\* The shape of the journal: its queue, claims, rows and readers (store.rs, lib.rs).
TypeOK ==
    /\ disk \in [Items -> Versions]
    /\ unheard \subseteq Paths
    /\ historyLost \in BOOLEAN
    /\ granted \subseteq Roots
    /\ pending \subseteq Paths
    /\ before \subseteq pending \X pending
    /\ active \subseteq Paths
    /\ marker \in [Roots -> Paths \cup {None}]
    /\ unseen \in [Roots -> SUBSET Items]
    /\ omitted \subseteq Roots
    /\ rows \in [Items -> Measures \cup {None}]
    /\ tomb \in [Items -> {"none", Unlocated, "located"}]
    /\ incomplete \subseteq Roots
    /\ limited \subseteq Roots
    /\ pressed \in BOOLEAN
    /\ reader \in [Roots -> {None} \cup Tickets]
    /\ admitting \in Paths \cup {None}
    /\ worker \in {"idle", "running", "stopping"}
    /\ review \in Items \cup {None}
    /\ cleanup \in {"none", "pausing", "hidden", "queued"}

\* A new library: nothing is granted, indexed or queued.
Init ==
    /\ disk \in [Items -> Versions]
    /\ unheard = {} /\ historyLost = FALSE
    /\ granted = {}
    /\ pending = {} /\ before = {}
    /\ active = {} /\ omitted = {}
    /\ marker = [r \in Roots |-> None]
    /\ unseen = [r \in Roots |-> {}]
    /\ rows = [p \in Items |-> None]
    /\ tomb = [p \in Items |-> "none"]
    /\ incomplete = {} /\ limited = {} /\ pressed = FALSE
    /\ reader = [r \in Roots |-> None]
    /\ admitting = None /\ worker = "idle"
    /\ review = None /\ cleanup = "none"

-----------------------------------------------------------------------------
(* The file system and its event source (outside the repository)           *)

\* Something changes at p; the event source owes an event for it.
Change(p, v) ==
    /\ disk[p] # v
    /\ disk' = [disk EXCEPT ![p] = v]
    /\ unheard' = unheard \cup {p}
    /\ UNCHANGED <<historyLost, granted, queueVars, claimVars, indexVars,
                   engineVars, cleanVars>>

\* The event source drops what it had not delivered and says so.
LoseHistory ==
    /\ Gaps /\ unheard # {}
    /\ unheard' = {}
    /\ historyLost' = TRUE
    /\ UNCHANGED <<disk, granted, queueVars, claimVars, indexVars, engineVars,
                   cleanVars>>

-----------------------------------------------------------------------------
(* Requests                                                                *)

\* begin_isolated_scope holds the runtime and store locks from the claim to
\* the refresh: only a crash can fall between its two transactions.
StoreFree == admitting = None

\* No worker runs and no mutation does: Engine::busy is clear.
Idle == StoreFree /\ worker = "idle" /\ cleanup = "none"

\* "dirty": one batch of a grant's events becomes durable in one transaction.
\* Events may be repeated, and a batch may also hold paths that did not change.
Receive(r, S) ==
    /\ StoreFree /\ r \in granted
    /\ S # {} /\ Cardinality(S) <= MaxBatch
    /\ S \subseteq Below(r)
    /\ Queue(EnqueuedAll(pending, {EventScope[p] : p \in S}))
    /\ unheard' = unheard \ S
    /\ UNCHANGED <<disk, historyLost, granted, claimVars, indexVars, engineVars,
                   cleanVars>>

\* Faulty on purpose: the cursor moves past a gap and nothing is queued.
CursorOnly ==
    /\ StoreFree /\ historyLost
    /\ historyLost' = FALSE
    /\ UNCHANGED <<disk, unheard, granted, queueVars, claimVars, indexVars,
                   engineVars, cleanVars>>

\* "reconcile_events": after a gap every grant is queued before the cursor
\* moves past it.
ReconcileEvents ==
    /\ StoreFree /\ historyLost
    /\ Queue(EnqueuedAll(pending, granted))
    /\ historyLost' = FALSE
    /\ UNCHANGED <<disk, unheard, granted, claimVars, indexVars, engineVars,
                   cleanVars>>

\* "scan" of one grant.
RequestScan(r) ==
    /\ StoreFree /\ r \in granted /\ cleanup = "none"
    /\ Queue(EnqueuedAll(pending, {r}))
    /\ UNCHANGED <<fsVars, granted, claimVars, indexVars, engineVars, cleanVars>>

\* remove_discovery_for_root and the deletes beside it.
Forgotten(r) ==
    /\ active' = active \ Below(r)
    /\ marker' = [marker EXCEPT ![r] = None]
    /\ unseen' = [unseen EXCEPT ![r] = {}]
    /\ omitted' = omitted \ {r}
    /\ rows' = [p \in Items |-> IF Grant[p] = r THEN None ELSE rows[p]]
    /\ tomb' = [p \in Items |-> IF Grant[p] = r /\ tomb[p] = "located"
                                THEN "none" ELSE tomb[p]]
    /\ limited' = limited \ {r}

\* "authorize": a new grant is incomplete, and its scan is asked for apart.
Authorize(r) ==
    /\ Idle /\ r \notin granted
    /\ granted' = granted \cup {r}
    /\ incomplete' = incomplete \cup {r}
    /\ review' = None
    /\ UNCHANGED <<fsVars, queueVars, claimVars, rows, tomb, limited, pressed,
                   engineVars, cleanup>>

\* "reauthorize", and the narrowing of a Home grant: the old findings go and
\* the replacement scan is queued in the same transaction.
Reauthorize(r) ==
    /\ Idle /\ r \in granted
    /\ Forgotten(r)
    /\ Queue((pending \ Below(r)) \cup {r})
    /\ incomplete' = incomplete \cup {r}
    /\ review' = None
    /\ UNCHANGED <<fsVars, granted, pressed, engineVars, cleanup>>

\* "forget".
Forget(r) ==
    /\ Idle /\ r \in granted
    /\ granted' = granted \ {r}
    /\ Forgotten(r)
    /\ Queue(pending \ Below(r))
    /\ incomplete' = incomplete \ {r}
    /\ review' = None
    /\ UNCHANGED <<fsVars, pressed, engineVars, cleanup>>

-----------------------------------------------------------------------------
(* The coordinator: admission, publication, settlement                     *)

\* Faulty on purpose: two scopes of one grant may be claimed.
ClaimableByPath(p) == p \in pending /\ p \notin active

\* Faulty on purpose: any queued scope may be claimed next.
ClaimableInAnyOrder(p) == p \in pending /\ \A a \in active : Grant[a] # Grant[p]

\* take_scope_bounded: the oldest scope whose grant has no claim.
Claimable(p) ==
    /\ p \in pending
    /\ \A a \in active : Grant[a] # Grant[p]
    /\ \A q \in pending : <<q, p>> \in before => \E a \in active : Grant[a] = Grant[q]

Claim(p) ==
    /\ StoreFree /\ cleanup = "none" /\ worker = "running"
    /\ Cardinality(active) < ActiveScans
    /\ Claimable(p)
    /\ active' = active \cup {p}
    /\ Queue(pending \ {p})
    /\ admitting' = p
    /\ UNCHANGED <<fsVars, granted, marker, unseen, omitted, indexVars, reader,
                   worker, cleanVars>>

Lifted(S) == [q \in Items |-> IF q \in S /\ tomb[q] = "located" THEN "none" ELSE tomb[q]]

\* begin_scope_refresh (or its Cargo.lock form), then the helper is started.
BeginRefresh ==
    /\ admitting # None
    /\ LET p == admitting
           r == Grant[p]
           scope == Resolved(p)
           lock == IsLockRefresh(p)
       IN  /\ incomplete' = incomplete \cup {r}
           /\ Queue(pending \ Footprint(scope, lock))
           /\ marker' = [marker EXCEPT ![r] = scope]
           /\ unseen' = [unseen EXCEPT ![r] =
                 {q \in Captured(scope, lock) \cap Items : rows[q] # None}]
           /\ tomb' = Lifted(Captured(scope, lock))
           /\ reader' = [reader EXCEPT ![r] =
                 [claimed |-> p, scope |-> scope, lock |-> lock,
                  was |-> r \in incomplete,
                  obs |-> [q \in Items |-> Unread], sent |-> {}]]
    /\ admitting' = None
    /\ UNCHANGED <<fsVars, granted, active, omitted, rows, limited, pressed,
                   worker, cleanVars>>

\* The admission fails after its claim was committed: no more admissions.
AdmissionFails ==
    /\ admitting # None
    /\ admitting' = None
    /\ worker' = "stopping"
    /\ UNCHANGED <<fsVars, granted, queueVars, claimVars, indexVars, reader,
                   cleanVars>>

\* The helper looks at one path of its scope, outside every lock.
Read(r, p) ==
    /\ reader[r] # None
    /\ p \in Foot(reader[r]) /\ reader[r].obs[p] = Unread
    /\ reader' = [reader EXCEPT ![r].obs[p] = disk[p]]
    /\ UNCHANGED <<fsVars, granted, queueVars, claimVars, indexVars, admitting,
                   worker, cleanVars>>

\* Helper output is only written while no mutation has been admitted.
MayPublish(r) == StoreFree /\ cleanup = "none" /\ reader[r] # None

MarkSeen(r, p) == unseen' = [unseen EXCEPT ![r] = @ \ {p}]

\* Faulty on purpose: an early report lifts the tombstone.
Unhidden(p) == [tomb EXCEPT ![p] = "none"]

\* A report tells where a tombstone without a grant belongs.
Located(p) == [tomb EXCEPT ![p] = IF @ = Unlocated THEN "located" ELSE @]

\* save_batch, for a candidate that is still being measured.
SaveProvisional(r, p) ==
    /\ MayPublish(r)
    /\ Reached(reader[r], p)
    /\ MarkSeen(r, p)
    /\ tomb' = Located(p)
    /\ UNCHANGED <<fsVars, granted, queueVars, active, marker, omitted, rows,
                   incomplete, limited, pressed, engineVars, cleanVars>>

\* Faulty on purpose: one row too many is admitted.
FitsInclusive(p) == rows[p] # None \/ RowCount <= MaxRows

\* save_batch, for a measured candidate: a tombstone rejects it, an unchanged
\* row is acknowledged, a row over the budget is left out and remembered.
Fits(p) == rows[p] # None \/ RowCount < MaxRows

\* Faulty on purpose: a tombstone is ignored.
PublishedAnyway(p, m) == [rows EXCEPT ![p] = m]

Published(p, m) == IF tomb[p] = "none" THEN [rows EXCEPT ![p] = m] ELSE rows

SaveRow(r, p) ==
    /\ MayPublish(r)
    /\ Reports(reader[r], p) /\ p \notin reader[r].sent
    /\ LET m == Measure(reader[r].obs, p)
       IN  IF Fits(p)
           THEN /\ MarkSeen(r, p)
                /\ rows' = Published(p, m)
                /\ UNCHANGED <<omitted, incomplete, limited, pressed>>
           ELSE /\ omitted' = omitted \cup {r}
                /\ limited' = limited \cup {r}
                /\ incomplete' = incomplete \cup {r}
                /\ pressed' = TRUE
                /\ UNCHANGED <<unseen, rows>>
    /\ tomb' = Located(p)
    /\ reader' = [reader EXCEPT ![r].sent = @ \cup {p}]
    /\ UNCHANGED <<fsVars, granted, queueVars, active, marker, admitting,
                   worker, cleanVars>>

\* Faulty on purpose: a partial pass prunes too.
PrunedAlways(r, whole) == [p \in Items |-> IF p \in unseen[r] THEN None ELSE rows[p]]

\* finish_scope_refresh: prune, coverage, requeue and acknowledgement commit
\* together.  A pass counts as whole when it completed and left no row out.
Pruned(r, whole) ==
    [p \in Items |-> IF whole /\ p \in unseen[r] THEN None ELSE rows[p]]

\* Faulty on purpose: any whole pass completes its grant.
IncompleteAfterAny(r, whole) == IF whole THEN incomplete \ {r} ELSE incomplete

\* Coverage: a scope can complete its grant only if nothing else was missing.
IncompleteAfter(r, whole) ==
    IF whole /\ (reader[r].scope = r \/ ~reader[r].was) THEN incomplete \ {r}
                                                         ELSE incomplete

LimitedAfter(r, whole) ==
    IF whole /\ reader[r].scope = r THEN limited \ {r} ELSE limited

\* The claim is acknowledged, after it was queued again if it has to be replayed.
SettledQueue(p, requeue) == IF requeue THEN EnqueuedAll(pending, {p}) ELSE pending

Settle(r, complete, requeue) ==
    LET rd == reader[r]
        whole == complete /\ r \notin omitted
    IN  /\ marker[r] = rd.scope
        /\ rows' = Pruned(r, whole)
        /\ unseen' = [unseen EXCEPT ![r] = {}]
        /\ marker' = [marker EXCEPT ![r] = None]
        /\ omitted' = omitted \ {r}
        /\ incomplete' = IncompleteAfter(r, whole)
        /\ limited' = LimitedAfter(r, whole)
        /\ Queue(SettledQueue(rd.claimed, requeue))
        /\ rd.claimed \in active
        /\ active' = active \ {rd.claimed}
        /\ reader' = [reader EXCEPT ![r] = None]
        /\ UNCHANGED <<fsVars, granted, tomb, pressed, admitting, cleanVars>>

\* The helper read and reported everything and says so.
FinishComplete(r) ==
    /\ MayPublish(r) /\ ReadAll(reader[r])
    /\ Settle(r, TRUE, FALSE)
    /\ UNCHANGED worker

\* The helper finished with errors: acknowledged, but never complete.
FinishPartial(r) ==
    /\ MayPublish(r)
    /\ Settle(r, FALSE, FALSE)
    /\ UNCHANGED worker

\* The helper failed, timed out or broke its protocol: its scope is queued
\* again and no scope is admitted until the worker is launched again.
HelperFails(r) ==
    /\ MayPublish(r)
    /\ Settle(r, FALSE, TRUE)
    /\ worker' = "stopping"

\* retire_isolated_scopes: every helper is killed and its scope queued again,
\* incomplete coverage kept.
RetireAll ==
    LET rs == {r \in Roots : reader[r] # None}
        claims == {reader[r].claimed : r \in rs}
    IN  /\ Queue(EnqueuedAll(pending, claims))
        /\ active' = active \ claims
        /\ marker' = [r \in Roots |-> IF r \in rs THEN None ELSE marker[r]]
        /\ unseen' = [r \in Roots |-> IF r \in rs THEN {} ELSE unseen[r]]
        /\ omitted' = omitted \ rs
        /\ reader' = [r \in Roots |-> None]

\* A mutation waits: the coordinator ends its read epoch and parks.
Park ==
    /\ StoreFree /\ cleanup = "pausing" /\ ~NoReaders
    /\ RetireAll
    /\ UNCHANGED <<fsVars, granted, indexVars, admitting, worker, cleanVars>>

\* "cancel": the worker retires its helpers and ends without recovery, unless
\* a newer "scan" or "resume" keeps it.
Cancel ==
    /\ StoreFree /\ cleanup \in {"none", "pausing"} /\ worker # "idle"
    /\ RetireAll
    /\ worker' \in {"idle", worker}
    /\ UNCHANGED <<fsVars, granted, indexVars, admitting, cleanVars>>

NoClaims ==
    /\ active' = {} /\ omitted' = {}
    /\ marker' = [r \in Roots |-> None]
    /\ unseen' = [r \in Roots |-> {}]

\* recover_discovery, after the grants of "also" became incomplete: abandoned
\* claims and refreshes are queued again, nothing is pruned.
Owed == {p \in active \cup ({marker[r] : r \in Roots} \ {None}) : Grant[p] \in granted}

Recovered(also) ==
    /\ Queue({p \in EnqueuedAll(pending, Owed) : Grant[p] \in granted})
    /\ incomplete' = incomplete \cup also \cup {Grant[p] : p \in Owed}
    /\ NoClaims

\* launch_scan, and the recovery run_discovery starts with.  Without pending
\* work no worker is started.
Launch ==
    /\ Idle /\ pending # {}
    /\ Recovered({})
    /\ worker' = "running"
    /\ UNCHANGED <<fsVars, granted, rows, tomb, limited, pressed, reader,
                   admitting, cleanVars>>

\* Every claim is settled: the worker ends because nothing is pending, or
\* recovers what a failed admission left behind.
WorkerDone ==
    /\ StoreFree /\ cleanup = "none" /\ NoReaders
    /\ \/ /\ worker = "running" /\ pending = {} /\ active = {}
          /\ UNCHANGED <<queueVars, claimVars, incomplete>>
       \/ /\ worker = "stopping" \/ active # {}
          /\ worker # "idle"
          /\ Recovered({})
    /\ worker' = "idle"
    /\ UNCHANGED <<fsVars, granted, rows, tomb, limited, pressed, reader,
                   admitting, cleanVars>>

\* fail_worker after a database error or a panic: every helper is dropped,
\* and recovery itself may fail and leave the claims in the database.
WorkerFails ==
    /\ StoreFree /\ worker # "idle" /\ cleanup \in {"none", "pausing"}
    /\ \/ Recovered({})
       \/ UNCHANGED <<queueVars, claimVars, incomplete>>
    /\ reader' = [r \in Roots |-> None]
    /\ worker' = "idle"
    /\ UNCHANGED <<fsVars, granted, rows, tomb, limited, pressed, admitting,
                   cleanVars>>

-----------------------------------------------------------------------------
(* The derived-row budget                                                  *)

\* maintain_derived evicts "out" to make the headroom an omitted row asked for,
\* marks the grants "touched", and stays "pressed" if it found nothing to evict.
\* Rows under a claim are never evicted; a reviewed row is skipped but its grant
\* may be marked.
Trims(kept, claims, out, touched, still) ==
    LET indexed == {p \in Items : rows[p] # None}
        free == {p \in indexed \ kept : \A a \in claims : a \notin Above[p]}
        held == {Grant[p] : p \in indexed \cap kept}
    IN  IF pressed /\ RowCount >= MaxRows
        THEN \/ /\ \E p \in free : /\ out = {p}
                                   /\ Grant[p] \in touched
                                   /\ touched \subseteq held \cup {Grant[p]}
                /\ ~still
             \/ free = {} /\ out = {} /\ touched = held /\ still
        ELSE out = {} /\ touched = {} /\ ~still

MaintainDerived ==
    /\ Idle
    /\ \E out \in SUBSET Items, touched \in SUBSET Roots, still \in BOOLEAN :
        /\ Trims({review}, active, out, touched, still)
        /\ rows' = [p \in Items |-> IF p \in out THEN None ELSE rows[p]]
        /\ incomplete' = incomplete \cup touched
        /\ limited' = limited \cup touched
        /\ pressed' = still
    /\ UNCHANGED <<fsVars, granted, queueVars, claimVars, tomb, engineVars,
                   cleanVars>>

-----------------------------------------------------------------------------
(* Cleanup: what it does to the journal                                    *)

\* "prepare" of one candidate, and its expiry.
Prepare(p) ==
    /\ StoreFree /\ cleanup = "none" /\ review = None
    /\ rows[p] # None
    /\ review' = p
    /\ UNCHANGED <<fsVars, granted, queueVars, claimVars, indexVars, engineVars,
                   cleanup>>

ReviewExpires ==
    /\ cleanup = "none" /\ review # None
    /\ review' = None
    /\ UNCHANGED <<fsVars, granted, queueVars, claimVars, indexVars, engineVars,
                   cleanup>>

\* begin_mutation.
BeginCleanup ==
    /\ StoreFree /\ cleanup = "none" /\ review # None
    /\ cleanup' = "pausing"
    /\ UNCHANGED <<fsVars, granted, queueVars, claimVars, indexVars, engineVars,
                   review>>

\* Faulty on purpose: the row is hidden and stays in the index.
SuppressKeepingRow ==
    /\ cleanup = "pausing" /\ StoreFree /\ NoReaders
    /\ rows[review] # None
    /\ tomb' = [tomb EXCEPT ![review] = "located"]
    /\ cleanup' = "hidden"
    /\ UNCHANGED <<fsVars, granted, queueVars, claimVars, rows, incomplete, limited,
                   pressed, engineVars, review>>

\* suppress_candidate: a row that is already gone leaves a tombstone without
\* a grant.
Suppress ==
    /\ cleanup = "pausing" /\ StoreFree /\ NoReaders
    /\ rows[review] # None \/ Unlocated \in Lapses
    /\ tomb' = [tomb EXCEPT ![review] = IF rows[review] # None THEN "located"
                                        ELSE IF @ = "none" THEN Unlocated ELSE @]
    /\ rows' = [rows EXCEPT ![review] = None]
    /\ cleanup' = "hidden"
    /\ UNCHANGED <<fsVars, granted, queueVars, claimVars, incomplete, limited,
                   pressed, engineVars, review>>

\* Faulty on purpose: a cleaned path is not queued.
QueueNothing ==
    /\ cleanup = "hidden"
    /\ cleanup' = "queued"
    /\ UNCHANGED <<fsVars, granted, queueVars, claimVars, indexVars, engineVars, review>>

\* The enqueue_scope that follows it in "execute", in its own transaction.
QueueCleaned ==
    /\ cleanup = "hidden"
    /\ Queue(EnqueuedAll(pending, {review}))
    /\ cleanup' = "queued"
    /\ UNCHANGED <<fsVars, granted, claimVars, indexVars, engineVars, review>>

\* The cleanup ends: after its item, or on an error before any item.  What it
\* removed from disk is a Change like any other.
EndCleanup ==
    /\ \/ cleanup = "queued"
       \/ cleanup = "hidden" /\ Unqueued \in Lapses
       \/ cleanup = "pausing" /\ NoReaders
    /\ cleanup' = "none"
    /\ review' = None
    /\ UNCHANGED <<fsVars, granted, queueVars, claimVars, indexVars, engineVars>>

-----------------------------------------------------------------------------
(* Crash and restart                                                       *)

\* Memory is lost; Store::open recovers the journal, after deleting the index
\* when the classification rules changed, and Engine::open trims it.
Restart(upgraded) ==
    /\ cleanup # "hidden" \/ Unqueued \in Lapses
    /\ IF upgraded
       THEN /\ pending' = granted /\ before' = {}
            /\ incomplete' = incomplete \cup granted
            /\ NoClaims
            /\ rows' = [p \in Items |-> None]
            /\ pressed' = FALSE
            /\ UNCHANGED limited
       ELSE \E out \in SUBSET Items, touched \in SUBSET Roots, still \in BOOLEAN :
            /\ Trims({}, {}, out, touched, still)
            /\ Recovered(touched)
            /\ rows' = [p \in Items |-> IF p \in out THEN None ELSE rows[p]]
            /\ limited' = limited \cup touched
            /\ pressed' = still
    /\ reader' = [r \in Roots |-> None]
    /\ admitting' = None /\ worker' = "idle"
    /\ review' = None /\ cleanup' = "none"
    /\ UNCHANGED <<fsVars, granted, tomb>>

-----------------------------------------------------------------------------

Environment ==
    \/ \E p \in Items, v \in Versions : Change(p, v)
    \/ LoseHistory

Requests ==
    \/ \E r \in Roots : \E S \in SUBSET Below(r) : Receive(r, S)
    \/ ReconcileEvents
    \/ \E r \in Roots : RequestScan(r)
    \/ \E r \in Roots : Authorize(r)
    \/ \E r \in Roots : Reauthorize(r)
    \/ \E r \in Roots : Forget(r)

Coordinator ==
    \/ Launch
    \/ \E p \in Paths : Claim(p)
    \/ BeginRefresh
    \/ AdmissionFails
    \/ \E r \in Roots, p \in Items : Read(r, p)
    \/ \E r \in Roots, p \in Items : SaveProvisional(r, p)
    \/ \E r \in Roots, p \in Items : SaveRow(r, p)
    \/ \E r \in Roots : FinishComplete(r)
    \/ \E r \in Roots : FinishPartial(r)
    \/ \E r \in Roots : HelperFails(r)
    \/ Park
    \/ Cancel
    \/ WorkerDone
    \/ WorkerFails
    \/ MaintainDerived

Cleanup ==
    \/ \E p \in Items : Prepare(p)
    \/ ReviewExpires
    \/ BeginCleanup
    \/ Suppress
    \/ QueueCleaned
    \/ EndCleanup

Next ==
    \/ Environment
    \/ Requests
    \/ Coordinator
    \/ Cleanup
    \/ \E upgraded \in BOOLEAN : Restart(upgraded)

Spec == Init /\ [][Next]_vars

\* What the code's scheduling promises.  Every helper is killed or heard by a
\* deadline and the coordinator polls each of them in turn; an admission is a
\* bounded sequence of transactions; the coordinator tries to admit before it
\* waits; a cleanup ends; and a worker is asked for again and again ("resume",
\* event receipt, end_mutation).  New rules arrive with a new release, so not
\* for ever.
FairSpec ==
    /\ Spec
    /\ WF_vars(BeginRefresh \/ AdmissionFails)
    /\ WF_vars(Park) /\ WF_vars(QueueCleaned) /\ WF_vars(EndCleanup)
    /\ \A r \in Roots : SF_vars(FinishComplete(r) \/ FinishPartial(r) \/ HelperFails(r))
    /\ SF_vars(\E p \in Paths : Claim(p))
    /\ SF_vars(WorkerDone) /\ SF_vars(Launch)
    /\ <>[][~Restart(TRUE)]_vars

-----------------------------------------------------------------------------
(* Properties                                                              *)

Antichain(P) == \A p, q \in P : p \in Above[q] => p = q

\* The queue holds no scope inside another one (enqueue_validated_scope_in),
\* through batches, requeues, recovery and rule upgrades.
PendingAntichain == Antichain(pending)

\* take_scope_bounded: claims are bounded and no grant has two, whatever was
\* abandoned by crashes and failed admissions; a helper that may still publish
\* owns a durable claim and the open refresh of its grant.
ClaimDiscipline ==
    /\ Cardinality(active) <= ActiveScans
    /\ \A p, q \in active : Grant[p] = Grant[q] => p = q
    /\ \A r \in Roots : reader[r] # None =>
        /\ reader[r].claimed \in active /\ Grant[reader[r].claimed] = r
        /\ marker[r] = reader[r].scope
        /\ r \in granted /\ r \in incomplete

\* Coverage is honest: where the index disagrees with the disk, either the
\* grant is marked incomplete, or a scope that will look there again is queued,
\* claimed or owed by the event source, or a cleanup has hidden the row.
WillLookAt(s, p) == p \in Footprint(Resolved(s), IsLockRefresh(s))
NothingMissed ==
    \A p \in Items :
        Grant[p] \in granted \ incomplete /\ tomb[p] = "none" /\ rows[p] # Truth(p) =>
            \/ historyLost
            \/ \E x \in unheard : WillLookAt(EventScope[x], p)
            \/ \E s \in pending \cup active : WillLookAt(s, p)

\* A storage-limited grant is also an incomplete one, until a full pass that
\* left nothing out ends (finish_scope_refresh, maintain_derived).
LimitedIsIncomplete == limited \subseteq incomplete

\* The index never outgrows its budget.
WithinBudget == RowCount <= MaxRows

\* What a complete grant shows may be relied on, as far as the event source, the
\* queue and the claims do not promise another look; what was left out for lack
\* of room is told (begin_scope_refresh, save_batch, finish_scope_refresh).
CoverageIsHonest == NothingMissed /\ LimitedIsIncomplete /\ WithinBudget

\* suppress_candidate and save_batch: a row hidden by a cleanup does not come
\* back while its tombstone stands.
HiddenStaysHidden == \A p \in Items : tomb[p] # "none" => rows[p] = None

\* "execute" hides a candidate before anything is removed, so the journal owes
\* its path another look until a refresh lifts the tombstone.
HiddenIsOwedALook ==
    \A p \in Items :
        tomb[p] # "none" /\ cleanup # "hidden" => Covered(pending \cup active, p)

\* A tombstone is lifted only together with the start of a new look at its
\* path, or with everything the index holds of its grant: never by what an older
\* helper still delivers, and never by the end of a pass.
LiftedByLaterLook ==
    \A p \in Items : tomb[p] # "none" /\ tomb'[p] = "none" =>
        LET r == Grant[p] IN
        \/ /\ reader[r] = None /\ reader'[r] # None
           /\ p \in Captured(reader'[r].scope, reader'[r].lock)
           /\ reader'[r].obs = [q \in Items |-> Unread]
        \/ /\ \A q \in Items : Grant[q] = r => rows'[q] = None
           /\ r \notin granted' \/ r \in pending'

\* Abandoned, failed, cancelled and partial passes prune nothing: a published
\* row goes only with a cleanup, an eviction that marks its grant, a change of
\* the grant or the rules, or a pass that read its whole scope to the end.
PrunedByCompletePass ==
    \A p \in Items : rows[p] # None /\ rows'[p] = None =>
        LET r == Grant[p] IN
        \/ tomb'[p] # "none"
        \/ r \notin granted'
        \/ r \in incomplete' /\ (r \in limited' \/ r \in pending')
        \/ /\ reader[r] # None /\ reader'[r] = None
           /\ p \in Captured(reader[r].scope, reader[r].lock)
           /\ ReadAll(reader[r]) /\ ~Reports(reader[r], p)

\* What the index shows, and what a cleanup has hidden, is decided only by a look
\* at the disk that began late enough and went far enough.
OnlyLooksDecide == [][PrunedByCompletePass /\ LiftedByLaterLook]_vars

\* store.rs:1738 "A new refresh of this location explicitly permits its next
\* observation": a complete pass within the budget leaves a row for whatever
\* it reported.
CompletePassShowsWhatItSaw ==
    [][\A r \in Roots :
        reader[r] # None /\ reader'[r] = None /\ ReadAll(reader[r])
            /\ r \notin incomplete' /\ r \in granted' =>
        \A p \in reader[r].sent : rows'[p] # None]_vars

\* take_scope_bounded: a queued scope is taken in the end, however many scopes
\* are queued after it, however often the worker fails, is cancelled or parked.
ScopesAreTaken == \A p \in Paths : p \in pending ~> p \notin pending

\* lib.rs:794 "Restart only durable unfinished work": a worker that is asked
\* for again and again takes up the claims another one abandoned.
AbandonedClaimsAreRetried ==
    \A p \in Paths :
        (p \in active /\ worker = "idle") ~> (p \notin active \/ worker # "idle")

=============================================================================
