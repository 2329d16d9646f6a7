----------------------- MODULE DiscoveryJournalProofs -----------------------
(* What holds of the discovery journal for every tree of paths, every budget *)
(* and every number of helpers: its types, its queue, its safety invariants, *)
(* what may take a row out of the index or lift a tombstone, and the budget  *)
(* of the index.  The last part proves that coverage is honest: what a       *)
(* complete grant shows is what is on disk, or a scope that will look again  *)
(* is owed, queued or claimed, as long as "execute" does not lapse.          *)
EXTENDS DiscoveryJournal, FiniteSetTheorems, TLAPS

-----------------------------------------------------------------------------
(* The queue                                                               *)

\* A batch adds only its own scopes.
LEMMA EnqueuedAllIn ==
    ASSUME NEW P \in SUBSET Paths, NEW S \in SUBSET Paths
    PROVE  EnqueuedAll(P, S) \in SUBSET Paths
  BY DEF EnqueuedAll, Tops

\* A batch loses nothing: what was queued and what is new stay covered.
LEMMA EnqueuedAllCovers ==
    ASSUME NEW P \in SUBSET Paths, NEW S \in SUBSET Paths, NEW p \in Paths,
           Covered(P, p) \/ Covered(S, p)
    PROVE  Covered(EnqueuedAll(P, S), p)
  <1> DEFINE new == {q \in Tops(S) : ~Covered(P, q)}
  <1>1. CASE Covered(P, p)
    <2>1. PICK q \in P : q \in Above[p]
      BY <1>1 DEF Covered
    <2>2. CASE q \in EnqueuedAll(P, S)
      BY <2>1, <2>2 DEF Covered
    <2>3. CASE q \notin EnqueuedAll(P, S)
      <3>1. PICK n \in new : n \in Above[q]
        BY <2>1, <2>3 DEF EnqueuedAll, Covered
      <3>2. n \in Above[p]
        BY <2>1, <3>1, PathsAssumption
      <3> QED
        BY <3>1, <3>2 DEF EnqueuedAll, Covered
    <2> QED
      BY <2>2, <2>3
  <1>2. CASE ~Covered(P, p) /\ Covered(S, p)
    <2> DEFINE over == S \cap Above[p]
    <2>1. over \in (SUBSET Above[p]) \ {{}}
      BY <1>2 DEF Covered
    <2> HIDE DEF over
    <2>2. PICK t \in over : \A q \in over : t \in Above[q]
      BY <2>1, PathsAssumption
    <2>3. t \in S \cap Above[p] /\ \A q \in S \cap Above[p] : t \in Above[q]
      BY <2>2 DEF over
    <2>4. ASSUME NEW q \in S, q \in Above[t]
          PROVE  q = t
      <3>1. q \in S \cap Above[p]
        BY <2>3, <2>4, PathsAssumption
      <3> QED
        BY <2>3, <2>4, <3>1, PathsAssumption
    <2>5. t \in Tops(S)
      BY <2>3, <2>4 DEF Tops
    <2>6. ~Covered(P, t)
      BY <1>2, <2>3, PathsAssumption DEF Covered
    <2> QED
      BY <2>3, <2>5, <2>6 DEF EnqueuedAll, Covered
  <1> QED
    BY <1>1, <1>2

\* A batch leaves no scope of the queue inside another.
LEMMA EnqueuedAllAntichain ==
    ASSUME NEW P \in SUBSET Paths, NEW S \in SUBSET Paths, Antichain(P)
    PROVE  Antichain(EnqueuedAll(P, S))
  <1> SUFFICES ASSUME NEW p \in EnqueuedAll(P, S), NEW q \in EnqueuedAll(P, S),
                      p \in Above[q]
               PROVE  p = q
    BY DEF Antichain
  <1> DEFINE new == {s \in Tops(S) : ~Covered(P, s)}
  <1>1. CASE p \in P /\ q \in P
    BY <1>1 DEF Antichain
  <1>2. CASE p \in new /\ q \in new
    BY <1>2 DEF Tops
  <1>3. CASE p \in P /\ q \in new
    BY <1>3 DEF Covered
  <1>4. CASE p \in new /\ q \in P \ new
    BY <1>4 DEF EnqueuedAll, Covered
  <1> QED
    BY <1>1, <1>2, <1>3, <1>4 DEF EnqueuedAll

\* The rowid order stays an order of the queue.
LEMMA QueueType ==
    ASSUME before \subseteq pending \X pending, NEW P \in SUBSET Paths, Queue(P)
    PROVE  pending' \subseteq Paths /\ before' \subseteq pending' \X pending'
  BY DEF Queue

-----------------------------------------------------------------------------
(* Types                                                                   *)

\* Widening a claim stays among its own ancestors.
LEMMA ResolvedAbove ==
    ASSUME NEW p \in Paths
    PROVE  Resolved(p) \in Above[p]
  <1> DEFINE S == IF p \in DOMAIN LockTarget THEN Above[p] \ {p} ELSE Above[p]
             indexed == NearestRow(S)
             from == IF indexed = {} THEN p ELSE CHOOSE q \in indexed : TRUE
  <1>1. indexed \subseteq Above[p]
    BY DEF NearestRow
  <1>2. from \in Above[p]
    BY <1>1, PathsAssumption
  <1>3. from \in Paths
    BY <1>2, PathsAssumption
  <1>4. Normal[from] \in Above[p]
    BY <1>2, <1>3, PathsAssumption, ScopeAssumption
  <1> QED
    BY <1>4 DEF Resolved

\* What a candidate encloses are candidates, so a measurement has its type.
LEMMA BelowItems ==
    ASSUME NEW p \in Items
    PROVE  Below(p) \subseteq Items
  BY PathsAssumption DEF Below, Items

LEMMA MeasureType ==
    ASSUME NEW p \in Items, NEW d \in [Items -> Versions \cup {Unread}],
           \A q \in Below(p) : d[q] # Unread
    PROVE  Measure(d, p) \in Measures
  <1>1. Measure(d, p) \in [Below(p) -> Versions]
    BY BelowItems DEF Measure
  <1> QED
    BY <1>1 DEF Measures

\* Recovery queues only paths, and leaves no claim.
LEMMA RecoveredType ==
    ASSUME TypeOK, NEW also \in SUBSET Roots, Recovered(also)
    PROVE  /\ pending' \subseteq Paths /\ before' \subseteq pending' \X pending'
           /\ incomplete' \subseteq Roots
           /\ active' \subseteq Paths
           /\ marker' \in [Roots -> Paths \cup {None}]
           /\ unseen' \in [Roots -> SUBSET Items]
           /\ omitted' \subseteq Roots
  <1>1. Owed \in SUBSET Paths
    BY DEF TypeOK, Owed
  <1>2. EnqueuedAll(pending, Owed) \in SUBSET Paths
    BY <1>1, EnqueuedAllIn DEF TypeOK
  <1>3. pending' \subseteq Paths /\ before' \subseteq pending' \X pending'
    BY <1>2, QueueType DEF Recovered, TypeOK
  <1>4. incomplete' \subseteq Roots
    BY <1>1, PathsAssumption DEF Recovered, TypeOK
  <1> QED
    BY <1>3, <1>4 DEF Recovered, NoClaims

\* A cleanup never loses its review.
ReviewHeld == cleanup # "none" => review # None

TypeInv == TypeOK /\ ReviewHeld

LEMMA TypeInit == Init => TypeInv
  BY DEF Init, TypeInv, TypeOK, ReviewHeld, Items, Versions

LEMMA TypeStep == TypeInv /\ [Next]_vars => TypeInv'
  <1> SUFFICES ASSUME TypeInv, [Next]_vars
               PROVE  TypeInv'
    OBVIOUS
  <1> USE DEF TypeInv, ReviewHeld, TypeOK, fsVars, queueVars, claimVars, indexVars, engineVars, cleanVars
  <1>1. ASSUME NEW p \in Items, NEW v \in Versions, Change(p, v)
        PROVE  TypeInv'
    BY <1>1 DEF Change, Items
  <1>2. CASE LoseHistory
    BY <1>2 DEF LoseHistory
  <1>3. ASSUME NEW r \in Roots, NEW S \in SUBSET Below(r), Receive(r, S)
        PROVE  TypeInv'
    <2>1. {EventScope[p] : p \in S} \in SUBSET Paths
      BY ScopeAssumption DEF Below
    <2>2. EnqueuedAll(pending, {EventScope[p] : p \in S}) \in SUBSET Paths
      BY <2>1, EnqueuedAllIn
    <2> QED
      BY <1>3, <2>2, QueueType DEF Receive
  <1>4. CASE ReconcileEvents
    <2>1. EnqueuedAll(pending, granted) \in SUBSET Paths
      BY EnqueuedAllIn, PathsAssumption
    <2> QED
      BY <1>4, <2>1, QueueType DEF ReconcileEvents
  <1>5. ASSUME NEW r \in Roots, RequestScan(r)
        PROVE  TypeInv'
    <2>1. EnqueuedAll(pending, {r}) \in SUBSET Paths
      BY EnqueuedAllIn, PathsAssumption
    <2> QED
      BY <1>5, <2>1, QueueType DEF RequestScan
  <1>6. ASSUME NEW r \in Roots, Authorize(r)
        PROVE  TypeInv'
    BY <1>6 DEF Authorize, Idle
  <1>7. ASSUME NEW r \in Roots, Reauthorize(r)
        PROVE  TypeInv'
    <2>1. (pending \ Below(r)) \cup {r} \in SUBSET Paths
      BY PathsAssumption
    <2>2. pending' \subseteq Paths /\ before' \subseteq pending' \X pending'
      BY <1>7, <2>1, QueueType DEF Reauthorize
    <2> QED
      BY <1>7, <2>2 DEF Reauthorize, Forgotten, Idle
  <1>8. ASSUME NEW r \in Roots, Forget(r)
        PROVE  TypeInv'
    <2>1. pending' \subseteq Paths /\ before' \subseteq pending' \X pending'
      BY <1>8, QueueType DEF Forget
    <2> QED
      BY <1>8, <2>1 DEF Forget, Forgotten, Idle
  <1>9. CASE Launch
    <2>1. {} \in SUBSET Roots
      OBVIOUS
    <2> QED
      BY <1>9, <2>1, RecoveredType DEF Launch
  <1>10. ASSUME NEW p \in Paths, Claim(p)
         PROVE  TypeInv'
    <2>1. pending' \subseteq Paths /\ before' \subseteq pending' \X pending'
      BY <1>10, QueueType DEF Claim
    <2> QED
      BY <1>10, <2>1 DEF Claim
  <1>11. CASE BeginRefresh
    <2> DEFINE p == admitting
               r == Grant[p]
               scope == Resolved(p)
               lock == IsLockRefresh(p)
    <2>1. p \in Paths
      BY <1>11 DEF BeginRefresh
    <2>2. r \in Roots /\ scope \in Paths /\ lock \in BOOLEAN
      BY <2>1, ResolvedAbove, PathsAssumption DEF IsLockRefresh
    <2>3. pending' \subseteq Paths /\ before' \subseteq pending' \X pending'
      BY <1>11, QueueType DEF BeginRefresh
    <2>4. reader' \in [Roots -> {None} \cup Tickets]
      BY <1>11, <2>1, <2>2 DEF BeginRefresh, Tickets
    <2>5. tomb' \in [Items -> {"none", Unlocated, "located"}]
      BY <1>11 DEF BeginRefresh, Lifted
    <2> HIDE DEF p, r, scope, lock
    <2>6. marker' \in [Roots -> Paths \cup {None}] /\ unseen' \in [Roots -> SUBSET Items]
      BY <1>11, <2>2 DEF BeginRefresh, p, r, scope, lock
    <2> QED
      BY <1>11, <2>2, <2>3, <2>4, <2>5, <2>6 DEF BeginRefresh, p, r
  <1>12. CASE AdmissionFails
    BY <1>12 DEF AdmissionFails
  <1>13. ASSUME NEW r \in Roots, NEW p \in Items, Read(r, p)
         PROVE  TypeInv'
    BY <1>13 DEF Read, Tickets
  <1>14. ASSUME NEW r \in Roots, NEW p \in Items, SaveProvisional(r, p)
         PROVE  TypeInv'
    BY <1>14 DEF SaveProvisional, MarkSeen, Located
  <1>15. ASSUME NEW r \in Roots, NEW p \in Items, SaveRow(r, p)
         PROVE  TypeInv'
    <2>1. reader[r] \in Tickets /\ \A q \in Below(p) : reader[r].obs[q] # Unread
      BY <1>15 DEF SaveRow, MayPublish, Reports
    <2>2. Measure(reader[r].obs, p) \in Measures
      BY <2>1, MeasureType DEF Tickets
    <2>3. rows' \in [Items -> Measures \cup {None}]
      BY <1>15, <2>2 DEF SaveRow, Published
    <2>4. reader' \in [Roots -> {None} \cup Tickets]
      BY <1>15, <2>1 DEF SaveRow, Tickets
    <2> QED
      <3>1. tomb' \in [Items -> {"none", Unlocated, "located"}]
        BY <1>15 DEF SaveRow, Located
      <3>2. unseen' \in [Roots -> SUBSET Items]
        BY <1>15 DEF SaveRow, MarkSeen
      <3>3. /\ omitted' \subseteq Roots /\ limited' \subseteq Roots
            /\ incomplete' \subseteq Roots /\ pressed' \in BOOLEAN
        BY <1>15 DEF SaveRow
      <3> QED
        BY <1>15, <2>3, <2>4, <3>1, <3>2, <3>3 DEF SaveRow
  <1>16. ASSUME NEW r \in Roots, NEW complete \in BOOLEAN, NEW requeue \in BOOLEAN,
                MayPublish(r), Settle(r, complete, requeue),
                worker' \in {worker, "stopping"}
         PROVE  TypeInv'
    <2>1. reader[r] \in Tickets
      BY <1>16 DEF MayPublish
    <2>2. EnqueuedAll(pending, {reader[r].claimed}) \in SUBSET Paths
      BY <2>1, EnqueuedAllIn DEF Tickets
    <2>3. pending' \subseteq Paths /\ before' \subseteq pending' \X pending'
      BY <1>16, <2>2, QueueType DEF Settle, SettledQueue
    <2> QED
      BY <1>16, <2>3 DEF Settle, Pruned, IncompleteAfter, LimitedAfter
  <1>17. CASE RetireAll /\ UNCHANGED <<fsVars, granted, indexVars, admitting, cleanVars>>
              /\ worker' \in {"idle", worker}
    <2> DEFINE claims == {reader[r].claimed : r \in {q \in Roots : reader[q] # None}}
    <2>1. claims \in SUBSET Paths
      BY DEF Tickets
    <2>2. EnqueuedAll(pending, claims) \in SUBSET Paths
      BY <2>1, EnqueuedAllIn
    <2>3. pending' \subseteq Paths /\ before' \subseteq pending' \X pending'
      BY <1>17, <2>2, QueueType DEF RetireAll
    <2> QED
      BY <1>17, <2>3 DEF RetireAll
  <1>18. CASE WorkerDone
    <2>1. {} \in SUBSET Roots
      OBVIOUS
    <2> QED
      BY <1>18, <2>1, RecoveredType DEF WorkerDone
  <1>19. CASE WorkerFails
    <2>1. {} \in SUBSET Roots
      OBVIOUS
    <2> QED
      BY <1>19, <2>1, RecoveredType DEF WorkerFails
  <1>20. CASE MaintainDerived
    BY <1>20 DEF MaintainDerived
  <1>21. ASSUME NEW p \in Items, Prepare(p)
         PROVE  TypeInv'
    BY <1>21 DEF Prepare
  <1>22. CASE ReviewExpires \/ BeginCleanup
    BY <1>22 DEF ReviewExpires, BeginCleanup
  <1>23. CASE Suppress
    BY <1>23 DEF Suppress
  <1>24. CASE QueueCleaned
    <2>1. EnqueuedAll(pending, {review}) \in SUBSET Paths
      BY <1>24, EnqueuedAllIn DEF QueueCleaned, Items
    <2> QED
      BY <1>24, <2>1, QueueType DEF QueueCleaned
  <1>25. CASE EndCleanup
    BY <1>25 DEF EndCleanup
  <1>26. ASSUME NEW upgraded \in BOOLEAN, Restart(upgraded)
         PROVE  TypeInv'
    <2>1. CASE upgraded
      <3>1. /\ marker' \in [Roots -> Paths \cup {None}]
            /\ unseen' \in [Roots -> SUBSET Items]
            /\ rows' \in [Items -> Measures \cup {None}]
            /\ reader' \in [Roots -> {None} \cup Tickets]
        BY <1>26, <2>1 DEF Restart, NoClaims
      <3>2. pending' \subseteq Paths /\ before' = {} /\ incomplete' \subseteq Roots
        BY <1>26, <2>1, PathsAssumption DEF Restart
      <3> QED
        BY <1>26, <2>1, <3>1, <3>2 DEF Restart, NoClaims
    <2>2. CASE ~upgraded
      <3>1. PICK out \in SUBSET Items, touched \in SUBSET Roots, still \in BOOLEAN :
              /\ Recovered(touched)
              /\ rows' = [p \in Items |-> IF p \in out THEN None ELSE rows[p]]
              /\ limited' = limited \cup touched
              /\ pressed' = still
        BY <1>26, <2>2 DEF Restart
      <3> QED
        BY <1>26, <3>1, RecoveredType DEF Restart
    <2> QED
      BY <2>1, <2>2
  <1>27. CASE UNCHANGED vars
    BY <1>27 DEF vars
  <1>28. CASE Environment
    BY <1>1, <1>2, <1>28 DEF Environment
  <1>29. CASE Requests
    BY <1>3, <1>4, <1>5, <1>6, <1>7, <1>8, <1>29 DEF Requests
  <1>30. ASSUME NEW r \in Roots, FinishComplete(r) \/ FinishPartial(r) \/ HelperFails(r)
         PROVE  TypeInv'
    BY <1>16, <1>30 DEF FinishComplete, FinishPartial, HelperFails
  <1>31. CASE Park \/ Cancel
    BY <1>17, <1>31 DEF Park, Cancel
  <1>32. CASE Coordinator
    BY <1>9, <1>10, <1>11, <1>12, <1>13, <1>14, <1>15, <1>18, <1>19, <1>20, <1>30,
       <1>31, <1>32 DEF Coordinator
  <1>33. CASE Cleanup
    BY <1>21, <1>22, <1>23, <1>24, <1>25, <1>33 DEF Cleanup
  <1> QED
    BY <1>26, <1>27, <1>28, <1>29, <1>32, <1>33 DEF Next

LEMMA TypeInvariant == Spec => []TypeInv
  <1>1. Init => TypeInv
    BY TypeInit
  <1>2. TypeInv /\ [Next]_vars => TypeInv'
    BY TypeStep
  <1> QED
    BY <1>1, <1>2, PTL DEF Spec

\* Every variable keeps its type, for every tree of paths.
THEOREM TypeCorrect == Spec => []TypeOK
  <1>1. TypeInv => TypeOK
    BY DEF TypeInv
  <1> QED
    BY <1>1, TypeInvariant, PTL

-----------------------------------------------------------------------------
(* No scope of the queue is inside another                                 *)

LEMMA AntichainStep == TypeInv /\ PendingAntichain /\ [Next]_vars => PendingAntichain'
  <1> SUFFICES ASSUME TypeInv, Antichain(pending), [Next]_vars
               PROVE  Antichain(pending')
    BY DEF PendingAntichain, Antichain
  <1> USE DEF TypeInv, ReviewHeld, TypeOK
  <1>1. ASSUME NEW S \in SUBSET Paths, pending' = EnqueuedAll(pending, S)
        PROVE  Antichain(pending')
    BY <1>1, EnqueuedAllAntichain
  <1>2. ASSUME pending' \subseteq pending
        PROVE  Antichain(pending')
    BY <1>2 DEF Antichain
  <1>3. ASSUME NEW r \in Roots, pending' = (pending \ Below(r)) \cup {r}
        PROVE  Antichain(pending')
    BY <1>3, PathsAssumption DEF Antichain, Below
  <1>4. ASSUME NEW also, Recovered(also)
        PROVE  Antichain(pending')
    <2>1. Owed \in SUBSET Paths
      BY DEF Owed
    <2>2. Antichain(EnqueuedAll(pending, Owed))
      BY <2>1, EnqueuedAllAntichain
    <2> QED
      BY <1>4, <2>2 DEF Recovered, Queue, Antichain
  <1>5. ASSUME NEW r \in Roots, NEW complete, NEW requeue, MayPublish(r),
               Settle(r, complete, requeue)
        PROVE  Antichain(pending')
    <2>1. {reader[r].claimed} \in SUBSET Paths
      BY <1>5 DEF MayPublish, Tickets
    <2> QED
      BY <1>1, <1>2, <1>5, <2>1 DEF Settle, SettledQueue, Queue
  <1>6. CASE Environment
    BY <1>2, <1>6 DEF Environment, Change, LoseHistory, queueVars
  <1>7. CASE Requests
    <2>1. ASSUME NEW r \in Roots, NEW S \in SUBSET Below(r), Receive(r, S)
          PROVE  Antichain(pending')
      <3>1. {EventScope[p] : p \in S} \in SUBSET Paths
        BY ScopeAssumption DEF Below
      <3> QED
        BY <1>1, <2>1, <3>1 DEF Receive, Queue
    <2>2. CASE ReconcileEvents
      BY <1>1, <2>2, PathsAssumption DEF ReconcileEvents, Queue
    <2>3. ASSUME NEW r \in Roots, RequestScan(r)
          PROVE  Antichain(pending')
      <3>1. {r} \in SUBSET Paths
        BY PathsAssumption
      <3> QED
        BY <1>1, <2>3, <3>1 DEF RequestScan, Queue
    <2>4. ASSUME NEW r \in Roots, Authorize(r) \/ Reauthorize(r) \/ Forget(r)
          PROVE  Antichain(pending')
      BY <1>2, <1>3, <2>4 DEF Authorize, Reauthorize, Forget, Queue, queueVars
    <2> QED
      BY <1>7, <2>1, <2>2, <2>3, <2>4 DEF Requests
  <1>8. CASE Coordinator
    <2>1. CASE Launch \/ WorkerDone \/ WorkerFails
      BY <1>2, <1>4, <2>1 DEF Launch, WorkerDone, WorkerFails, queueVars
    <2>2. ASSUME NEW p \in Paths, Claim(p)
          PROVE  Antichain(pending')
      BY <1>2, <2>2 DEF Claim, Queue
    <2>3. CASE BeginRefresh
      BY <1>2, <2>3 DEF BeginRefresh, Queue
    <2>4. CASE AdmissionFails \/ MaintainDerived
      BY <1>2, <2>4 DEF AdmissionFails, MaintainDerived, queueVars
    <2>5. ASSUME NEW r \in Roots, NEW p \in Items,
                 Read(r, p) \/ SaveProvisional(r, p) \/ SaveRow(r, p)
          PROVE  Antichain(pending')
      BY <1>2, <2>5 DEF Read, SaveProvisional, SaveRow, queueVars
    <2>6. ASSUME NEW r \in Roots, FinishComplete(r) \/ FinishPartial(r) \/ HelperFails(r)
          PROVE  Antichain(pending')
      BY <1>5, <2>6 DEF FinishComplete, FinishPartial, HelperFails
    <2>7. CASE Park \/ Cancel
      <3>1. {reader[r].claimed : r \in {q \in Roots : reader[q] # None}} \in SUBSET Paths
        BY DEF Tickets
      <3> QED
        BY <1>1, <2>7, <3>1 DEF Park, Cancel, RetireAll, Queue
    <2> QED
      BY <1>8, <2>1, <2>2, <2>3, <2>4, <2>5, <2>6, <2>7 DEF Coordinator
  <1>9. CASE Cleanup
    <2>1. CASE QueueCleaned
      <3>1. {review} \in SUBSET Paths
        BY <2>1 DEF QueueCleaned, Items
      <3> QED
        BY <1>1, <2>1, <3>1 DEF QueueCleaned, Queue
    <2> QED
      BY <1>2, <1>9, <2>1
         DEF Cleanup, Prepare, ReviewExpires, BeginCleanup, Suppress, EndCleanup, queueVars
  <1>10. ASSUME NEW upgraded \in BOOLEAN, Restart(upgraded)
         PROVE  Antichain(pending')
    <2>1. Antichain(granted)
      BY PathsAssumption DEF Antichain
    <2> QED
      BY <1>4, <1>10, <2>1 DEF Restart
  <1>11. CASE UNCHANGED vars
    BY <1>2, <1>11 DEF vars, queueVars
  <1> QED
    BY <1>6, <1>7, <1>8, <1>9, <1>10, <1>11 DEF Next

\* Through batches, requeues, recovery and rule upgrades no scope of the queue
\* is inside another, so no subtree is queued twice (enqueue_validated_scope_in).
THEOREM QueueIsAntichain == Spec => []PendingAntichain
  <1>1. Init => PendingAntichain
    BY DEF Init, PendingAntichain, Antichain
  <1>2. TypeInv /\ PendingAntichain /\ [Next]_vars => PendingAntichain'
    BY AntichainStep
  <1> QED
    BY <1>1, <1>2, TypeInvariant, PTL DEF Spec

-----------------------------------------------------------------------------
(* A row hidden by a cleanup stays hidden                                  *)

LEMMA HiddenStep == TypeInv /\ HiddenStaysHidden /\ [Next]_vars => HiddenStaysHidden'
  <1> SUFFICES ASSUME TypeInv, HiddenStaysHidden, [Next]_vars
               PROVE  HiddenStaysHidden'
    OBVIOUS
  <1> USE DEF TypeInv, ReviewHeld, TypeOK, HiddenStaysHidden
  <1>1. ASSUME UNCHANGED <<rows, tomb>>
        PROVE  HiddenStaysHidden'
    BY <1>1
  <1>2. CASE Environment
    BY <1>1, <1>2 DEF Environment, Change, LoseHistory, indexVars
  <1>3. CASE Requests
    <2>1. ASSUME NEW r \in Roots, Reauthorize(r) \/ Forget(r)
          PROVE  HiddenStaysHidden'
      BY <2>1 DEF Reauthorize, Forget, Forgotten
    <2> QED
      BY <1>1, <1>3, <2>1 DEF Requests, Receive, ReconcileEvents, RequestScan, Authorize,
         indexVars
  <1>4. CASE Coordinator
    <2>1. CASE BeginRefresh
      BY <2>1 DEF BeginRefresh, Lifted
    <2>2. ASSUME NEW r \in Roots, NEW p \in Items, SaveProvisional(r, p)
          PROVE  HiddenStaysHidden'
      <3>1. rows' = rows /\ tomb' = Located(p)
        BY <2>2 DEF SaveProvisional
      <3> QED
        BY <3>1 DEF Located, Unlocated
    <2>3. ASSUME NEW r \in Roots, NEW p \in Items, SaveRow(r, p)
          PROVE  HiddenStaysHidden'
      <3>1. tomb' = Located(p)
        BY <2>3 DEF SaveRow
      <3>2. rows' = rows \/ rows' = Published(p, Measure(reader[r].obs, p))
        BY <2>3 DEF SaveRow
      <3> QED
        BY <3>1, <3>2 DEF Located, Published, Unlocated
    <2>4. ASSUME NEW r \in Roots, FinishComplete(r) \/ FinishPartial(r) \/ HelperFails(r)
          PROVE  HiddenStaysHidden'
      BY <2>4 DEF FinishComplete, FinishPartial, HelperFails, Settle, Pruned
    <2>5. CASE MaintainDerived
      BY <2>5 DEF MaintainDerived
    <2> QED
      BY <1>1, <1>4, <2>1, <2>2, <2>3, <2>4, <2>5
         DEF Coordinator, Launch, Claim, AdmissionFails, Read, Park, Cancel, WorkerDone,
             WorkerFails, indexVars
  <1>5. CASE Cleanup
    <2>1. CASE Suppress
      <3>1. review \in Items
        BY <2>1 DEF Suppress
      <3>2. ASSUME NEW p \in Items, tomb'[p] # "none", p # review
            PROVE  rows'[p] = None
        BY <2>1, <3>2 DEF Suppress
      <3> QED
        BY <2>1, <3>1, <3>2 DEF Suppress
    <2> QED
      BY <1>1, <1>5, <2>1
         DEF Cleanup, Prepare, ReviewExpires, BeginCleanup, QueueCleaned, EndCleanup, indexVars
  <1>6. ASSUME NEW upgraded \in BOOLEAN, Restart(upgraded)
        PROVE  HiddenStaysHidden'
    BY <1>6 DEF Restart
  <1>7. CASE UNCHANGED vars
    BY <1>1, <1>7 DEF vars, indexVars
  <1> QED
    BY <1>2, <1>3, <1>4, <1>5, <1>6, <1>7 DEF Next

\* A candidate hidden by a cleanup (suppress_candidate) is not published again
\* by any batch, from whatever helper, while its tombstone stands.
THEOREM HiddenRowsStayHidden == Spec => []HiddenStaysHidden
  <1>1. Init => HiddenStaysHidden
    BY DEF Init, HiddenStaysHidden
  <1>2. TypeInv /\ HiddenStaysHidden /\ [Next]_vars => HiddenStaysHidden'
    BY HiddenStep
  <1> QED
    BY <1>1, <1>2, TypeInvariant, PTL DEF Spec

-----------------------------------------------------------------------------
(* A storage-limited grant is an incomplete one                            *)

\* A helper, or an admission, belongs to a worker.
WorkerOwnsReaders ==
    /\ \A r \in Roots : reader[r] # None => worker # "idle"
    /\ admitting # None => worker # "idle"

\* A grant that was complete when its refresh opened is limited only by what
\* that refresh left out: this is why a scope that completes may clear the
\* incomplete mark without looking at the limited one.
LimitedByThisPass ==
    \A r \in Roots :
        reader[r] # None /\ ~reader[r].was /\ r \notin omitted => r \notin limited

LimitInv == LimitedIsIncomplete /\ WorkerOwnsReaders /\ LimitedByThisPass

LEMMA LimitStep == TypeInv /\ LimitInv /\ [Next]_vars => LimitInv'
  <1> SUFFICES ASSUME TypeInv, LimitInv, [Next]_vars
               PROVE  LimitInv'
    OBVIOUS
  <1> USE DEF TypeInv, ReviewHeld, TypeOK, LimitInv, LimitedIsIncomplete,
              WorkerOwnsReaders, LimitedByThisPass
  <1>1. ASSUME UNCHANGED <<incomplete, limited, omitted, reader, admitting, worker>>
        PROVE  LimitInv'
    BY <1>1
  <1>2. CASE Environment
    BY <1>1, <1>2 DEF Environment, Change, LoseHistory, indexVars, claimVars, engineVars
  <1>3. CASE Requests
    <2>1. ASSUME NEW r \in Roots, Authorize(r)
          PROVE  LimitInv'
      BY <2>1 DEF Authorize, Idle, engineVars, claimVars
    <2>2. ASSUME NEW r \in Roots, Reauthorize(r) \/ Forget(r)
          PROVE  LimitInv'
      BY <2>2 DEF Reauthorize, Forget, Forgotten, Idle, engineVars
    <2> QED
      BY <1>1, <1>3, <2>1, <2>2
         DEF Requests, Receive, ReconcileEvents, RequestScan, indexVars, claimVars, engineVars
  <1>4. CASE Coordinator
    <2>1. CASE Launch
      BY <2>1 DEF Launch, Idle, Recovered, NoClaims
    <2>2. ASSUME NEW p \in Paths, Claim(p)
          PROVE  LimitInv'
      BY <2>2 DEF Claim, indexVars
    <2>3. CASE BeginRefresh
      <3> DEFINE q == Grant[admitting]
      <3>1. q \in Roots
        BY <2>3, PathsAssumption DEF BeginRefresh
      <3>2. /\ incomplete' = incomplete \cup {q}
            /\ UNCHANGED <<limited, omitted, worker>> /\ admitting' = None
            /\ \A r \in Roots : r # q => reader'[r] = reader[r]
            /\ reader'[q].was = (q \in incomplete)
        BY <2>3, <3>1 DEF BeginRefresh
      <3> HIDE DEF q
      <3>3. worker # "idle"
        BY <2>3 DEF BeginRefresh
      <3> QED
        BY <3>1, <3>2, <3>3
    <2>4. CASE AdmissionFails
      BY <2>4 DEF AdmissionFails, indexVars, claimVars
    <2>5. ASSUME NEW r \in Roots, NEW p \in Items, Read(r, p)
          PROVE  LimitInv'
      <3>1. \A s \in Roots : /\ reader'[s] # None => reader[s] # None
                             /\ reader[s] # None => reader'[s].was = reader[s].was
        BY <2>5 DEF Read, Tickets
      <3> QED
        BY <2>5, <3>1 DEF Read, indexVars, claimVars
    <2>6. ASSUME NEW r \in Roots, NEW p \in Items, SaveProvisional(r, p)
          PROVE  LimitInv'
      BY <1>1, <2>6 DEF SaveProvisional, engineVars
    <2>7. ASSUME NEW r \in Roots, NEW p \in Items, SaveRow(r, p)
          PROVE  LimitInv'
      <3>1. \A s \in Roots : /\ reader'[s] # None => reader[s] # None
                             /\ reader[s] # None => reader'[s].was = reader[s].was
        BY <2>7 DEF SaveRow, MayPublish, Tickets
      <3>2. \/ UNCHANGED <<omitted, incomplete, limited>>
            \/ /\ omitted' = omitted \cup {r} /\ limited' = limited \cup {r}
               /\ incomplete' = incomplete \cup {r}
        BY <2>7 DEF SaveRow
      <3>3. UNCHANGED <<admitting, worker>>
        BY <2>7 DEF SaveRow
      <3> QED
        BY <3>1, <3>2, <3>3
    <2>8. ASSUME NEW r \in Roots, NEW complete \in BOOLEAN, NEW requeue \in BOOLEAN,
                 MayPublish(r), Settle(r, complete, requeue),
                 worker' \in {worker, "stopping"}
          PROVE  LimitInv'
      <3>1. \A s \in Roots : reader'[s] = IF s = r THEN None ELSE reader[s]
        BY <2>8 DEF Settle
      <3>2. reader[r] # None /\ admitting' = admitting /\ omitted' = omitted \ {r}
        BY <2>8 DEF Settle, MayPublish
      <3>3. LET whole == complete /\ r \notin omitted IN
            incomplete' = IncompleteAfter(r, whole) /\ limited' = LimitedAfter(r, whole)
        BY <2>8 DEF Settle
      <3>4. limited' \subseteq incomplete'
        BY <3>2, <3>3 DEF IncompleteAfter, LimitedAfter
      <3>5. limited' \subseteq limited
        BY <3>3 DEF LimitedAfter
      <3> QED
        BY <2>8, <3>1, <3>2, <3>4, <3>5
    <2>9. ASSUME NEW r \in Roots, FinishComplete(r) \/ FinishPartial(r) \/ HelperFails(r)
          PROVE  LimitInv'
      BY <2>8, <2>9 DEF FinishComplete, FinishPartial, HelperFails
    <2>10. CASE Park \/ Cancel
      BY <2>10 DEF Park, Cancel, RetireAll, StoreFree, indexVars
    <2>11. CASE WorkerDone
      BY <2>11 DEF WorkerDone, NoReaders, StoreFree, Recovered, NoClaims, claimVars
    <2>12. CASE WorkerFails
      BY <2>12 DEF WorkerFails, StoreFree, Recovered, NoClaims, claimVars
    <2>13. CASE MaintainDerived
      BY <2>13 DEF MaintainDerived, Idle, StoreFree, claimVars, engineVars
    <2> QED
      BY <1>4, <2>1, <2>2, <2>3, <2>4, <2>5, <2>6, <2>7, <2>9, <2>10, <2>11, <2>12, <2>13
         DEF Coordinator
  <1>5. CASE Cleanup
    BY <1>1, <1>5
       DEF Cleanup, Prepare, ReviewExpires, BeginCleanup, Suppress, QueueCleaned, EndCleanup,
           indexVars, claimVars, engineVars
  <1>6. ASSUME NEW upgraded \in BOOLEAN, Restart(upgraded)
        PROVE  LimitInv'
    BY <1>6 DEF Restart, Recovered, NoClaims
  <1>7. CASE UNCHANGED vars
    BY <1>1, <1>7 DEF vars, indexVars, claimVars, engineVars
  <1> QED
    BY <1>2, <1>3, <1>4, <1>5, <1>6, <1>7 DEF Next

LEMMA LimitInvariant == Spec => []LimitInv
  <1>1. Init => LimitInv
    BY DEF Init, LimitInv, LimitedIsIncomplete, WorkerOwnsReaders, LimitedByThisPass
  <1>2. TypeInv /\ LimitInv /\ [Next]_vars => LimitInv'
    BY LimitStep
  <1> QED
    BY <1>1, <1>2, TypeInvariant, PTL DEF Spec

\* A grant whose rows were left out for lack of room is never shown as covered:
\* only a full pass that left nothing out clears both marks (finish_scope_refresh).
THEOREM LimitedGrantsAreIncomplete == Spec => []LimitedIsIncomplete
  <1>1. LimitInv => LimitedIsIncomplete
    BY DEF LimitInv
  <1> QED
    BY <1>1, LimitInvariant, PTL

-----------------------------------------------------------------------------
(* Claims and the helpers that own them                                    *)

\* Queued and claimed scopes belong to granted folders.
ScopesAreGranted == \A p \in pending \cup active : Grant[p] \in granted

\* A scope under admission is claimed, and its grant has no helper.
AdmissionOwnsClaim ==
    admitting # None => admitting \in active /\ reader[Grant[admitting]] = None

ClaimsAreBounded == IsFiniteSet(active) /\ Cardinality(active) <= ActiveScans
OneClaimPerGrant == \A p, q \in active : Grant[p] = Grant[q] => p = q
ReaderOwnsClaim ==
    \A r \in Roots : reader[r] # None =>
        /\ reader[r].claimed \in active /\ Grant[reader[r].claimed] = r
        /\ marker[r] = reader[r].scope
        /\ r \in granted /\ r \in incomplete

\* A helper looks at its claim or above it; a lock refresh has a target.
ReaderLooksAtClaim ==
    \A r \in Roots : reader[r] # None =>
        /\ reader[r].scope \in Above[reader[r].claimed]
        /\ reader[r].lock => reader[r].scope \in DOMAIN LockTarget

\* Published and reviewed candidates belong to granted folders.
RowsAreGranted ==
    /\ \A p \in Items : rows[p] # None => Grant[p] \in granted
    /\ review # None => Grant[review] \in granted

ClaimInv ==
    /\ ReaderLooksAtClaim /\ RowsAreGranted
    /\ ScopesAreGranted /\ AdmissionOwnsClaim
    /\ ClaimsAreBounded /\ OneClaimPerGrant /\ ReaderOwnsClaim

\* Dropping claims keeps their bound.
LEMMA FewerClaims ==
    ASSUME ClaimsAreBounded, BoundAssumption, active' \subseteq active
    PROVE  ClaimsAreBounded'
  <1>1. IsFiniteSet(active') /\ Cardinality(active') <= Cardinality(active)
    BY FS_Subset DEF ClaimsAreBounded
  <1>2. Cardinality(active') \in Nat /\ Cardinality(active) \in Nat
    BY <1>1, FS_CardinalityType DEF ClaimsAreBounded
  <1> QED
    BY <1>1, <1>2 DEF ClaimsAreBounded, BoundAssumption

LEMMA NoMoreClaims ==
    ASSUME BoundAssumption, active' = {}
    PROVE  ClaimsAreBounded'
  BY FS_EmptySet DEF ClaimsAreBounded, BoundAssumption

\* A batch of granted scopes keeps the queue within the grants.
LEMMA EnqueuedGranted ==
    ASSUME NEW P, NEW S, \A p \in P \cup S : Grant[p] \in granted
    PROVE  \A p \in EnqueuedAll(P, S) : Grant[p] \in granted
  BY DEF EnqueuedAll, Tops

\* A helper reports only candidates of its own grant.
LEMMA FootGrant ==
    ASSUME TypeOK, ReaderOwnsClaim, ReaderLooksAtClaim,
           NEW r \in Roots, reader[r] # None, NEW p \in Items, InReadScope(reader[r], p)
    PROVE  Grant[p] = r
  <1> DEFINE rd == reader[r]
  <1>1. rd \in Tickets
    BY DEF TypeOK
  <1>2. rd.claimed \in Paths /\ rd.scope \in Paths
    BY <1>1 DEF Tickets
  <1>3. Grant[rd.scope] = r
    BY <1>2, PathsAssumption DEF ReaderOwnsClaim, ReaderLooksAtClaim
  <1>4. CASE rd.lock
    BY <1>2, <1>3, <1>4, ScopeAssumption DEF InReadScope, ReaderLooksAtClaim
  <1>5. CASE ~rd.lock
    <2>1. p \in Below(rd.scope)
      BY <1>5 DEF InReadScope, Foot, Footprint
    <2> QED
      BY <1>2, <1>3, <2>1, PathsAssumption DEF Below
  <1> QED
    BY <1>4, <1>5

LEMMA ClaimStep == TypeInv /\ LimitInv /\ ClaimInv /\ [Next]_vars => ClaimInv'
  <1> SUFFICES ASSUME TypeInv, LimitInv, ClaimInv, [Next]_vars
               PROVE  ClaimInv'
    OBVIOUS
  <1> USE BoundAssumption DEF TypeInv, ReviewHeld, TypeOK, LimitInv, WorkerOwnsReaders,
              ClaimInv, ScopesAreGranted, AdmissionOwnsClaim, OneClaimPerGrant, ReaderOwnsClaim,
              ReaderLooksAtClaim, RowsAreGranted
    <1>1. ASSUME UNCHANGED <<active, marker, incomplete, granted, reader, admitting>>,
               \A q \in Items : rows'[q] # None => rows[q] # None,
               review' \in {review, None},
               \A p \in pending' : Grant[p] \in granted
        PROVE  ClaimInv'
    BY <1>1 DEF ClaimsAreBounded
  <1>2. CASE Environment
    BY <1>1, <1>2
       DEF Environment, Change, LoseHistory, indexVars, claimVars, engineVars, queueVars,
           cleanVars
  <1>3. CASE Requests
    <2>1. ASSUME NEW r \in Roots, NEW S \in SUBSET Below(r), Receive(r, S)
          PROVE  ClaimInv'
      <3>1. \A p \in S : EventScope[p] \in Paths /\ Grant[EventScope[p]] = r
        BY PathsAssumption, ScopeAssumption DEF Below
      <3>2. \A p \in {EventScope[q] : q \in S} : Grant[p] \in granted
        BY <2>1, <3>1 DEF Receive
      <3>3. \A p \in pending' : Grant[p] \in granted
        BY <2>1, <3>2, EnqueuedGranted DEF Receive, Queue
      <3> QED
        BY <1>1, <2>1, <3>3 DEF Receive, claimVars, cleanVars, indexVars, engineVars
    <2>2. CASE ReconcileEvents
      <3>1. \A p \in granted : Grant[p] \in granted
        BY PathsAssumption
      <3>2. \A p \in pending' : Grant[p] \in granted
        BY <2>2, <3>1, EnqueuedGranted DEF ReconcileEvents, Queue
      <3> QED
        BY <1>1, <2>2, <3>2 DEF ReconcileEvents, claimVars, cleanVars, indexVars, engineVars
    <2>3. ASSUME NEW r \in Roots, RequestScan(r)
          PROVE  ClaimInv'
      <3>1. \A p \in {r} : Grant[p] \in granted
        BY <2>3, PathsAssumption DEF RequestScan
      <3>2. \A p \in pending' : Grant[p] \in granted
        BY <2>3, <3>1, EnqueuedGranted DEF RequestScan, Queue
      <3> QED
        BY <1>1, <2>3, <3>2 DEF RequestScan, claimVars, cleanVars, indexVars, engineVars
    <2>4. ASSUME NEW r \in Roots, Authorize(r)
          PROVE  ClaimInv'
      BY <2>4 DEF Authorize, Idle, StoreFree, claimVars, queueVars, engineVars,
         ClaimsAreBounded
    <2>5. ASSUME NEW r \in Roots, Reauthorize(r) \/ Forget(r)
          PROVE  ClaimInv'
      <3>1. /\ \A s \in Roots : reader'[s] = None
            /\ admitting' = None
            /\ active' = active \ Below(r)
            /\ review' = None
            /\ \A p \in Items : rows'[p] # None => rows[p] # None /\ Grant[p] # r
            /\ granted \ {r} \subseteq granted'
        BY <2>5 DEF Reauthorize, Forget, Forgotten, Idle, StoreFree, engineVars
      <3>2. ClaimsAreBounded'
        BY <3>1, FewerClaims
      <3>3. \A p \in pending' \cup active' : Grant[p] \in granted'
        <4>1. \A p \in Paths : p \notin Below(r) => Grant[p] # r
          BY PathsAssumption DEF Below
        <4>2. pending' \subseteq (pending \ Below(r)) \cup {r}
          BY <2>5 DEF Reauthorize, Forget, Queue
        <4>3. CASE Forget(r)
          BY <3>1, <4>1, <4>3 DEF Forget, Queue
        <4>4. CASE Reauthorize(r)
          BY <3>1, <4>2, <4>4, PathsAssumption DEF Reauthorize
        <4> QED
          BY <2>5, <4>3, <4>4
      <3> QED
        BY <3>1, <3>2, <3>3
    <2> QED
      BY <1>3, <2>1, <2>2, <2>3, <2>4, <2>5 DEF Requests
  <1>4. ASSUME NEW also, Recovered(also), \A r \in Roots : reader'[r] = None,
               \A q \in Items : rows'[q] # None => rows[q] # None,
               review' \in {review, None},
               admitting' = None, granted' = granted
        PROVE  ClaimInv'
    BY <1>4, NoMoreClaims DEF Recovered, NoClaims, Queue
  <1>5. CASE Coordinator
    <2>1. CASE Launch
      BY <1>4, <2>1 DEF Launch, Idle, StoreFree, NoReaders, cleanVars
    <2>2. ASSUME NEW p \in Paths, Claim(p)
          PROVE  ClaimInv'
      <3>1. /\ p \in pending /\ active' = active \cup {p} /\ admitting' = p
            /\ \A a \in active : Grant[a] # Grant[p]
            /\ pending' = pending \ {p}
            /\ UNCHANGED <<granted, marker, reader, incomplete, rows, review>>
        BY <2>2 DEF Claim, Claimable, Queue, indexVars, cleanVars
      <3>2. ClaimsAreBounded'
        <4>1. Cardinality(active) < ActiveScans /\ Cardinality(active) \in Nat
          BY <2>2, FS_CardinalityType DEF Claim, ClaimsAreBounded
        <4>4. /\ IsFiniteSet(active \cup {p})
              /\ Cardinality(active \cup {p}) =
                    IF p \in active THEN Cardinality(active) ELSE Cardinality(active) + 1
          BY FS_AddElement DEF ClaimsAreBounded
        <4>2. IsFiniteSet(active') /\ Cardinality(active') <= Cardinality(active) + 1
          BY <3>1, <4>1, <4>4
        <4>3. Cardinality(active') \in Nat
          BY <4>2, FS_CardinalityType
        <4> QED
          BY <4>1, <4>2, <4>3 DEF ClaimsAreBounded, BoundAssumption
      <3>3. Grant[p] \in Roots /\ reader[Grant[p]] = None
        <4>1. Grant[p] \in Roots
          BY <3>1, PathsAssumption
        <4> QED
          BY <3>1, <4>1
      <3> QED
        BY <3>1, <3>2, <3>3
    <2>3. CASE BeginRefresh
      <3> DEFINE q == Grant[admitting]
      <3>1. q \in Roots /\ admitting \in active /\ admitting \in Paths /\ q \in granted
        BY <2>3, PathsAssumption DEF BeginRefresh
      <3>2. /\ incomplete' = incomplete \cup {q}
            /\ UNCHANGED <<granted, active>> /\ admitting' = None
            /\ pending' \subseteq pending
            /\ \A r \in Roots : r # q => reader'[r] = reader[r] /\ marker'[r] = marker[r]
            /\ marker'[q] = Resolved(admitting)
            /\ reader'[q].claimed = admitting /\ reader'[q].scope = Resolved(admitting)
            /\ reader'[q].lock = IsLockRefresh(admitting)
            /\ UNCHANGED <<rows, review>>
        BY <2>3, <3>1 DEF BeginRefresh, Queue, cleanVars
      <3> HIDE DEF q
      <3>3. ClaimsAreBounded'
        BY <3>2, FewerClaims
      <3>4. ReaderOwnsClaim'
        <4> SUFFICES ASSUME NEW r \in Roots, reader'[r] # None
                     PROVE  /\ reader'[r].claimed \in active'
                            /\ Grant[reader'[r].claimed] = r
                            /\ marker'[r] = reader'[r].scope
                            /\ r \in granted' /\ r \in incomplete'
          BY DEF ReaderOwnsClaim
        <4>1. CASE r = q
          BY <3>1, <3>2, <4>1 DEF q
        <4>2. CASE r # q
          BY <3>1, <3>2, <4>2
        <4> QED
          BY <4>1, <4>2
      <3>5. Resolved(admitting) \in Above[admitting]
        BY <3>1, ResolvedAbove
      <3>6. IsLockRefresh(admitting) => Resolved(admitting) \in DOMAIN LockTarget
        BY DEF IsLockRefresh
      <3> QED
        BY <3>1, <3>2, <3>3, <3>4, <3>5, <3>6
    <2>4. CASE AdmissionFails
      BY <2>4, FewerClaims DEF AdmissionFails, indexVars, cleanVars, claimVars, queueVars
    <2>5. ASSUME NEW r \in Roots, NEW p \in Items, Read(r, p) \/ SaveRow(r, p)
          PROVE  ClaimInv'
      <3>1. reader[r] # None /\ reader[r] \in Tickets
        BY <2>5 DEF Read, SaveRow, MayPublish
      <3>2. /\ \A s \in Roots : s # r => reader'[s] = reader[s]
            /\ reader'[r].claimed = reader[r].claimed
            /\ reader'[r].scope = reader[r].scope
            /\ reader'[r].lock = reader[r].lock
        <4>1. CASE Read(r, p)
          BY <3>1, <4>1 DEF Read, Tickets
        <4>2. CASE SaveRow(r, p)
          BY <3>1, <4>2 DEF SaveRow, Tickets
        <4> QED
          BY <2>5, <4>1, <4>2
      <3>3. /\ UNCHANGED <<granted, pending, active, marker, admitting, review>>
            /\ incomplete \subseteq incomplete'
        BY <2>5 DEF Read, SaveRow, queueVars, claimVars, indexVars, cleanVars
      <3>4. \A q \in Items : rows'[q] # None => rows[q] # None \/ Grant[q] = r
        <4>1. CASE Read(r, p)
          BY <4>1 DEF Read, indexVars
        <4>2. CASE SaveRow(r, p)
          <5>1. Grant[p] = r
            BY <3>1, <4>2, FootGrant DEF SaveRow, Reports, Reached
          <5> QED
            BY <4>2, <5>1 DEF SaveRow, Published
        <4> QED
          BY <2>5, <4>1, <4>2
      <3>5. ClaimsAreBounded'
        BY <3>3, FewerClaims
      <3>6. admitting # None => Grant[admitting] \in Roots /\ Grant[admitting] # r
        BY <3>1, PathsAssumption
      <3> QED
        BY <3>1, <3>2, <3>3, <3>4, <3>5, <3>6
    <2>6. ASSUME NEW r \in Roots, NEW p \in Items, SaveProvisional(r, p)
          PROVE  ClaimInv'
      BY <1>1, <2>6 DEF SaveProvisional, engineVars, queueVars, cleanVars
    <2>7. ASSUME NEW r \in Roots, NEW complete \in BOOLEAN, NEW requeue \in BOOLEAN,
                 MayPublish(r), Settle(r, complete, requeue)
          PROVE  ClaimInv'
      <3> DEFINE c == reader[r].claimed
      <3>1. /\ \A s \in Roots : reader'[s] = IF s = r THEN None ELSE reader[s]
            /\ \A s \in Roots : s # r => marker'[s] = marker[s]
            /\ active' = active \ {c} /\ UNCHANGED granted
            /\ admitting' = None
            /\ \A s \in incomplete : s # r => s \in incomplete'
            /\ review' = review
            /\ \A q \in Items : rows'[q] # None => rows[q] # None
        BY <2>7 DEF Settle, MayPublish, StoreFree, IncompleteAfter, Pruned, cleanVars
      <3>2. c \in active /\ Grant[c] = r /\ r \in granted
        BY <2>7 DEF MayPublish
      <3>3. \A p \in pending' : Grant[p] \in granted
        <4>1. \A p \in EnqueuedAll(pending, {c}) : Grant[p] \in granted
          BY <3>2, EnqueuedGranted
        <4> QED
          BY <2>7, <4>1 DEF Settle, SettledQueue, Queue
      <3>4. ClaimsAreBounded'
        BY <3>1, FewerClaims
      <3> HIDE DEF c
      <3>5. \A s \in Roots : s # r /\ reader[s] # None => reader[s].claimed # c
        BY <3>2
      <3> QED
        BY <3>1, <3>2, <3>3, <3>4, <3>5
    <2>8. ASSUME NEW r \in Roots, FinishComplete(r) \/ FinishPartial(r) \/ HelperFails(r)
          PROVE  ClaimInv'
      BY <2>7, <2>8 DEF FinishComplete, FinishPartial, HelperFails
    <2>9. CASE Park \/ Cancel
      <3> DEFINE claims == {reader[r].claimed : r \in {s \in Roots : reader[s] # None}}
      <3>1. \A p \in claims : Grant[p] \in granted
        OBVIOUS
      <3>2. \A p \in EnqueuedAll(pending, claims) : Grant[p] \in granted
        BY <3>1, EnqueuedGranted
      <3>3. /\ \A p \in pending' : Grant[p] \in granted
            /\ active' \subseteq active /\ UNCHANGED granted
            /\ admitting' = None
            /\ \A s \in Roots : reader'[s] = None
            /\ UNCHANGED <<rows, review>>
        BY <2>9, <3>2 DEF Park, Cancel, RetireAll, Queue, StoreFree, indexVars, cleanVars
      <3>4. ClaimsAreBounded'
        BY <3>3, FewerClaims
      <3> QED
        BY <3>3, <3>4
    <2>10. CASE WorkerDone
      <3>1. /\ admitting' = None /\ \A r \in Roots : reader'[r] = None
            /\ UNCHANGED <<rows, review, granted>>
        BY <2>10 DEF WorkerDone, StoreFree, NoReaders, cleanVars
      <3>2. CASE Recovered({})
        BY <1>4, <3>1, <3>2
      <3>3. CASE UNCHANGED <<queueVars, claimVars, incomplete>>
        BY <3>1, <3>3, FewerClaims DEF queueVars, claimVars
      <3> QED
        BY <2>10, <3>2, <3>3 DEF WorkerDone
    <2>11. CASE WorkerFails
      <3>1. /\ admitting' = None /\ \A r \in Roots : reader'[r] = None
            /\ UNCHANGED <<rows, review, granted>>
        BY <2>11 DEF WorkerFails, StoreFree, cleanVars
      <3>2. CASE Recovered({})
        BY <1>4, <3>1, <3>2
      <3>3. CASE UNCHANGED <<queueVars, claimVars, incomplete>>
        BY <3>1, <3>3, FewerClaims DEF queueVars, claimVars
      <3> QED
        BY <2>11, <3>2, <3>3 DEF WorkerFails
    <2>12. CASE MaintainDerived
      BY <2>12, FewerClaims
         DEF MaintainDerived, Idle, StoreFree, queueVars, claimVars, engineVars, cleanVars
    <2> QED
      BY <1>5, <2>1, <2>2, <2>3, <2>4, <2>5, <2>6, <2>8, <2>9, <2>10, <2>11, <2>12
         DEF Coordinator
  <1>6. CASE Cleanup
    <2>1. CASE QueueCleaned
      <3>1. \A p \in {review} : Grant[p] \in granted
        BY <2>1 DEF QueueCleaned
      <3>2. \A p \in pending' : Grant[p] \in granted
        BY <2>1, <3>1, EnqueuedGranted DEF QueueCleaned, Queue
      <3> QED
        BY <1>1, <2>1, <3>2 DEF QueueCleaned, claimVars, cleanVars, indexVars, engineVars
    <2>3. ASSUME NEW p \in Items, Prepare(p)
          PROVE  ClaimInv'
      BY <2>3, FewerClaims DEF Prepare, indexVars, claimVars, engineVars, queueVars
    <2>2. CASE ReviewExpires \/ BeginCleanup \/ Suppress \/ EndCleanup
      BY <1>1, <1>6, <2>2
         DEF ReviewExpires, BeginCleanup, Suppress, EndCleanup,
             indexVars, claimVars, engineVars, queueVars
    <2> QED
      BY <1>6, <2>1, <2>2, <2>3 DEF Cleanup
  <1>7. ASSUME NEW upgraded \in BOOLEAN, Restart(upgraded)
        PROVE  ClaimInv'
    <2>1. CASE upgraded
      <3>1. /\ pending' = granted /\ active' = {} /\ granted' = granted
            /\ admitting' = None /\ \A r \in Roots : reader'[r] = None
            /\ review' = None /\ \A p \in Items : rows'[p] = None
        BY <1>7, <2>1 DEF Restart, NoClaims
      <3> QED
        BY <3>1, NoMoreClaims, PathsAssumption
    <2>2. CASE ~upgraded
      <3>1. PICK touched \in SUBSET Roots : Recovered(touched)
        BY <1>7, <2>2 DEF Restart
      <3> QED
        BY <1>4, <1>7, <3>1 DEF Restart
    <2> QED
      BY <2>1, <2>2
  <1>8. CASE UNCHANGED vars
    BY <1>1, <1>8 DEF vars, indexVars, claimVars, engineVars, queueVars, cleanVars
  <1> QED
    BY <1>2, <1>3, <1>5, <1>6, <1>7, <1>8 DEF Next

LEMMA ClaimInvariant == Spec => []ClaimInv
  <1>1. Init => ClaimInv
    BY NoMoreClaims, FS_EmptySet, BoundAssumption
       DEF Init, ClaimInv, ScopesAreGranted, AdmissionOwnsClaim, ClaimsAreBounded,
           OneClaimPerGrant, ReaderOwnsClaim, ReaderLooksAtClaim, RowsAreGranted
  <1>2. TypeInv /\ LimitInv /\ ClaimInv /\ [Next]_vars => ClaimInv'
    BY ClaimStep
  <1> QED
    BY <1>1, <1>2, TypeInvariant, LimitInvariant, PTL DEF Spec

\* Never more claims than helpers, never two in one grant, and every helper that
\* may publish owns the claim and the open refresh of its grant
\* (take_scope_bounded, begin_scope_refresh_with_sibling), whatever fails.
THEOREM ClaimsAreDisciplined == Spec => []ClaimDiscipline
  <1>1. ClaimInv => ClaimDiscipline
    BY DEF ClaimInv, ClaimDiscipline, ClaimsAreBounded, OneClaimPerGrant, ReaderOwnsClaim
  <1> QED
    BY <1>1, ClaimInvariant, PTL

-----------------------------------------------------------------------------
(* A hidden path is owed another look                                      *)

\* Between the two transactions of "execute" one path is hidden and not queued.
BetweenTransactions(p) == cleanup = "hidden" /\ p = review

OwedInv ==
    /\ \A p \in Items : tomb[p] # "none" /\ ~BetweenTransactions(p) =>
                          Covered(pending \cup active, p)
    /\ \A r \in Roots : reader[r] # None =>
        \A p \in Below(reader[r].claimed) \cap Items : tomb[p] = "none"
    /\ \A p \in Items : tomb[p] # Unlocated

\* Queueing a batch loses no coverage.
LEMMA StillCovered ==
    ASSUME NEW P \in SUBSET Paths, NEW A \in SUBSET Paths, NEW S \in SUBSET Paths,
           NEW p \in Paths, Covered(P \cup A, p) \/ Covered(S, p)
    PROVE  Covered(EnqueuedAll(P, S) \cup A, p)
  <1>1. CASE Covered(A, p)
    BY <1>1 DEF Covered
  <1>2. CASE Covered(P, p) \/ Covered(S, p)
    BY <1>2, EnqueuedAllCovers DEF Covered
  <1> QED
    BY <1>1, <1>2 DEF Covered

LEMMA OwedStep ==
    ASSUME Lapses = {}, TypeInv, LimitInv, ClaimInv, OwedInv, [Next]_vars
    PROVE  OwedInv'
  <1> USE DEF TypeInv, ReviewHeld, TypeOK, OwedInv, BetweenTransactions
  <1>1. ASSUME UNCHANGED <<tomb, reader, active, review, cleanup>>,
               NEW S \in SUBSET Paths, pending' = EnqueuedAll(pending, S)
        PROVE  OwedInv'
    <2>1. ASSUME NEW p \in Items, Covered(pending \cup active, p)
          PROVE  Covered(pending' \cup active', p)
      <3>1. p \in Paths
        BY DEF Items
      <3> QED
        BY <1>1, <2>1, <3>1, StillCovered
    <2> QED
      BY <1>1, <2>1
  <1>2. ASSUME UNCHANGED <<tomb, reader, active, pending>>,
               cleanup = "hidden" => cleanup' = "hidden" /\ review' = review
        PROVE  OwedInv'
    BY <1>2 DEF Covered
  <1>3. CASE Environment
    BY <1>2, <1>3
       DEF Environment, Change, LoseHistory, indexVars, claimVars, engineVars, queueVars,
           cleanVars
  <1>4. CASE Requests
    <2>1. ASSUME NEW r \in Roots, NEW S \in SUBSET Below(r), Receive(r, S)
          PROVE  OwedInv'
      <3>1. {EventScope[p] : p \in S} \in SUBSET Paths
        BY ScopeAssumption DEF Below
      <3> QED
        BY <1>1, <2>1, <3>1 DEF Receive, Queue, claimVars, indexVars, engineVars, cleanVars
    <2>2. CASE ReconcileEvents
      <3>1. granted \in SUBSET Paths
        BY PathsAssumption
      <3> QED
        BY <1>1, <2>2, <3>1
           DEF ReconcileEvents, Queue, claimVars, indexVars, engineVars, cleanVars
    <2>3. ASSUME NEW r \in Roots, RequestScan(r)
          PROVE  OwedInv'
      <3>1. {r} \in SUBSET Paths
        BY PathsAssumption
      <3> QED
        BY <1>1, <2>3, <3>1 DEF RequestScan, Queue, claimVars, indexVars, engineVars, cleanVars
    <2>4. ASSUME NEW r \in Roots, Authorize(r)
          PROVE  OwedInv'
      BY <1>2, <2>4 DEF Authorize, Idle, claimVars, queueVars, engineVars
    <2>5. ASSUME NEW r \in Roots, Reauthorize(r) \/ Forget(r)
          PROVE  OwedInv'
      <3>1. /\ \A s \in Roots : reader'[s] = None
            /\ cleanup = "none" /\ cleanup' = "none"
            /\ active' = active \ Below(r)
            /\ pending \ Below(r) \subseteq pending'
        BY <2>5
           DEF Reauthorize, Forget, Forgotten, Queue, Idle, StoreFree, engineVars, LimitInv,
               WorkerOwnsReaders
      <3>2. \A p \in Items : tomb'[p] = IF Grant[p] = r /\ tomb[p] = "located"
                                        THEN "none" ELSE tomb[p]
        BY <2>5 DEF Reauthorize, Forget, Forgotten
      <3>3. ASSUME NEW p \in Items, tomb'[p] # "none"
            PROVE  Covered(pending' \cup active', p)
        <4>1. tomb[p] # "none" /\ Grant[p] # r
          BY <3>2, <3>3
        <4>2. PICK q \in pending \cup active : q \in Above[p]
          BY <3>1, <4>1 DEF Covered
        <4>3. q \notin Below(r)
          BY <4>1, <4>2, PathsAssumption DEF Below, Items
        <4> QED
          BY <3>1, <4>2, <4>3 DEF Covered
      <3> QED
        BY <3>1, <3>2, <3>3 DEF Unlocated
    <2> QED
      BY <1>4, <2>1, <2>2, <2>3, <2>4, <2>5 DEF Requests
  <1>5. ASSUME NEW also, Recovered(also), \A r \in Roots : reader'[r] = None,
               UNCHANGED <<tomb, granted>>,
               cleanup # "hidden", cleanup' # "hidden"
        PROVE  OwedInv'
    <2>2. active \subseteq Owed /\ Owed \in SUBSET Paths
      BY DEF Owed, ClaimInv, ScopesAreGranted
    <2>3. ASSUME NEW p \in Items, tomb'[p] # "none"
          PROVE  Covered(pending' \cup active', p)
      <3>1. p \in Paths
        BY DEF Items
      <3>2. PICK s \in pending \cup active : s \in Above[p]
        BY <1>5, <2>3 DEF Covered
      <3>3. Covered(EnqueuedAll(pending, Owed), p)
        BY <2>2, <3>1, <3>2, EnqueuedAllCovers DEF Covered
      <3>4. PICK q \in EnqueuedAll(pending, Owed) : q \in Above[p]
        BY <3>3 DEF Covered
      <3>5. Grant[q] = Grant[p] /\ Grant[s] = Grant[p]
        BY <3>1, <3>2, <3>4, PathsAssumption
      <3>6. Grant[q] \in granted
        BY <3>2, <3>5 DEF ClaimInv, ScopesAreGranted
      <3> QED
        BY <1>5, <3>4, <3>6 DEF Recovered, Queue, Covered
    <2> QED
      BY <1>5, <2>3
  <1>6. CASE Coordinator
    <2>1. CASE Launch
      BY <1>5, <2>1 DEF Launch, Idle, LimitInv, WorkerOwnsReaders, cleanVars
    <2>2. ASSUME NEW p \in Paths, Claim(p)
          PROVE  OwedInv'
      <3>1. pending' \cup active' = pending \cup active
        BY <2>2 DEF Claim, Claimable, Queue
      <3> QED
        BY <2>2, <3>1 DEF Claim, indexVars, cleanVars, Covered
    <2>3. CASE BeginRefresh
      <3> DEFINE q == Grant[admitting]
                 scope == Resolved(admitting)
                 lock == IsLockRefresh(admitting)
      <3>1. q \in Roots /\ admitting \in Paths /\ scope \in Above[admitting]
        BY <2>3, ResolvedAbove, PathsAssumption DEF BeginRefresh
      <3>2. /\ UNCHANGED <<active, review, cleanup>>
            /\ pending' = pending \ Footprint(scope, lock)
            /\ tomb' = Lifted(Captured(scope, lock))
            /\ \A r \in Roots : r # q => reader'[r] = reader[r]
            /\ reader'[q].claimed = admitting
        BY <2>3, <3>1 DEF BeginRefresh, Queue, cleanVars
      <3>3. \A p \in Items : /\ tomb'[p] # "none" => tomb[p] # "none" /\ p \notin Captured(scope, lock)
                             /\ tomb'[p] # Unlocated
        BY <3>2 DEF Lifted, Unlocated
      <3>4. \A s \in Footprint(scope, lock) : Below(s) \subseteq Captured(scope, lock)
        BY PathsAssumption DEF Footprint, Captured, Below
      <3>5. Below(admitting) \subseteq Captured(scope, lock)
        BY <3>1, PathsAssumption DEF Footprint, Captured, Below
      <3> HIDE DEF q, scope, lock
      <3>6. ASSUME NEW p \in Items, tomb'[p] # "none", ~BetweenTransactions(p)
            PROVE  Covered(pending' \cup active', p)
        <4>1. PICK s \in pending \cup active : s \in Above[p]
          BY <3>3, <3>6 DEF Covered
        <4>2. p \in Below(s)
          BY <4>1 DEF Below, Items
        <4>3. s \notin Footprint(scope, lock)
          BY <3>3, <3>4, <3>6, <4>2
        <4> QED
          BY <3>2, <4>1, <4>3 DEF Covered
      <3>7. ASSUME NEW r \in Roots, reader'[r] # None,
                   NEW p \in Below(reader'[r].claimed) \cap Items
            PROVE  tomb'[p] = "none"
        <4>1. CASE r = q
          BY <3>2, <3>3, <3>5, <3>7, <4>1
        <4>2. CASE r # q
          BY <3>2, <3>3, <3>7, <4>2
        <4> QED
          BY <4>1, <4>2
      <3> QED
        BY <3>2, <3>3, <3>6, <3>7
    <2>4. CASE AdmissionFails
      BY <1>2, <2>4 DEF AdmissionFails, indexVars, claimVars, queueVars, cleanVars
    <2>5. ASSUME NEW r \in Roots, NEW p \in Items,
                 Read(r, p) \/ SaveProvisional(r, p) \/ SaveRow(r, p)
          PROVE  OwedInv'
      <3>1. tomb' = tomb
        BY <2>5 DEF Read, SaveProvisional, SaveRow, Located, indexVars
      <3>2. reader[r] # None /\ reader[r] \in Tickets
        BY <2>5 DEF Read, SaveProvisional, SaveRow, MayPublish
      <3>3. \A s \in Roots : reader'[s] # None =>
                reader[s] # None /\ reader'[s].claimed = reader[s].claimed
        BY <2>5, <3>2 DEF Read, SaveProvisional, SaveRow, engineVars, Tickets
      <3>4. UNCHANGED <<pending, active, review, cleanup>>
        BY <2>5 DEF Read, SaveProvisional, SaveRow, queueVars, claimVars, cleanVars
      <3> QED
        BY <3>1, <3>3, <3>4 DEF Covered
    <2>6. ASSUME NEW r \in Roots, NEW complete \in BOOLEAN, NEW requeue \in BOOLEAN,
                 MayPublish(r), Settle(r, complete, requeue)
          PROVE  OwedInv'
      <3> DEFINE c == reader[r].claimed
      <3>1. reader[r] # None /\ c \in Paths
        BY <2>6 DEF MayPublish, Tickets
      <3>2. /\ \A s \in Roots : reader'[s] = IF s = r THEN None ELSE reader[s]
            /\ active' = active \ {c} /\ UNCHANGED <<tomb, cleanup, review>>
            /\ pending' = SettledQueue(c, requeue)
        BY <2>6 DEF Settle, Queue, cleanVars
      <3>3. ASSUME NEW p \in Items, Covered(pending, p)
            PROVE  Covered(pending', p)
        <4>1. p \in Paths /\ {c} \in SUBSET Paths
          BY <3>1 DEF Items
        <4> QED
          BY <3>2, <3>3, <4>1, EnqueuedAllCovers DEF SettledQueue
      <3>4. ASSUME NEW p \in Items, tomb[p] # "none", ~BetweenTransactions(p)
            PROVE  Covered(pending' \cup active', p)
        <4>1. PICK s \in pending \cup active : s \in Above[p]
          BY <3>4 DEF Covered
        <4>2. s # c
          BY <3>1, <3>4, <4>1 DEF Below, Items
        <4> QED
          BY <3>2, <3>3, <4>1, <4>2 DEF Covered
      <3> QED
        BY <3>2, <3>4
    <2>7. ASSUME NEW r \in Roots, FinishComplete(r) \/ FinishPartial(r) \/ HelperFails(r)
          PROVE  OwedInv'
      BY <2>6, <2>7 DEF FinishComplete, FinishPartial, HelperFails
    <2>8. CASE Park \/ Cancel
      <3> DEFINE claims == {reader[r].claimed : r \in {s \in Roots : reader[s] # None}}
      <3>1. claims \in SUBSET Paths
        BY DEF Tickets
      <3>2. /\ pending' = EnqueuedAll(pending, claims)
            /\ active' = active \ claims
            /\ \A s \in Roots : reader'[s] = None
            /\ UNCHANGED <<tomb, review, cleanup>>
        BY <2>8 DEF Park, Cancel, RetireAll, Queue, indexVars, cleanVars
      <3> HIDE DEF claims
      <3>3. ASSUME NEW p \in Items, Covered(pending \cup active, p)
            PROVE  Covered(pending' \cup active', p)
        <4>1. p \in Paths
          BY DEF Items
        <4>2. Covered(pending \cup (active \ claims), p) \/ Covered(claims, p)
          BY <3>3 DEF Covered
        <4>3. active \ claims \in SUBSET Paths
          OBVIOUS
        <4> QED
          BY <3>1, <3>2, <4>1, <4>2, <4>3, StillCovered
      <3> QED
        BY <3>2, <3>3
    <2>9. CASE WorkerDone \/ WorkerFails
      <3>1. /\ \A r \in Roots : reader'[r] = None
            /\ UNCHANGED <<tomb, granted, review, cleanup>> /\ cleanup # "hidden"
        BY <2>9 DEF WorkerDone, WorkerFails, NoReaders, cleanVars
      <3>2. CASE Recovered({})
        BY <1>5, <3>1, <3>2
      <3>3. CASE UNCHANGED <<queueVars, claimVars, incomplete>>
        BY <3>1, <3>3 DEF queueVars, claimVars, Covered
      <3> QED
        BY <2>9, <3>2, <3>3 DEF WorkerDone, WorkerFails
    <2>10. CASE MaintainDerived
      BY <1>2, <2>10 DEF MaintainDerived, queueVars, claimVars, engineVars, cleanVars
    <2> QED
      BY <1>6, <2>1, <2>2, <2>3, <2>4, <2>5, <2>7, <2>8, <2>9, <2>10 DEF Coordinator
  <1>7. CASE Cleanup
    <2>1. CASE Suppress
      <3>1. /\ \A p \in Items : p # review => tomb'[p] = tomb[p]
            /\ tomb'[review] # Unlocated
            /\ cleanup' = "hidden" /\ cleanup = "pausing"
            /\ UNCHANGED <<pending, active, reader, review>>
            /\ \A r \in Roots : reader'[r] = None
        BY <2>1
           DEF Suppress, NoReaders, queueVars, claimVars, engineVars, Unlocated
      <3> QED
        BY <3>1 DEF Covered
    <2>2. CASE QueueCleaned
      <3>1. review \in Items /\ review \in Paths /\ {review} \in SUBSET Paths
        BY <2>2 DEF QueueCleaned, Items
      <3>2. /\ pending' = EnqueuedAll(pending, {review})
            /\ UNCHANGED <<tomb, reader, active, review>> /\ cleanup' = "queued"
        BY <2>2 DEF QueueCleaned, Queue, indexVars, engineVars, claimVars
      <3>3. Covered({review}, review)
        BY <3>1, PathsAssumption DEF Covered
      <3>4. ASSUME NEW p \in Items, Covered(pending \cup active, p) \/ p = review
            PROVE  Covered(pending' \cup active', p)
        <4>1. p \in Paths
          BY DEF Items
        <4> QED
          BY <3>1, <3>2, <3>3, <3>4, <4>1, StillCovered
      <3> QED
        BY <3>2, <3>4
    <2>3. ASSUME NEW p \in Items, Prepare(p)
          PROVE  OwedInv'
      BY <1>2, <2>3 DEF Prepare, queueVars, claimVars, engineVars, indexVars
    <2>4. CASE ReviewExpires \/ BeginCleanup \/ EndCleanup
      BY <1>2, <2>4
         DEF ReviewExpires, BeginCleanup, EndCleanup, queueVars, claimVars, engineVars, indexVars
    <2> QED
      BY <1>7, <2>1, <2>2, <2>3, <2>4 DEF Cleanup
  <1>9. ASSUME NEW upgraded \in BOOLEAN, Restart(upgraded)
        PROVE  OwedInv'
    <2>1. /\ cleanup # "hidden" /\ cleanup' = "none" /\ UNCHANGED <<tomb, granted>>
          /\ \A r \in Roots : reader'[r] = None
      BY <1>9 DEF Restart
    <2>2. CASE upgraded
      <3>1. pending' = granted
        BY <1>9, <2>2 DEF Restart
      <3>2. ASSUME NEW p \in Items, tomb[p] # "none"
            PROVE  Covered(pending' \cup active', p)
        <4>1. PICK s \in pending \cup active : s \in Above[p]
          BY <2>1, <3>2 DEF Covered
        <4>2. Grant[p] \in granted
          BY <4>1, PathsAssumption DEF ClaimInv, ScopesAreGranted, Items
        <4>3. Grant[p] \in Above[p]
          BY PathsAssumption DEF Items
        <4> QED
          BY <3>1, <4>2, <4>3 DEF Covered
      <3> QED
        BY <2>1, <3>2
    <2>3. CASE ~upgraded
      <3>1. PICK touched \in SUBSET Roots : Recovered(touched)
        BY <1>9, <2>3 DEF Restart
      <3> QED
        BY <1>5, <2>1, <3>1
    <2> QED
      BY <2>2, <2>3
  <1>8. CASE UNCHANGED vars
    BY <1>2, <1>8 DEF vars, indexVars, claimVars, engineVars, queueVars, cleanVars
  <1> QED
    BY <1>3, <1>4, <1>6, <1>7, <1>8, <1>9 DEF Next

LEMMA OwedInvariant ==
    ASSUME Lapses = {}
    PROVE  Spec => []OwedInv
  <1>1. Init => OwedInv
    BY DEF Init, OwedInv, Unlocated
  <1>2. TypeInv /\ LimitInv /\ ClaimInv /\ OwedInv /\ [Next]_vars => OwedInv'
    BY OwedStep
  <1> QED
    BY <1>1, <1>2, TypeInvariant, LimitInvariant, ClaimInvariant, PTL DEF Spec

\* When "execute" stops at neither of its lapses, a candidate it has hidden is
\* covered by a queued or claimed scope until a refresh lifts its tombstone:
\* through requeues, cancellation, failed admissions, crashes and rule upgrades.
THEOREM HiddenPathsAreOwedALook ==
    ASSUME Lapses = {}
    PROVE  Spec => []HiddenIsOwedALook
  <1>1. TypeInv /\ OwedInv => HiddenIsOwedALook
    BY DEF OwedInv, BetweenTransactions, HiddenIsOwedALook
  <1> QED
    BY <1>1, OwedInvariant, TypeInvariant, PTL

-----------------------------------------------------------------------------
(* A pass prunes what it looked at and did not see                         *)

\* The rows that an open refresh may still prune lie where its helper looks.
UnseenIsCaptured ==
    \A r \in Roots : reader[r] # None =>
        unseen[r] \subseteq Captured(reader[r].scope, reader[r].lock)

\* What a helper reported is not pruned, unless a row of its grant was left out,
\* and then nothing is.
ReportsAreSeen ==
    \A r \in Roots : reader[r] # None /\ r \notin omitted =>
        reader[r].sent \cap unseen[r] = {}

PassInv == UnseenIsCaptured /\ ReportsAreSeen

LEMMA PassInit == Init => PassInv
  BY DEF Init, PassInv, UnseenIsCaptured, ReportsAreSeen

\* Steps that end refreshes, or leave them alone.
LEMMA PassesOnlyEnd ==
    ASSUME PassInv,
           \A r \in Roots : \/ reader'[r] = None
                            \/ /\ reader'[r] = reader[r] /\ unseen'[r] = unseen[r]
                               /\ r \in omitted' <=> r \in omitted
    PROVE  PassInv'
  BY DEF PassInv, UnseenIsCaptured, ReportsAreSeen, Captured, Footprint, Below

LEMMA PassStep == TypeInv /\ LimitInv /\ PassInv /\ [Next]_vars => PassInv'
  <1> SUFFICES ASSUME TypeInv, LimitInv, PassInv, [Next]_vars
               PROVE  PassInv'
    OBVIOUS
  <1>t. TypeOK
    BY DEF TypeInv
  <1>1. ASSUME UNCHANGED <<unseen, omitted, reader>>
        PROVE  PassInv'
    BY <1>1, PassesOnlyEnd
  <1>2. ASSUME \A r \in Roots : reader'[r] = None
        PROVE  PassInv'
    BY <1>2, PassesOnlyEnd
  <1>3. CASE Environment
    BY <1>1, <1>3 DEF Environment, Change, LoseHistory, claimVars, engineVars
  <1>4. CASE Requests
    <2>1. ASSUME NEW r \in Roots, Reauthorize(r) \/ Forget(r)
          PROVE  PassInv'
      <3>1. \A s \in Roots : reader'[s] = None
        BY <2>1 DEF Reauthorize, Forget, Idle, engineVars, LimitInv, WorkerOwnsReaders
      <3> QED
        BY <1>2, <3>1
    <2> QED
      BY <1>1, <1>4, <2>1
         DEF Requests, Receive, ReconcileEvents, RequestScan, Authorize, claimVars, engineVars
  <1>5. CASE Coordinator
    <2>1. CASE Launch
      <3>1. \A s \in Roots : reader'[s] = None
        BY <2>1 DEF Launch, Idle, LimitInv, WorkerOwnsReaders
      <3> QED
        BY <1>2, <3>1
    <2>2. CASE BeginRefresh
      <3> DEFINE q == Grant[admitting]
                 scope == Resolved(admitting)
                 lock == IsLockRefresh(admitting)
      <3>1. q \in Roots
        BY <1>t, <2>2, PathsAssumption DEF BeginRefresh, TypeOK
      <3>2. /\ omitted' = omitted
            /\ unseen' = [unseen EXCEPT ![q] =
                   {p \in Captured(scope, lock) \cap Items : rows[p] # None}]
            /\ reader' = [reader EXCEPT ![q] =
                   [claimed |-> admitting, scope |-> scope, lock |-> lock,
                    was |-> q \in incomplete,
                    obs |-> [p \in Items |-> Unread], sent |-> {}]]
        BY <2>2 DEF BeginRefresh
      <3> HIDE DEF q, scope, lock
      <3>3. /\ reader'[q].scope = scope /\ reader'[q].lock = lock /\ reader'[q].sent = {}
            /\ unseen'[q] \subseteq Captured(scope, lock)
        BY <1>t, <3>1, <3>2 DEF TypeOK
      <3>4. \A r \in Roots : r # q => reader'[r] = reader[r] /\ unseen'[r] = unseen[r]
        BY <1>t, <3>2 DEF TypeOK
      <3>5. UnseenIsCaptured'
        BY <3>3, <3>4
           DEF PassInv, UnseenIsCaptured, Captured, Footprint, Below
      <3>6. ReportsAreSeen'
        BY <3>2, <3>3, <3>4 DEF PassInv, ReportsAreSeen
      <3> QED
        BY <3>5, <3>6 DEF PassInv
    <2>3. ASSUME NEW r \in Roots, NEW p \in Items, Read(r, p)
          PROVE  PassInv'
      <3>1. /\ UNCHANGED <<unseen, omitted>>
            /\ reader[r] # None /\ reader[r] \in Tickets
            /\ reader' = [reader EXCEPT ![r].obs[p] = disk[p]]
        BY <1>t, <2>3 DEF Read, claimVars, TypeOK
      <3>2. \A s \in Roots :
                \/ reader'[s] = reader[s]
                \/ /\ s = r
                   /\ reader'[s].scope = reader[s].scope
                   /\ reader'[s].lock = reader[s].lock
                   /\ reader'[s].sent = reader[s].sent
        BY <1>t, <3>1 DEF TypeOK, Tickets
      <3>3. UnseenIsCaptured'
        BY <3>1, <3>2 DEF PassInv, UnseenIsCaptured, Captured, Footprint, Below
      <3>4. ReportsAreSeen'
        BY <3>1, <3>2 DEF PassInv, ReportsAreSeen
      <3> QED
        BY <3>3, <3>4 DEF PassInv
    <2>4. ASSUME NEW r \in Roots, NEW p \in Items, SaveProvisional(r, p)
          PROVE  PassInv'
      <3>1. /\ UNCHANGED <<reader, omitted>>
            /\ \A s \in Roots : unseen'[s] \subseteq unseen[s]
        BY <1>t, <2>4 DEF SaveProvisional, MarkSeen, engineVars, TypeOK
      <3> QED
        BY <3>1 DEF PassInv, UnseenIsCaptured, ReportsAreSeen, Captured, Footprint, Below
    <2>5. ASSUME NEW r \in Roots, NEW p \in Items, SaveRow(r, p)
          PROVE  PassInv'
      <3>1. /\ reader[r] # None /\ reader[r] \in Tickets
            /\ reader' = [reader EXCEPT ![r].sent = @ \cup {p}]
        BY <1>t, <2>5 DEF SaveRow, MayPublish, TypeOK
      <3>2. \/ omitted' = omitted /\ unseen' = [unseen EXCEPT ![r] = @ \ {p}]
            \/ omitted' = omitted \cup {r} /\ unseen' = unseen
        BY <2>5 DEF SaveRow, MarkSeen
      <3>3. /\ reader'[r].scope = reader[r].scope /\ reader'[r].lock = reader[r].lock
            /\ reader'[r].sent = reader[r].sent \cup {p}
            /\ \A s \in Roots : s # r => reader'[s] = reader[s]
        BY <1>t, <3>1 DEF TypeOK, Tickets
      <3>4. /\ \A s \in Roots : s # r => unseen'[s] = unseen[s]
            /\ unseen'[r] \subseteq unseen[r]
            /\ r \in omitted' \/ unseen'[r] = unseen[r] \ {p}
            /\ \A s \in Roots : s \in omitted => s \in omitted'
        BY <1>t, <3>2 DEF TypeOK
      <3>5. UnseenIsCaptured'
        BY <3>1, <3>3, <3>4 DEF PassInv, UnseenIsCaptured, Captured, Footprint, Below
      <3>6. ReportsAreSeen'
        BY <3>1, <3>3, <3>4 DEF PassInv, ReportsAreSeen
      <3> QED
        BY <3>5, <3>6 DEF PassInv
    <2>6. ASSUME NEW r \in Roots, FinishComplete(r) \/ FinishPartial(r) \/ HelperFails(r)
          PROVE  PassInv'
      <3>1. /\ reader' = [reader EXCEPT ![r] = None]
            /\ unseen' = [unseen EXCEPT ![r] = {}]
            /\ omitted' = omitted \ {r}
        BY <2>6 DEF FinishComplete, FinishPartial, HelperFails, Settle
      <3>2. \A s \in Roots : \/ reader'[s] = None
                             \/ /\ reader'[s] = reader[s] /\ unseen'[s] = unseen[s]
                                /\ s \in omitted' <=> s \in omitted
        BY <1>t, <3>1 DEF TypeOK
      <3> QED
        BY <3>2, PassesOnlyEnd
    <2>7. CASE Park \/ Cancel \/ WorkerFails
      <3>1. \A s \in Roots : reader'[s] = None
        BY <2>7 DEF Park, Cancel, WorkerFails, RetireAll
      <3> QED
        BY <1>2, <3>1
    <2>8. CASE WorkerDone
      <3>1. \A s \in Roots : reader'[s] = None
        BY <2>8 DEF WorkerDone, NoReaders
      <3> QED
        BY <1>2, <3>1
    <2> QED
      BY <1>1, <1>5, <2>1, <2>2, <2>3, <2>4, <2>5, <2>6, <2>7, <2>8
         DEF Coordinator, Claim, AdmissionFails, MaintainDerived, engineVars, claimVars
  <1>6. CASE Cleanup
    BY <1>1, <1>6
       DEF Cleanup, Prepare, ReviewExpires, BeginCleanup, Suppress, QueueCleaned, EndCleanup,
           claimVars, engineVars
  <1>7. ASSUME NEW upgraded \in BOOLEAN, Restart(upgraded)
        PROVE  PassInv'
    <2>1. \A s \in Roots : reader'[s] = None
      BY <1>7 DEF Restart
    <2> QED
      BY <1>2, <2>1
  <1>8. CASE UNCHANGED vars
    BY <1>1, <1>8 DEF vars, claimVars, engineVars
  <1> QED
    BY <1>3, <1>4, <1>5, <1>6, <1>7, <1>8 DEF Next

LEMMA PassInvariant == Spec => []PassInv
  <1> QED
    BY PassInit, PassStep, TypeInvariant, LimitInvariant, PTL DEF Spec

\* A helper that is asked for a row has that row in front of it.
LEMMA ReadScopeIsRead ==
    ASSUME NEW rd \in Tickets, NEW p \in Items, InReadScope(rd, p)
    PROVE  p \in Foot(rd)
  <1>1. rd.scope \in Paths
    BY DEF Tickets
  <1> QED
    BY <1>1, PathsAssumption DEF InReadScope, Foot, Footprint, Below, Items

\* A measurement is a function and never None.
LEMMA MeasureIsRow ==
    ASSUME NEW d \in [Items -> Versions \cup {Unread}], NEW p \in Items,
           \A q \in Below(p) : d[q] # Unread
    PROVE  Measure(d, p) # None
  <1>1. Below(p) \subseteq Items
    BY BelowItems
  <1>2. Measure(d, p) \in [Below(p) -> Versions]
    BY <1>1 DEF Measure
  <1> QED
    BY <1>2, NoneAssumption DEF Measures

\* A refresh captures only paths of its own grant.
LEMMA CapturedGrant ==
    ASSUME NEW claim \in Paths, NEW scope \in Above[claim], NEW lock \in BOOLEAN,
           lock => scope \in DOMAIN LockTarget,
           NEW p \in Paths, p \in Captured(scope, lock)
    PROVE  Grant[p] = Grant[claim]
  <1>1. scope \in Paths /\ Grant[scope] = Grant[claim]
    BY PathsAssumption
  <1>2. CASE p \in Below(scope)
    BY <1>1, <1>2, PathsAssumption DEF Below
  <1>3. CASE ~lock /\ p \in Above[scope]
    BY <1>1, <1>3, PathsAssumption
  <1>4. CASE lock /\ p \in Below(LockTarget[scope])
    BY <1>1, <1>4, PathsAssumption, ScopeAssumption DEF Below
  <1> QED
    BY <1>2, <1>3, <1>4 DEF Captured, Footprint

\* The rows a pass of r removes when it ends.
LEMMA EndOfPassPrunes ==
    ASSUME TypeInv, ClaimInv, PassInv, NEW r \in Roots,
           FinishComplete(r) \/ FinishPartial(r) \/ HelperFails(r),
           NEW p \in Items, rows[p] # None, rows'[p] = None
    PROVE  /\ Grant[p] = r /\ reader[r] # None /\ reader'[r] = None
           /\ p \in Captured(reader[r].scope, reader[r].lock)
           /\ ReadAll(reader[r]) /\ ~Reports(reader[r], p)
  <1>t. TypeOK
    BY DEF TypeInv
  <1>1. reader[r] # None /\ reader[r] \in Tickets /\ reader'[r] = None
    BY <1>t DEF FinishComplete, FinishPartial, HelperFails, MayPublish, Settle, TypeOK
  <1>2. FinishComplete(r) /\ r \notin omitted /\ p \in unseen[r]
    BY DEF FinishComplete, FinishPartial, HelperFails, Settle, Pruned
  <1>3. ReadAll(reader[r])
    BY <1>2 DEF FinishComplete
  <1>4. p \in Captured(reader[r].scope, reader[r].lock)
    BY <1>1, <1>2 DEF PassInv, UnseenIsCaptured
  <1>5. p \notin reader[r].sent
    BY <1>1, <1>2 DEF PassInv, ReportsAreSeen
  <1>6. ~Reports(reader[r], p)
    <2>1. Reports(reader[r], p) => p \in Foot(reader[r])
      BY <1>1, ReadScopeIsRead DEF Reports, Reached
    <2>2. Reports(reader[r], p) => Visible(reader[r].obs, p, Foot(reader[r]))
      BY DEF Reports, Reached
    <2> QED
      BY <1>3, <1>5, <2>1, <2>2 DEF ReadAll
  <1>7. Grant[p] = r
    <2> DEFINE claim == reader[r].claimed
               scope == reader[r].scope
               lock == reader[r].lock
    <2>1. claim \in Paths /\ scope \in Above[claim] /\ lock \in BOOLEAN /\ p \in Paths
      BY <1>1 DEF Tickets, ClaimInv, ReaderLooksAtClaim, Items
    <2>2. Grant[claim] = r
      BY <1>1 DEF ClaimInv, ReaderOwnsClaim
    <2>3. lock => scope \in DOMAIN LockTarget
      BY <1>1 DEF ClaimInv, ReaderLooksAtClaim
    <2>4. p \in Captured(scope, lock)
      BY <1>4
    <2> HIDE DEF claim, scope, lock
    <2> QED
      BY <2>1, <2>2, <2>3, <2>4, CapturedGrant
  <1> QED
    BY <1>1, <1>3, <1>4, <1>6, <1>7

LEMMA PrunedStep ==
    ASSUME TypeInv, LimitInv, ClaimInv, PassInv, [Next]_vars
    PROVE  PrunedByCompletePass
  <1>t. TypeOK
    BY DEF TypeInv
  <1>1. ASSUME \A p \in Items : rows[p] # None => rows'[p] # None
        PROVE  PrunedByCompletePass
    BY <1>1 DEF PrunedByCompletePass
  <1>2. CASE Environment
    BY <1>1, <1>2 DEF Environment, Change, LoseHistory, indexVars
  <1>3. CASE Requests
    <2>1. ASSUME NEW r \in Roots, Reauthorize(r)
          PROVE  PrunedByCompletePass
      BY <2>1 DEF Reauthorize, Forgotten, Queue, PrunedByCompletePass
    <2>2. ASSUME NEW r \in Roots, Forget(r)
          PROVE  PrunedByCompletePass
      BY <2>2 DEF Forget, Forgotten, PrunedByCompletePass
    <2> QED
      BY <1>1, <1>3, <2>1, <2>2
         DEF Requests, Receive, ReconcileEvents, RequestScan, Authorize, indexVars
  <1>4. CASE Coordinator
    <2>1. ASSUME NEW r \in Roots, NEW p \in Items, SaveRow(r, p)
          PROVE  PrunedByCompletePass
      <3>1. /\ reader[r] # None /\ reader[r] \in Tickets
            /\ Reports(reader[r], p)
        BY <1>t, <2>1 DEF SaveRow, MayPublish, TypeOK
      <3>2. Measure(reader[r].obs, p) # None
        BY <3>1, MeasureIsRow DEF Reports, Tickets
      <3>3. rows' = rows \/ rows' = Published(p, Measure(reader[r].obs, p))
        BY <2>1 DEF SaveRow
      <3> QED
        BY <1>t, <1>1, <3>2, <3>3 DEF Published, TypeOK
    <2>2. ASSUME NEW r \in Roots, FinishComplete(r) \/ FinishPartial(r) \/ HelperFails(r)
          PROVE  PrunedByCompletePass
      BY <2>2, EndOfPassPrunes DEF PrunedByCompletePass
    <2>3. CASE MaintainDerived
      BY <2>3 DEF MaintainDerived, Trims, PrunedByCompletePass
    <2> QED
      BY <1>1, <1>4, <2>1, <2>2, <2>3
         DEF Coordinator, Launch, Claim, BeginRefresh, AdmissionFails, Read, SaveProvisional,
             Park, Cancel, WorkerDone, WorkerFails, indexVars
  <1>5. CASE Cleanup
    <2>1. CASE Suppress
      BY <1>t, <2>1 DEF Suppress, TypeOK, PrunedByCompletePass, Unlocated
    <2> QED
      BY <1>1, <1>5, <2>1
         DEF Cleanup, Prepare, ReviewExpires, BeginCleanup, QueueCleaned, EndCleanup, indexVars
  <1>6. ASSUME NEW upgraded \in BOOLEAN, Restart(upgraded)
        PROVE  PrunedByCompletePass
    <2>1. CASE upgraded
      BY <1>6, <2>1 DEF Restart, PrunedByCompletePass, ClaimInv, RowsAreGranted
    <2>2. CASE ~upgraded
      BY <1>6, <2>2 DEF Restart, Trims, Recovered, PrunedByCompletePass
    <2> QED
      BY <2>1, <2>2
  <1>7. CASE UNCHANGED vars
    BY <1>1, <1>7 DEF vars, indexVars
  <1> QED
    BY <1>2, <1>3, <1>4, <1>5, <1>6, <1>7 DEF Next

-----------------------------------------------------------------------------
(* A tombstone is lifted by a new look                                     *)

LEMMA LiftedStep ==
    ASSUME TypeInv, LimitInv, ClaimInv, [Next]_vars
    PROVE  LiftedByLaterLook
  <1>t. TypeOK
    BY DEF TypeInv
  <1>1. ASSUME \A p \in Items : tomb[p] # "none" => tomb'[p] # "none"
        PROVE  LiftedByLaterLook
    BY <1>1 DEF LiftedByLaterLook
  <1>2. CASE Environment
    BY <1>1, <1>2 DEF Environment, Change, LoseHistory, indexVars
  <1>3. CASE Requests
    <2>1. ASSUME NEW r \in Roots, Reauthorize(r)
          PROVE  LiftedByLaterLook
      BY <2>1 DEF Reauthorize, Forgotten, Queue, LiftedByLaterLook
    <2>2. ASSUME NEW r \in Roots, Forget(r)
          PROVE  LiftedByLaterLook
      BY <2>2 DEF Forget, Forgotten, LiftedByLaterLook
    <2> QED
      BY <1>1, <1>3, <2>1, <2>2
         DEF Requests, Receive, ReconcileEvents, RequestScan, Authorize, indexVars
  <1>4. CASE Coordinator
    <2>1. CASE BeginRefresh
      <3> DEFINE q == Grant[admitting]
                 scope == Resolved(admitting)
                 lock == IsLockRefresh(admitting)
                 blank == [p \in Items |-> Unread]
      <3>1. q \in Roots /\ admitting \in Paths /\ scope \in Above[admitting]
        BY <1>t, <2>1, ResolvedAbove, PathsAssumption DEF BeginRefresh, TypeOK
      <3>2. lock \in BOOLEAN /\ (lock => scope \in DOMAIN LockTarget)
        BY DEF IsLockRefresh
      <3>3. reader[q] = None
        BY <2>1 DEF BeginRefresh, ClaimInv, AdmissionOwnsClaim
      <3>4. /\ tomb' = Lifted(Captured(scope, lock))
            /\ reader' = [reader EXCEPT ![q] =
                   [claimed |-> admitting, scope |-> scope, lock |-> lock,
                    was |-> q \in incomplete, obs |-> blank, sent |-> {}]]
        BY <2>1 DEF BeginRefresh
      <3> HIDE DEF q, scope, lock, blank
      <3>5. /\ reader'[q].scope = scope /\ reader'[q].lock = lock
            /\ reader'[q].obs = blank
            /\ reader'[q] = [claimed |-> admitting, scope |-> scope, lock |-> lock,
                             was |-> q \in incomplete, obs |-> blank, sent |-> {}]
        BY <1>t, <3>1, <3>4 DEF TypeOK
      <3>6. reader'[q] # None
        <4>1. /\ blank \in [Items -> Versions \cup {Unread}]
              /\ scope \in Paths /\ (q \in incomplete) \in BOOLEAN
          BY <3>1, PathsAssumption DEF blank
        <4>2. reader'[q] \in Tickets
          BY <3>1, <3>2, <3>5, <4>1 DEF Tickets
        <4> QED
          BY <4>2, NoneAssumption
      <3>7. ASSUME NEW p \in Items, tomb[p] # "none", tomb'[p] = "none"
            PROVE  p \in Captured(scope, lock) /\ Grant[p] = q
        <4>1. p \in Captured(scope, lock)
          BY <1>t, <3>4, <3>7 DEF Lifted, TypeOK
        <4>2. Grant[p] = Grant[admitting]
          BY <3>1, <3>2, <4>1, CapturedGrant DEF Items
        <4> QED
          BY <4>1, <4>2 DEF q
      <3> QED
        BY <3>3, <3>5, <3>6, <3>7 DEF LiftedByLaterLook, blank
    <2>2. ASSUME NEW r \in Roots, NEW p \in Items, SaveProvisional(r, p) \/ SaveRow(r, p)
          PROVE  LiftedByLaterLook
      <3>1. tomb' = Located(p)
        BY <2>2 DEF SaveProvisional, SaveRow
      <3> QED
        BY <1>t, <1>1, <3>1 DEF Located, TypeOK
    <2>3. ASSUME NEW r \in Roots, FinishComplete(r) \/ FinishPartial(r) \/ HelperFails(r)
          PROVE  LiftedByLaterLook
      BY <1>1, <2>3 DEF FinishComplete, FinishPartial, HelperFails, Settle
    <2> QED
      BY <1>1, <1>4, <2>1, <2>2, <2>3
         DEF Coordinator, Launch, Claim, AdmissionFails, Read, Park, Cancel, WorkerDone,
             WorkerFails, MaintainDerived, indexVars
  <1>5. CASE Cleanup
    <2>1. CASE Suppress
      BY <1>t, <1>1, <2>1 DEF Suppress, TypeOK, Unlocated
    <2> QED
      BY <1>1, <1>5, <2>1
         DEF Cleanup, Prepare, ReviewExpires, BeginCleanup, QueueCleaned, EndCleanup, indexVars
  <1>6. ASSUME NEW upgraded \in BOOLEAN, Restart(upgraded)
        PROVE  LiftedByLaterLook
    BY <1>1, <1>6 DEF Restart
  <1>7. CASE UNCHANGED vars
    BY <1>1, <1>7 DEF vars, indexVars
  <1> QED
    BY <1>2, <1>3, <1>4, <1>5, <1>6, <1>7 DEF Next

\* Rows leave the index only with a cleanup, an eviction or a change that marks
\* the grant, or a pass that read its whole scope and did not see them; a
\* tombstone falls only to a look that begins with it (begin_scope_refresh) or
\* with all the index holds of its grant.  Crashes, failed, cancelled and
\* partial passes and late batches of older helpers do neither.
THEOREM LooksDecide == Spec => OnlyLooksDecide
  <1>1. /\ TypeInv /\ LimitInv /\ ClaimInv /\ PassInv /\ [Next]_vars
        => PrunedByCompletePass /\ LiftedByLaterLook
    BY PrunedStep, LiftedStep
  <1>2. /\ TypeInv /\ LimitInv /\ ClaimInv /\ PassInv /\ [Next]_vars
        => [PrunedByCompletePass /\ LiftedByLaterLook]_vars
    BY <1>1
  <1> QED
    BY <1>2, TypeInvariant, LimitInvariant, ClaimInvariant, PassInvariant, PTL
       DEF Spec, OnlyLooksDecide

-----------------------------------------------------------------------------
(* The index keeps within its budget                                       *)

Indexed == {p \in Items : rows[p] # None}

BudgetInv == IsFiniteSet(Indexed) /\ Cardinality(Indexed) <= MaxRows

\* Losing rows, and measuring a row again, keeps the budget.
LEMMA FewerRows ==
    ASSUME BudgetInv, \A p \in Items : rows'[p] # None => rows[p] # None
    PROVE  BudgetInv'
  <1>1. Indexed' \subseteq Indexed
    BY DEF Indexed
  <1> DEFINE new == Indexed'
             old == Indexed
  <1>2. new \subseteq old /\ IsFiniteSet(old) /\ Cardinality(old) <= MaxRows
    BY <1>1 DEF BudgetInv
  <1> HIDE DEF new, old
  <1>3. IsFiniteSet(new) /\ Cardinality(new) <= Cardinality(old)
    BY <1>2, FS_Subset
  <1>4. Cardinality(new) \in Nat /\ Cardinality(old) \in Nat
    BY <1>2, <1>3, FS_CardinalityType
  <1>5. IsFiniteSet(new) /\ Cardinality(new) <= MaxRows
    BY <1>2, <1>3, <1>4, BoundAssumption
  <1> QED
    BY <1>5 DEF BudgetInv, new

\* One more row, if there was room for it.
LEMMA OneMoreRow ==
    ASSUME BudgetInv, Cardinality(Indexed) < MaxRows, NEW x \in Items,
           \A p \in Items : p # x => (rows'[p] # None => rows[p] # None)
    PROVE  BudgetInv'
  <1>1. Indexed' \subseteq Indexed \cup {x}
    BY DEF Indexed
  <1> DEFINE new == Indexed'
             old == Indexed
  <1>2. new \subseteq old \cup {x} /\ IsFiniteSet(old) /\ Cardinality(old) < MaxRows
    BY <1>1 DEF BudgetInv
  <1> HIDE DEF new, old
  <1>3. /\ IsFiniteSet(old \cup {x})
        /\ Cardinality(old \cup {x}) =
              IF x \in old THEN Cardinality(old) ELSE Cardinality(old) + 1
    BY <1>2, FS_AddElement
  <1>4. IsFiniteSet(new) /\ Cardinality(new) <= Cardinality(old \cup {x})
    BY <1>2, <1>3, FS_Subset
  <1>5. /\ Cardinality(new) \in Nat /\ Cardinality(old) \in Nat
        /\ Cardinality(old \cup {x}) \in Nat
    BY <1>2, <1>3, <1>4, FS_CardinalityType
  <1>6. IsFiniteSet(new) /\ Cardinality(new) <= MaxRows
    BY <1>2, <1>3, <1>4, <1>5, BoundAssumption
  <1> QED
    BY <1>6 DEF BudgetInv, new

LEMMA BudgetInit == Init => BudgetInv
  <1> SUFFICES ASSUME Init
               PROVE  BudgetInv
    OBVIOUS
  <1>1. Indexed = {}
    BY DEF Init, Indexed
  <1> QED
    BY <1>1, FS_EmptySet, BoundAssumption DEF BudgetInv

LEMMA BudgetStep ==
    ASSUME TypeInv, BudgetInv, [Next]_vars
    PROVE  BudgetInv'
  <1>t. TypeOK
    BY DEF TypeInv
  <1>1. ASSUME UNCHANGED rows
        PROVE  BudgetInv'
    BY <1>1, FewerRows
  <1>2. CASE Environment
    BY <1>1, <1>2 DEF Environment, Change, LoseHistory, indexVars
  <1>3. CASE Requests
    <2>1. ASSUME NEW r \in Roots, Reauthorize(r) \/ Forget(r)
          PROVE  BudgetInv'
      <3>1. \A p \in Items : rows'[p] # None => rows[p] # None
        BY <2>1 DEF Reauthorize, Forget, Forgotten
      <3> QED
        BY <3>1, FewerRows
    <2> QED
      BY <1>1, <1>3, <2>1
         DEF Requests, Receive, ReconcileEvents, RequestScan, Authorize, indexVars
  <1>4. CASE Coordinator
    <2>1. ASSUME NEW r \in Roots, NEW p \in Items, SaveRow(r, p)
          PROVE  BudgetInv'
      <3>1. \/ rows' = rows
            \/ rows' = Published(p, Measure(reader[r].obs, p)) /\ Fits(p)
        <4>1. CASE Fits(p)
          BY <2>1, <4>1 DEF SaveRow
        <4>2. CASE ~Fits(p)
          BY <2>1, <4>2 DEF SaveRow
        <4> QED
          BY <4>1, <4>2
      <3>2. CASE rows' = rows
        BY <1>1, <3>2
      <3>3. CASE rows' # rows /\ rows[p] # None
        <4>1. \A q \in Items : rows'[q] # None => rows[q] # None
          BY <1>t, <3>1, <3>3 DEF Published, TypeOK
        <4> QED
          BY <4>1, FewerRows
      <3>4. CASE rows' # rows /\ rows[p] = None
        <4>1. Cardinality(Indexed) < MaxRows
          BY <3>1, <3>4 DEF Fits, RowCount, Indexed
        <4>2. \A q \in Items : q # p => (rows'[q] # None => rows[q] # None)
          BY <1>t, <3>1, <3>4 DEF Published, TypeOK
        <4> QED
          BY <4>1, <4>2, OneMoreRow
      <3> QED
        BY <3>2, <3>3, <3>4
    <2>2. ASSUME NEW r \in Roots, FinishComplete(r) \/ FinishPartial(r) \/ HelperFails(r)
          PROVE  BudgetInv'
      <3>1. \A p \in Items : rows'[p] # None => rows[p] # None
        BY <2>2 DEF FinishComplete, FinishPartial, HelperFails, Settle, Pruned
      <3> QED
        BY <3>1, FewerRows
    <2>3. CASE MaintainDerived
      <3>1. \A p \in Items : rows'[p] # None => rows[p] # None
        BY <2>3 DEF MaintainDerived
      <3> QED
        BY <3>1, FewerRows
    <2> QED
      BY <1>1, <1>4, <2>1, <2>2, <2>3
         DEF Coordinator, Launch, Claim, BeginRefresh, AdmissionFails, Read, SaveProvisional,
             Park, Cancel, WorkerDone, WorkerFails, indexVars
  <1>5. CASE Cleanup
    <2>1. CASE Suppress
      <3>1. \A p \in Items : rows'[p] # None => rows[p] # None
        BY <1>t, <2>1 DEF Suppress, TypeOK
      <3> QED
        BY <3>1, FewerRows
    <2> QED
      BY <1>1, <1>5, <2>1
         DEF Cleanup, Prepare, ReviewExpires, BeginCleanup, QueueCleaned, EndCleanup, indexVars
  <1>6. ASSUME NEW upgraded \in BOOLEAN, Restart(upgraded)
        PROVE  BudgetInv'
    <2>1. \A p \in Items : rows'[p] # None => rows[p] # None
      BY <1>6 DEF Restart
    <2> QED
      BY <2>1, FewerRows
  <1>7. CASE UNCHANGED vars
    BY <1>1, <1>7 DEF vars, indexVars
  <1> QED
    BY <1>2, <1>3, <1>4, <1>5, <1>6, <1>7 DEF Next

\* DerivedLimits.max_candidate_rows bounds the rows that save_batch leaves in the
\* index, for every budget and every number of helpers that publish at once.
THEOREM IndexStaysWithinBudget == Spec => []WithinBudget
  <1>1. BudgetInv => WithinBudget
    BY DEF BudgetInv, WithinBudget, RowCount, Indexed
  <1> QED
    BY <1>1, BudgetInit, BudgetStep, TypeInvariant, PTL DEF Spec

-----------------------------------------------------------------------------
(* The inductive invariant, grant by grant                                 *)

\* The items that the helper of grant g looks at.
FootOf(g) == IF reader[g] = None THEN {} ELSE Foot(reader[g])

\* The index of g is answered for: nothing was missing when the open refresh, if
\* there is one, began, and that refresh has left nothing out.
Trusted(g) ==
    /\ g \in granted
    /\ IF reader[g] = None THEN g \notin incomplete
       ELSE ~reader[g].was /\ g \notin omitted

\* The end of the open refresh may make g complete.
Passing(g) ==
    /\ reader[g] # None /\ g \notin omitted
    /\ ~reader[g].was \/ reader[g].scope = g

\* Another look at p is owed by the event source or queued; or it is claimed.
Heard(p) ==
    \/ historyLost
    \/ \E x \in unheard : EventScope[x] \in Above[p]
    \/ Covered(pending, p)
Due(p) == Heard(p) \/ Covered(active, p)

\* The index is right about p, or hides it, or owes it another look; for a row,
\* a look at something inside it will do.
Accounted(p) ==
    \/ tomb[p] # "none"
    \/ rows[p] = Truth(p)
    \/ Due(p)
    \/ rows[p] # None /\ \E q \in Below(p) : Due(q)

Outside(g) == {p \in Items \ FootOf(g) : Grant[p] = g}

\* Where no helper looks now, the index is accounted for, and its rows are not
\* inside one another: a scope is widened to the one row that encloses it.
OutsideIsAccounted(g) == Trusted(g) => \A p \in Outside(g) : Accounted(p)
OutsideIsFlat(g) ==
    Trusted(g) =>
        \A p, q \in Outside(g) :
            rows[p] # None /\ rows[q] # None /\ p \in Above[q] => p = q

\* No row encloses what the helper looks at.
NothingAbove(g) ==
    Passing(g) =>
        \A p \in Items :
            p \in Above[reader[g].scope] /\ p # reader[g].scope => rows[p] = None

\* What changed behind the helper's back will be looked at again.
ReadingIsAccounted(g) ==
    Passing(g) =>
        \A q \in FootOf(g) : reader[g].obs[q] \in {Unread, disk[q]} \/ Heard(q)

\* A row that the refresh will not prune was come upon by its helper.
SeenIsReached(g) ==
    reader[g] # None =>
        \A p \in Captured(reader[g].scope, reader[g].lock) \cap Items :
            rows[p] # None /\ p \notin unseen[g] => Reached(reader[g], p)

\* What the helper reported is what the index shows.
SentIsShown(g) ==
    reader[g] # None /\ g \notin omitted =>
        \A p \in reader[g].sent :
            /\ p \in Foot(reader[g])
            /\ \A q \in Below(p) : reader[g].obs[q] # Unread
            /\ tomb[p] = "none" => rows[p] = Measure(reader[g].obs, p)

Coverage(g) ==
    /\ OutsideIsAccounted(g) /\ OutsideIsFlat(g)
    /\ NothingAbove(g) /\ ReadingIsAccounted(g)
    /\ SeenIsReached(g) /\ SentIsShown(g)

CoverageInv == \A g \in Roots : Coverage(g)

-----------------------------------------------------------------------------
(* Paths                                                                   *)

LEMMA AboveIsOrdered ==
    ASSUME NEW p \in Paths, NEW q \in Above[p]
    PROVE  q \in Paths /\ Grant[q] = Grant[p] /\ Above[q] \subseteq Above[p]
  BY PathsAssumption

LEMMA AboveIsChain ==
    ASSUME NEW p \in Paths, NEW x \in Above[p], NEW y \in Above[p]
    PROVE  x \in Above[y] \/ y \in Above[x]
  <1> DEFINE S == {x, y}
  <1>1. S \in (SUBSET Above[p]) \ {{}}
    OBVIOUS
  <1>2. \A T \in (SUBSET Above[p]) \ {{}} : \E top \in T : \A q \in T : top \in Above[q]
    BY PathsAssumption
  <1> HIDE DEF S
  <1>3. PICK top \in S : \A q \in S : top \in Above[q]
    BY <1>1, <1>2
  <1> QED
    BY <1>3 DEF S

LEMMA AboveIsStrict ==
    ASSUME NEW p \in Paths, NEW q \in Paths, p \in Above[q], q \in Above[p]
    PROVE  p = q
  BY PathsAssumption

LEMMA OneGrantCovers ==
    ASSUME NEW p \in Paths, NEW q \in Paths, Grant[q] # Grant[p]
    PROVE  q \notin Above[p]
  BY PathsAssumption

\* Tickets of refreshes: the scope of a lock refresh is a Cargo.lock.
Usable(rd) == rd \in Tickets /\ (rd.lock => rd.scope \in DOMAIN LockTarget)

\* A helper that looks at a path looks at everything inside it.
LEMMA FootIsDeep ==
    ASSUME NEW rd, Usable(rd), NEW p \in Foot(rd), NEW q \in Below(p)
    PROVE  q \in Foot(rd)
  <1>1. p \in Items /\ q \in Items
    BY BelowItems DEF Foot
  <1>2. p \in Above[q] /\ Above[p] \subseteq Above[q]
    BY PathsAssumption DEF Below
  <1> QED
    BY <1>1, <1>2 DEF Foot, Footprint, Below

\* What lies above the helper's paths lies above its scope.
LEMMA AboveFoot ==
    ASSUME NEW rd, Usable(rd), NEW p \in Foot(rd), NEW a \in Above[p], a \in Items,
           a \notin Foot(rd)
    PROVE  a \in Above[rd.scope] /\ a # rd.scope
  <1> DEFINE scope == rd.scope
             target == LockTarget[scope]
  <1>1. p \in Paths /\ a \in Paths /\ scope \in Paths
    BY DEF Foot, Items, Usable, Tickets
  <1>2. scope \notin Above[a]
    BY <1>1 DEF Foot, Footprint, Below
  <1>3. scope \in Above[p] \/ (rd.lock /\ target \in Above[p])
    BY DEF Foot, Footprint, Below
  <1>4. rd.lock => target \notin Above[a]
    BY <1>1 DEF Foot, Footprint, Below
  <1>5. rd.lock => target \in Paths /\ Above[target] \ {target} = Above[scope] \ {scope}
    BY ScopeAssumption, NearestAssumption DEF Usable
  <1>6. \A x \in Paths : x \in Above[x]
    BY PathsAssumption
  <1> HIDE DEF scope, target
  <1>7. CASE scope \in Above[p]
    <2>1. a \in Above[scope]
      BY <1>1, <1>2, <1>7, AboveIsChain
    <2> QED
      BY <1>1, <1>2, <1>6, <2>1 DEF scope
  <1>8. CASE rd.lock /\ target \in Above[p]
    <2>1. a \in Above[target] /\ a # target
      BY <1>1, <1>4, <1>5, <1>6, <1>8, AboveIsChain
    <2> QED
      BY <1>5, <1>8, <2>1 DEF scope
  <1> QED
    BY <1>3, <1>7, <1>8

\* What lies above the scope is not looked at.
LEMMA AboveScope ==
    ASSUME NEW rd, Usable(rd), NEW a \in Above[rd.scope], a # rd.scope
    PROVE  a \notin Foot(rd)
  <1> DEFINE scope == rd.scope
             target == LockTarget[scope]
  <1>1. scope \in Paths /\ a \in Paths
    BY PathsAssumption DEF Usable, Tickets
  <1>2. scope \notin Above[a]
    BY <1>1, AboveIsStrict
  <1>3. rd.lock => target \notin Above[a]
    <2>1. rd.lock => target \in Paths /\ a \in Above[target] /\ a # target
      BY ScopeAssumption, NearestAssumption DEF Usable
    <2> QED
      BY <1>1, <2>1, AboveIsStrict
  <1> QED
    BY <1>2, <1>3 DEF Foot, Footprint, Below

\* A helper that has a grant's folder for its scope looks at all of it.
LEMMA RootFoot ==
    ASSUME NEW rd, Usable(rd), NEW r \in Roots, rd.scope = r,
           NEW p \in Items, Grant[p] = r
    PROVE  p \in Foot(rd)
  <1>1. r \in Above[p] /\ p \in Paths
    BY PathsAssumption DEF Items
  <1> QED
    BY <1>1 DEF Foot, Footprint, Below

\* The nearest row above s, if no two rows of its grant are inside one another.
LEMMA EnclosingRow ==
    ASSUME NEW s \in Paths, NEW p \in Items, rows[p] # None, p \in Above[s], p # s,
           \A x, y \in Items : /\ Grant[x] = Grant[s] /\ Grant[y] = Grant[s]
                               /\ rows[x] # None /\ rows[y] # None /\ x \in Above[y]
                               => x = y
    PROVE  Resolved(s) = Normal[p]
  <1> DEFINE S == IF s \in DOMAIN LockTarget THEN Above[s] \ {s} ELSE Above[s]
             R == {q \in S \cap Items : rows[q] # None}
             near == NearestRow(S)
  <1>1. p \in R /\ R \subseteq Above[s]
    OBVIOUS
  <1>2. PICK n \in R : R \subseteq Above[n]
    <2>1. R \in (SUBSET Above[s]) \ {{}}
      BY <1>1
    <2> HIDE DEF R
    <2> QED
      BY <2>1, NearestAssumption
  <1>3. n \in near
    BY <1>2 DEF NearestRow
  <1>4. ASSUME NEW m \in near
        PROVE  m = p
    <2>1. m \in R /\ p \in Above[m]
      BY <1>1, <1>4 DEF NearestRow
    <2>2. m \in Paths /\ Grant[m] = Grant[s] /\ Grant[p] = Grant[s]
      BY <1>1, <2>1, AboveIsOrdered
    <2> QED
      BY <2>1, <2>2
  <1>5. (CHOOSE q \in near : TRUE) = p
    <2> HIDE DEF near
    <2>1. (CHOOSE q \in near : TRUE) \in near
      BY <1>3
    <2> QED
      BY <1>4, <2>1
  <1> QED
    BY <1>3, <1>5 DEF Resolved

-----------------------------------------------------------------------------
(* Steps that leave a grant alone                                          *)

\* The helper of r, if it has one, looks at its claim.
LEMMA ReaderIsUsable ==
    ASSUME TypeOK, ClaimInv, NEW r \in Roots, reader[r] # None
    PROVE  /\ Usable(reader[r]) /\ reader[r].claimed \in Paths
           /\ reader[r].scope \in Above[reader[r].claimed]
           /\ Grant[reader[r].claimed] = r
           /\ r \in granted /\ r \in incomplete
  BY DEF TypeOK, ClaimInv, ReaderLooksAtClaim, ReaderOwnsClaim, Usable, Tickets

\* A helper looks only at paths of its grant.
LEMMA FootIsOfGrant ==
    ASSUME TypeOK, ClaimInv, NEW r \in Roots, reader[r] # None, NEW p \in Foot(reader[r])
    PROVE  p \in Items /\ Grant[p] = r
  <1> DEFINE claim == reader[r].claimed
             scope == reader[r].scope
             lock == reader[r].lock
  <1>1. /\ claim \in Paths /\ scope \in Above[claim] /\ lock \in BOOLEAN
        /\ lock => scope \in DOMAIN LockTarget
        /\ Grant[claim] = r
    BY ReaderIsUsable DEF Usable, Tickets
  <1>2. p \in Items /\ p \in Paths /\ p \in Captured(scope, lock)
    BY DEF Foot, Captured, Items
  <1> HIDE DEF claim, scope, lock
  <1> QED
    BY <1>1, <1>2, CapturedGrant

\* What is true of p is decided by what is above and inside it.
LEMMA TruthIsLocal ==
    ASSUME NEW p \in Items,
           \A q \in (Above[p] \cap Items) \cup Below(p) : disk'[q] = disk[q]
    PROVE  Truth(p)' = Truth(p)
  <1>1. p \in Above[p]
    BY PathsAssumption DEF Items
  <1>2. Visible(disk', p, Items) <=> Visible(disk, p, Items)
    BY <1>1 DEF Visible
  <1>3. Measure(disk', p) = Measure(disk, p)
    BY DEF Measure
  <1> QED
    BY <1>2, <1>3 DEF Truth, Visible, Measure, Below

\* Nothing that this grant's coverage depends on changes for the worse.
Undisturbed(g) ==
    /\ reader'[g] = reader[g]
    /\ reader[g] # None => unseen'[g] = unseen[g] /\ (g \in omitted' <=> g \in omitted)
    /\ Trusted(g)' => Trusted(g)
    /\ \A p \in Items : Grant[p] = g =>
        /\ rows'[p] = rows[p] /\ disk'[p] = disk[p]
        /\ tomb[p] # "none" => tomb'[p] # "none"
        /\ Trusted(g) /\ Due(p) => Due(p)'
        /\ reader[g] # None /\ Heard(p) => Heard(p)'

LEMMA UndisturbedCoverage ==
    ASSUME TypeOK, ClaimInv, NEW g \in Roots, Coverage(g), Undisturbed(g)
    PROVE  Coverage(g)'
  <1>1. FootOf(g)' = FootOf(g) /\ Outside(g)' = Outside(g)
    BY DEF Undisturbed, FootOf, Outside, Foot, Footprint, Below
  <1>2. Passing(g)' => Passing(g)
    BY DEF Undisturbed, Passing
  <1>3. OutsideIsAccounted(g)'
    <2> SUFFICES ASSUME Trusted(g)', NEW p \in Outside(g)
                 PROVE  Accounted(p)'
      BY <1>1 DEF OutsideIsAccounted
    <2>1. Trusted(g) /\ p \in Items /\ Grant[p] = g
      BY DEF Undisturbed, Outside
    <2>2. Accounted(p)
      BY <2>1 DEF Coverage, OutsideIsAccounted
    <2>3. \A q \in (Above[p] \cap Items) \cup Below(p) : q \in Items /\ Grant[q] = g
      BY <2>1, BelowItems, PathsAssumption DEF Below, Items
    <2>4. Truth(p)' = Truth(p)
      BY <2>1, <2>3, TruthIsLocal DEF Undisturbed
    <2>5. /\ rows'[p] = rows[p]
          /\ tomb[p] # "none" => tomb'[p] # "none"
          /\ Due(p) => Due(p)'
          /\ \A q \in Below(p) : Due(q) => Due(q)'
      BY <2>1, <2>3 DEF Undisturbed
    <2>6. CASE rows[p] # None /\ \E q \in Below(p) : Due(q)
      <3>1. PICK q \in Below(p) : Due(q)
        BY <2>6
      <3>2. Due(q)' /\ rows'[p] # None
        BY <2>5, <2>6, <3>1
      <3> QED
        BY <3>2 DEF Accounted, Below
    <2>7. CASE tomb[p] # "none" \/ rows[p] = Truth(p) \/ Due(p)
      BY <2>4, <2>5, <2>7 DEF Accounted
    <2> QED
      BY <2>2, <2>6, <2>7 DEF Accounted
  <1>4. OutsideIsFlat(g)'
    <2>1. \A p \in Outside(g) : p \in Items /\ rows'[p] = rows[p]
      BY DEF Undisturbed, Outside
    <2> QED
      BY <1>1, <2>1 DEF Undisturbed, Coverage, OutsideIsFlat
  <1>5. CASE reader[g] = None
    BY <1>3, <1>4, <1>5 DEF Undisturbed, Coverage, NothingAbove, ReadingIsAccounted,
       SeenIsReached, SentIsShown, Passing
  <1>6. CASE reader[g] # None
    <2> DEFINE rd == reader[g]
    <2>1. Usable(rd) /\ rd.scope \in Paths /\ Grant[rd.scope] = g
      BY <1>6, ReaderIsUsable, AboveIsOrdered
    <2>2. \A p \in Foot(rd) : p \in Items /\ Grant[p] = g
      BY <1>6, FootIsOfGrant
    <2>3. reader'[g] = rd /\ FootOf(g) = Foot(rd)
      BY <1>6 DEF Undisturbed, FootOf
    <2>4. NothingAbove(g)'
      <3>1. \A p \in Items : p \in Above[rd.scope] => Grant[p] = g
        BY <2>1, PathsAssumption
      <3> QED
        BY <1>2, <2>3, <3>1 DEF Undisturbed, Coverage, NothingAbove
    <2>5. ReadingIsAccounted(g)'
      <3>1. \A q \in Foot(rd) : disk'[q] = disk[q] /\ (Heard(q) => Heard(q)')
        BY <1>6, <2>2 DEF Undisturbed
      <3> QED
        BY <1>1, <1>2, <2>3, <3>1 DEF Coverage, ReadingIsAccounted
    <2>6. SeenIsReached(g)'
      <3>1. \A p \in Captured(rd.scope, rd.lock) \cap Items : rows'[p] = rows[p]
        <4> DEFINE claim == rd.claimed
                   scope == rd.scope
                   lock == rd.lock
        <4>1. /\ claim \in Paths /\ scope \in Above[claim] /\ lock \in BOOLEAN
              /\ lock => scope \in DOMAIN LockTarget
              /\ Grant[claim] = g
          BY <1>6, ReaderIsUsable DEF Usable, Tickets
        <4> HIDE DEF claim, scope, lock
        <4>2. \A p \in Captured(scope, lock) \cap Items : Grant[p] = g
          BY <4>1, CapturedGrant DEF Items
        <4> QED
          BY <4>2 DEF Undisturbed, scope, lock
      <3>2. unseen'[g] = unseen[g]
        BY <1>6 DEF Undisturbed
      <3> QED
        BY <1>6, <2>3, <3>1, <3>2
           DEF Coverage, SeenIsReached, Captured, Footprint, Below, Reached, InReadScope, Foot,
               Visible
    <2>7. SentIsShown(g)'
      <3>1. \A p \in Foot(rd) : rows'[p] = rows[p] /\ (tomb[p] # "none" => tomb'[p] # "none")
        BY <2>2 DEF Undisturbed
      <3>2. g \notin omitted' => g \notin omitted
        BY <1>6 DEF Undisturbed
      <3> QED
        BY <1>6, <2>3, <3>1, <3>2
           DEF Coverage, SentIsShown, Foot, Footprint, Below, Measure
    <2> QED
      BY <1>3, <1>4, <2>4, <2>5, <2>6, <2>7 DEF Coverage
  <1> QED
    BY <1>5, <1>6

\* Of an incomplete grant without a refresh nothing is claimed.
LEMMA UnansweredCoverage ==
    ASSUME NEW g \in Roots, reader'[g] = None, g \in incomplete' \/ g \notin granted'
    PROVE  Coverage(g)'
  BY DEF Coverage, OutsideIsAccounted, OutsideIsFlat, NothingAbove, ReadingIsAccounted,
         SeenIsReached, SentIsShown, Trusted, Passing

\* Another look that is owed stays owed while the queue takes in a batch.
LEMMA QueueKeepsLooks ==
    ASSUME pending \in SUBSET Paths, NEW S \in SUBSET Paths, NEW p \in Paths,
           UNCHANGED <<historyLost, unheard>>, pending' = EnqueuedAll(pending, S), Heard(p)
    PROVE  Heard(p)'
  <1>1. Covered(pending, p) => Covered(EnqueuedAll(pending, S), p)
    BY EnqueuedAllCovers
  <1> QED
    BY <1>1 DEF Heard, Covered

\* Recovery queues every scope that was queued or claimed.
LEMMA RecoveryKeepsLooks ==
    ASSUME TypeOK, ClaimInv, NEW also, Recovered(also), UNCHANGED <<historyLost, unheard>>,
           NEW p \in Paths, Due(p)
    PROVE  Heard(p)'
  <1>1. CASE Covered(pending \cup active, p)
    <2>1. PICK s \in pending \cup active : s \in Above[p]
      BY <1>1 DEF Covered
    <2>2. active \subseteq Owed /\ Owed \in SUBSET Paths /\ pending \in SUBSET Paths
      BY DEF Owed, ClaimInv, ScopesAreGranted, TypeOK
    <2>3. Covered(EnqueuedAll(pending, Owed), p)
      BY <2>1, <2>2, EnqueuedAllCovers DEF Covered
    <2>4. PICK q \in EnqueuedAll(pending, Owed) : q \in Above[p]
      BY <2>3 DEF Covered
    <2>5. Grant[q] = Grant[p] /\ Grant[s] = Grant[p]
      BY <2>1, <2>4, PathsAssumption
    <2>6. Grant[q] \in granted
      BY <2>1, <2>5 DEF ClaimInv, ScopesAreGranted
    <2>7. q \in pending'
      BY <2>4, <2>6 DEF Recovered, Queue
    <2> QED
      BY <2>4, <2>7 DEF Heard, Covered
  <1>2. CASE ~Covered(pending \cup active, p)
    BY <1>2 DEF Due, Heard, Covered
  <1> QED
    BY <1>1, <1>2

-----------------------------------------------------------------------------
(* A change on disk                                                        *)

\* What a change makes untrue of the index is owed another look.
LEMMA ChangeKeepsAccounts ==
    ASSUME TypeOK, NEW c \in Items, NEW v \in Versions, Change(c, v),
           NEW p \in Items, Accounted(p)
    PROVE  Accounted(p)'
  <1> DEFINE e == EventScope[c]
  <1>1. /\ disk' = [disk EXCEPT ![c] = v] /\ unheard' = unheard \cup {c}
        /\ UNCHANGED <<historyLost, pending, active, rows, tomb>>
    BY DEF Change, queueVars, claimVars, indexVars
  <1>2. /\ c \in Paths /\ p \in Paths /\ e \in Above[c]
        /\ c \in Above[c] /\ p \in Above[p]
    BY PathsAssumption, ScopeAssumption DEF Items
  <1>3. \A q : Due(q) => Due(q)'
    BY <1>1 DEF Due, Heard, Covered
  <1>4. \A q \in Paths : e \in Above[q] => Due(q)'
    BY <1>1 DEF Due, Heard
  <1> HIDE DEF e
  <1>5. CASE c \in Above[p]
    <2>1. e \in Above[p]
      BY <1>2, <1>5, AboveIsOrdered
    <2> QED
      BY <1>2, <1>4, <2>1 DEF Accounted
  <1>6. CASE c \notin Above[p] /\ p \notin Above[c]
    <2>1. \A q \in (Above[p] \cap Items) \cup Below(p) : disk'[q] = disk[q]
      BY <1>1, <1>6 DEF Below, TypeOK
    <2>2. Truth(p)' = Truth(p)
      BY <2>1, TruthIsLocal
    <2>3. CASE rows[p] # None /\ \E q \in Below(p) : Due(q)
      <3>1. PICK q \in Below(p) : Due(q)
        BY <2>3
      <3>2. Due(q)' /\ rows'[p] # None
        BY <1>1, <1>3, <2>3, <3>1
      <3> QED
        BY <3>2 DEF Accounted, Below
    <2>4. CASE tomb[p] # "none" \/ rows[p] = Truth(p) \/ Due(p)
      BY <1>1, <1>3, <2>2, <2>4 DEF Accounted
    <2> QED
      BY <2>3, <2>4 DEF Accounted
  <1>7. CASE c \notin Above[p] /\ p \in Above[c]
    <2>1. CASE rows[p] # None
      <3>1. c \in Below(p) /\ Due(c)'
        BY <1>2, <1>4, <1>7 DEF Below
      <3> QED
        BY <1>1, <2>1, <3>1 DEF Accounted, Below
    <2>2. CASE rows[p] = None /\ rows[p] = Truth(p)
      <3>1. Below(p) \subseteq Items /\ disk \in [Items -> Versions \cup {Unread}]
            /\ \A q \in Below(p) : disk[q] # Unread
        BY BelowItems DEF TypeOK, Versions, Unread
      <3>2. Measure(disk, p) # None
        BY <3>1, MeasureIsRow
      <3>3. ~Visible(disk, p, Items)
        BY <2>2, <3>2 DEF Truth
      <3>4. \A q \in Above[p] \cap Items : disk'[q] = disk[q]
        BY <1>1, <1>7 DEF TypeOK
      <3>5. ~Visible(disk', p, Items)
        BY <1>2, <3>3, <3>4 DEF Visible
      <3>6. Truth(p)' = None
        BY <3>5 DEF Truth, Visible
      <3> QED
        BY <1>1, <2>2, <3>6 DEF Accounted
    <2>3. CASE tomb[p] # "none" \/ Due(p)
      BY <1>1, <1>3, <2>3 DEF Accounted
    <2> QED
      BY <2>1, <2>2, <2>3 DEF Accounted
  <1> QED
    BY <1>5, <1>6, <1>7

LEMMA ChangeKeepsCoverage ==
    ASSUME TypeOK, ClaimInv, NEW c \in Items, NEW v \in Versions, Change(c, v),
           NEW g \in Roots, Coverage(g)
    PROVE  Coverage(g)'
  <1>1. /\ disk' = [disk EXCEPT ![c] = v] /\ unheard' = unheard \cup {c}
        /\ UNCHANGED <<historyLost, granted, pending, active, rows, tomb, unseen, omitted,
                       incomplete, reader>>
    BY DEF Change, queueVars, claimVars, indexVars, engineVars
  <1>2. FootOf(g)' = FootOf(g) /\ Outside(g)' = Outside(g)
    BY <1>1 DEF FootOf, Outside, Foot, Footprint, Below
  <1>3. /\ Trusted(g)' <=> Trusted(g)
        /\ Passing(g)' <=> Passing(g)
    BY <1>1 DEF Trusted, Passing
  <1>4. OutsideIsAccounted(g)'
    <2> SUFFICES ASSUME Trusted(g), NEW p \in Outside(g)
                 PROVE  Accounted(p)'
      BY <1>2, <1>3 DEF OutsideIsAccounted
    <2>1. p \in Items /\ Accounted(p)
      BY DEF Outside, Coverage, OutsideIsAccounted
    <2> QED
      BY <2>1, ChangeKeepsAccounts
  <1>5. OutsideIsFlat(g)' /\ NothingAbove(g)'
    BY <1>1, <1>2, <1>3 DEF Coverage, OutsideIsFlat, NothingAbove
  <1>6. ReadingIsAccounted(g)'
    <2> SUFFICES ASSUME Passing(g), NEW q \in FootOf(g)
                 PROVE  reader[g].obs[q] \in {Unread, disk'[q]} \/ Heard(q)'
      BY <1>1, <1>2, <1>3 DEF ReadingIsAccounted
    <2>1. Heard(q) => Heard(q)'
      BY <1>1 DEF Heard, Covered
    <2>2. q = c => Heard(q)'
      BY <1>1, ScopeAssumption DEF Heard, Items
    <2>3. q \in Items
      BY DEF FootOf, Foot
    <2>4. q # c => disk'[q] = disk[q]
      BY <1>1, <2>3 DEF TypeOK
    <2>5. reader[g].obs[q] \in {Unread, disk[q]} \/ Heard(q)
      BY DEF Coverage, ReadingIsAccounted
    <2> QED
      BY <2>1, <2>2, <2>4, <2>5
  <1>7. SeenIsReached(g)' /\ SentIsShown(g)'
    BY <1>1 DEF Coverage, SeenIsReached, SentIsShown, Captured, Footprint, Below, Reached,
       InReadScope, Foot, Visible, Measure
  <1> QED
    BY <1>4, <1>5, <1>6, <1>7 DEF Coverage

-----------------------------------------------------------------------------
(* A refresh begins                                                        *)

\* No cleanup hides a row while a scope is admitted.
AdmissionAlone == admitting # None => cleanup = "none"

\* A scope is widened beyond every row that encloses it.
LEMMA NothingEncloses ==
    ASSUME NEW s \in Paths,
           \A x, y \in Items : /\ Grant[x] = Grant[s] /\ Grant[y] = Grant[s]
                               /\ rows[x] # None /\ rows[y] # None /\ x \in Above[y]
                               => x = y,
           NEW p \in Items, p \in Above[Resolved(s)], p # Resolved(s)
    PROVE  rows[p] = None
  <1> SUFFICES ASSUME rows[p] # None
               PROVE  FALSE
    OBVIOUS
  <1> DEFINE scope == Resolved(s)
  <1>1. scope \in Above[s] /\ scope \in Paths /\ p \in Paths
    BY ResolvedAbove, AboveIsOrdered DEF Items
  <1>2. p \in Above[s]
    BY <1>1, PathsAssumption
  <1>3. scope \notin Above[p]
    BY <1>1, AboveIsStrict
  <1>4. p # s
    BY <1>1, <1>3
  <1>5. scope = Normal[p]
    BY <1>2, <1>4, EnclosingRow
  <1> QED
    BY <1>1, <1>3, <1>5, ScopeAssumption

LEMMA BeginKeepsCoverage ==
    ASSUME TypeInv, ClaimInv, OwedInv, AdmissionAlone, BeginRefresh,
           NEW g \in Roots, g = Grant[admitting], Coverage(g)
    PROVE  Coverage(g)'
  <1> DEFINE claim == admitting
             scope == Resolved(claim)
             lock == IsLockRefresh(claim)
             rd == reader'[g]
             taken == Footprint(scope, lock)
  <1>t. TypeOK
    BY DEF TypeInv
  <1>1. /\ claim \in Paths /\ claim \in active /\ reader[g] = None /\ g \in granted
        /\ cleanup = "none"
    BY <1>t DEF BeginRefresh, ClaimInv, AdmissionOwnsClaim, ScopesAreGranted, TypeOK,
       AdmissionAlone
  <1>2. scope \in Above[claim] /\ scope \in Paths /\ (lock => scope \in DOMAIN LockTarget)
    BY <1>1, ResolvedAbove, AboveIsOrdered DEF IsLockRefresh
  <1>3. rd = [claimed |-> claim, scope |-> scope, lock |-> lock, was |-> g \in incomplete,
              obs |-> [q \in Items |-> Unread], sent |-> {}]
    BY <1>t DEF BeginRefresh, TypeOK
  <1>4. /\ UNCHANGED <<historyLost, unheard, granted, active, rows, omitted>>
        /\ pending' = pending \ taken
        /\ tomb' = Lifted(Captured(scope, lock))
        /\ unseen'[g] = {q \in Captured(scope, lock) \cap Items : rows[q] # None}
    BY <1>t DEF BeginRefresh, Queue, fsVars, TypeOK
  <1>5. rd \in Tickets /\ rd # None /\ Usable(rd)
    <2>1. lock \in BOOLEAN /\ (g \in incomplete) \in BOOLEAN
      BY DEF IsLockRefresh
    <2>2. [q \in Items |-> Unread] \in [Items -> Versions \cup {Unread}]
      OBVIOUS
    <2> HIDE DEF claim, scope, lock, rd
    <2>3. rd \in Tickets
      BY <1>1, <1>2, <1>3, <2>1, <2>2 DEF Tickets
    <2>4. rd.lock = lock /\ rd.scope = scope
      BY <1>3
    <2> QED
      BY <1>2, <2>3, <2>4, NoneAssumption DEF Usable
  <1>6. /\ rd.claimed = claim /\ rd.scope = scope /\ rd.lock = lock
        /\ rd.was <=> g \in incomplete
        /\ rd.sent = {}
        /\ \A q \in Items : rd.obs[q] = Unread
    <2> HIDE DEF claim, scope, lock, rd
    <2> QED
      BY <1>3
  <1>7. /\ FootOf(g) = {} /\ FootOf(g)' = Foot(rd)
        /\ Trusted(g)' => Trusted(g)
        /\ Passing(g)' => Trusted(g) \/ scope = g
    BY <1>1, <1>4, <1>5, <1>6 DEF FootOf, Trusted, Passing, Foot, Footprint, Below
  <1>8. /\ \A p \in Items : Grant[p] = g <=> p \in Outside(g)
        /\ \A p \in Outside(g)' : p \in Items /\ Grant[p] = g /\ p \notin Foot(rd)
    BY <1>7 DEF Outside
  <1>9. Foot(rd) = taken \cap Items
    BY <1>6 DEF Foot
  <1> HIDE DEF rd
  <1>10. ASSUME Trusted(g), NEW p \in Items, p \in Above[scope], p # scope
         PROVE  rows[p] = None
    <2>1. \A x, y \in Items : /\ Grant[x] = Grant[claim] /\ Grant[y] = Grant[claim]
                               /\ rows[x] # None /\ rows[y] # None /\ x \in Above[y]
                               => x = y
      BY <1>8, <1>10 DEF Coverage, OutsideIsFlat
    <2> HIDE DEF claim
    <2> QED
      BY <1>1, <1>10, <2>1, NothingEncloses
  <1>11. NothingAbove(g)'
    <2>1. scope = g => \A p \in Items : p \in Above[scope] => p = scope
      BY PathsAssumption
    <2> QED
      BY <1>4, <1>6, <1>7, <1>10, <2>1 DEF NothingAbove, rd
  <1>12. OutsideIsFlat(g)'
    BY <1>4, <1>7, <1>8 DEF Coverage, OutsideIsFlat
  <1>13. OutsideIsAccounted(g)'
    <2> SUFFICES ASSUME Trusted(g), NEW p \in Items, Grant[p] = g, p \notin taken
                 PROVE  Accounted(p)'
      BY <1>7, <1>8, <1>9 DEF OutsideIsAccounted
    <2>1. p \in Paths /\ p \in Above[p] /\ taken \subseteq Paths
      BY PathsAssumption DEF Items, Footprint, Below
    <2>2. \A s \in taken : s \notin Above[p]
      BY <2>1, PathsAssumption DEF Footprint, Below
    <2>3. Due(p) => Due(p)'
      BY <1>4, <2>2 DEF Due, Heard, Covered
    <2>4. Accounted(p)
      BY <1>8 DEF Coverage, OutsideIsAccounted
    <2>5. CASE tomb[p] # "none"
      <3>1. Covered(pending \cup active, p)
        BY <1>1, <2>5 DEF OwedInv, BetweenTransactions
      <3> QED
        BY <1>4, <2>2, <3>1 DEF Accounted, Due, Heard, Covered
    <2>6. CASE rows[p] = Truth(p)
      <3>1. Truth(p)' = Truth(p)
        <4>1. disk' = disk
          BY DEF BeginRefresh, fsVars
        <4> QED
          BY <4>1 DEF Truth, Visible, Measure, Below
      <3> QED
        BY <1>4, <2>6, <3>1 DEF Accounted
    <2>7. CASE rows[p] # None /\ \E x \in Below(p) : Due(x)
      <3>1. PICK x \in Below(p) : Due(x)
        BY <2>7
      <3>2. CASE Due(x)'
        BY <1>4, <2>7, <3>2 DEF Accounted, Below
      <3>3. CASE ~Due(x)'
        <4>1. PICK s \in taken : s \in Above[x]
          BY <1>4, <3>1, <3>3 DEF Due, Heard, Covered
        <4>2. x \in taken
          BY <2>1, <4>1, PathsAssumption DEF Footprint, Below
        <4>3. x \in Items /\ x \in Foot(rd) /\ p \in Above[x] /\ p \notin Foot(rd)
          BY <1>9, <4>2, BelowItems DEF Below
        <4>4. p \in Above[rd.scope] /\ p # rd.scope
          BY <1>5, <4>3, AboveFoot
        <4> QED
          BY <1>6, <1>10, <2>7, <4>4
      <3> QED
        BY <3>2, <3>3
    <2> QED
      BY <2>3, <2>4, <2>5, <2>6, <2>7 DEF Accounted
  <1>14. ReadingIsAccounted(g)'
    <2>1. \A q \in Foot(rd) : q \in Items
      BY DEF Foot
    <2> QED
      BY <1>6, <1>7, <2>1 DEF ReadingIsAccounted, rd
  <1>15. SeenIsReached(g)'
    <2>1. \A p \in Captured(scope, lock) \cap Items : rows'[p] # None => p \in unseen'[g]
      BY <1>4
    <2> QED
      BY <1>6, <2>1 DEF SeenIsReached, Captured, Footprint, Below, rd
  <1>16. SentIsShown(g)'
    BY <1>6 DEF SentIsShown, rd
  <1> QED
    BY <1>11, <1>12, <1>13, <1>14, <1>15, <1>16 DEF Coverage

-----------------------------------------------------------------------------
(* A helper looks and reports                                              *)

\* A path that the traversal came to was looked at.
LEMMA ReachedIsRead ==
    ASSUME NEW rd \in Tickets, NEW p \in Items, Reached(rd, p)
    PROVE  p \in Foot(rd) /\ rd.obs[p] # Unread /\ Visible(rd.obs, p, Foot(rd))
  <1>1. p \in Foot(rd)
    BY ReadScopeIsRead DEF Reached
  <1>2. p \in Above[p]
    BY PathsAssumption DEF Items
  <1> QED
    BY <1>1, <1>2 DEF Reached

LEMMA ReadKeepsCoverage ==
    ASSUME TypeOK, ClaimInv, NEW g \in Roots, NEW c \in Items, Read(g, c), Coverage(g)
    PROVE  Coverage(g)'
  <1> DEFINE rd == reader[g]
             new == [rd EXCEPT !.obs[c] = disk[c]]
  <1>1. /\ rd # None /\ rd \in Tickets /\ c \in Foot(rd) /\ rd.obs[c] = Unread
        /\ reader'[g] = new
        /\ UNCHANGED <<disk, unheard, historyLost, granted, pending, active, rows, tomb,
                       unseen, omitted, incomplete>>
    BY DEF Read, fsVars, queueVars, claimVars, indexVars, TypeOK
  <1>2. /\ new.scope = rd.scope /\ new.lock = rd.lock /\ new.was = rd.was
        /\ new.sent = rd.sent
        /\ new.obs = [rd.obs EXCEPT ![c] = disk[c]]
        /\ new.obs[c] = disk[c]
        /\ \A q \in Items : q # c => new.obs[q] = rd.obs[q]
    BY <1>1 DEF Tickets
  <1> HIDE DEF new
  <1>3. new \in Tickets /\ new # None
    <2>1. reader'[g] = [reader[g] EXCEPT !.obs[c] = disk[c]]
      BY <1>1 DEF new
    <2>2. [rd EXCEPT !.obs[c] = disk[c]] \in Tickets
      BY <1>1 DEF TypeOK, Tickets
    <2> QED
      BY <2>2, NoneAssumption DEF new
  <1>4. Foot(new) = Foot(rd) /\ FootOf(g) = Foot(rd) /\ FootOf(g)' = Foot(rd)
    BY <1>1, <1>2, <1>3 DEF FootOf, Foot, Footprint, Below
  <1>5. /\ Outside(g)' = Outside(g)
        /\ Trusted(g)' <=> Trusted(g)
        /\ Passing(g)' <=> Passing(g)
    BY <1>1, <1>2, <1>3, <1>4 DEF Outside, Trusted, Passing
  <1>6. \A q : (Heard(q)' <=> Heard(q)) /\ (Due(q)' <=> Due(q))
    BY <1>1 DEF Due, Heard, Covered
  <1>7. OutsideIsAccounted(g)' /\ OutsideIsFlat(g)'
    <2>1. \A p \in Items : Accounted(p) => Accounted(p)'
      <3> SUFFICES ASSUME NEW p \in Items, Accounted(p)
                   PROVE  Accounted(p)'
        OBVIOUS
      <3>1. Truth(p)' = Truth(p)
        BY <1>1 DEF Truth, Visible, Measure, Below
      <3>2. CASE rows[p] # None /\ \E q \in Below(p) : Due(q)
        BY <1>1, <1>6, <3>2 DEF Accounted, Below
      <3>3. CASE tomb[p] # "none" \/ rows[p] = Truth(p) \/ Due(p)
        BY <1>1, <1>6, <3>1, <3>3 DEF Accounted
      <3> QED
        BY <3>2, <3>3 DEF Accounted
    <2>2. Outside(g) \subseteq Items
      BY DEF Outside
    <2> QED
      BY <1>1, <1>5, <2>1, <2>2 DEF Coverage, OutsideIsAccounted, OutsideIsFlat
  <1>8. NothingAbove(g)'
    BY <1>1, <1>2, <1>5 DEF Coverage, NothingAbove
  <1>9. ReadingIsAccounted(g)'
    <2> SUFFICES ASSUME Passing(g), NEW q \in Foot(rd)
                 PROVE  new.obs[q] \in {Unread, disk[q]} \/ Heard(q)'
      BY <1>1, <1>4, <1>5 DEF ReadingIsAccounted
    <2>1. rd.obs[q] \in {Unread, disk[q]} \/ Heard(q)
      BY <1>4 DEF Coverage, ReadingIsAccounted
    <2>2. q \in Items
      BY DEF Foot
    <2> QED
      BY <1>2, <1>6, <2>1, <2>2
  <1>10. ASSUME NEW p \in Items, Reached(rd, p)
         PROVE  Reached(new, p)
    <2>1. \A q \in Above[p] \cap Foot(rd) : new.obs[q] = rd.obs[q]
      BY <1>1, <1>2, <1>10 DEF Reached, Foot
    <2>2. p \in Foot(rd) /\ p \in Above[p] /\ p \in Items
      BY <1>1, <1>10, ReachedIsRead, PathsAssumption DEF Items
    <2>3. InReadScope(new, p)
      BY <1>2, <1>4, <1>10 DEF Reached, InReadScope
    <2>4. Visible(new.obs, p, Foot(rd))
      BY <1>10, <2>1, <2>2 DEF Reached, Visible
    <2> QED
      BY <1>4, <1>10, <2>1, <2>3, <2>4 DEF Reached
  <1>11. SeenIsReached(g)'
    <2>1. \A p \in Captured(rd.scope, rd.lock) \cap Items :
            rows[p] # None /\ p \notin unseen[g] => Reached(new, p)
      BY <1>1, <1>10 DEF Coverage, SeenIsReached
    <2> QED
      BY <1>1, <1>2, <2>1
         DEF SeenIsReached, Captured, Footprint, Below, Reached, InReadScope, Foot, Visible
  <1>12. SentIsShown(g)'
    <2> SUFFICES ASSUME g \notin omitted, NEW p \in rd.sent
                 PROVE  /\ p \in Foot(rd)
                        /\ \A q \in Below(p) : new.obs[q] # Unread
                        /\ tomb[p] = "none" => rows[p] = Measure(new.obs, p)
      BY <1>1, <1>2, <1>4 DEF SentIsShown, Below, Measure, Foot, Footprint
    <2>1. /\ p \in Foot(rd)
          /\ \A q \in Below(p) : rd.obs[q] # Unread
          /\ tomb[p] = "none" => rows[p] = Measure(rd.obs, p)
      BY <1>1 DEF Coverage, SentIsShown
    <2>2. Below(p) \subseteq Items
      BY <2>1, BelowItems DEF Foot
    <2>3. \A q \in Below(p) : new.obs[q] = rd.obs[q]
      BY <1>1, <1>2, <2>1, <2>2
    <2>4. Measure(new.obs, p) = Measure(rd.obs, p)
      BY <2>3 DEF Measure
    <2> QED
      BY <2>1, <2>3, <2>4
  <1> QED
    BY <1>7, <1>8, <1>9, <1>11, <1>12 DEF Coverage

\* A batch acknowledges or publishes only what the helper has in front of it.
LEMMA ProvisionalKeepsCoverage ==
    ASSUME TypeOK, ClaimInv, OwedInv, NEW g \in Roots, NEW c \in Items,
           SaveProvisional(g, c), Coverage(g)
    PROVE  Coverage(g)'
  <1>1. /\ UNCHANGED <<disk, unheard, historyLost, granted, pending, active, rows,
                       omitted, incomplete, reader>>
        /\ \A p \in Items : p # c /\ p \notin unseen'[g] => p \notin unseen[g]
        /\ Reached(reader[g], c)
    BY DEF SaveProvisional, MarkSeen, fsVars, queueVars, engineVars, TypeOK
  <1>2. \A p \in Items : tomb'[p] = tomb[p]
    BY DEF SaveProvisional, Located, OwedInv, TypeOK
  <1>3. FootOf(g)' = FootOf(g) /\ Outside(g)' = Outside(g)
    BY <1>1 DEF FootOf, Outside, Foot, Footprint, Below
  <1>4. \A q : (Heard(q)' <=> Heard(q)) /\ (Due(q)' <=> Due(q))
    BY <1>1 DEF Due, Heard, Covered
  <1>5. /\ Trusted(g)' <=> Trusted(g)
        /\ Passing(g)' <=> Passing(g)
    BY <1>1 DEF Trusted, Passing
  <1>6. \A p \in Items : Accounted(p) => Accounted(p)'
    <2> SUFFICES ASSUME NEW p \in Items, Accounted(p)
                 PROVE  Accounted(p)'
      OBVIOUS
    <2>1. Truth(p)' = Truth(p)
      BY <1>1 DEF Truth, Visible, Measure, Below
    <2>2. CASE rows[p] # None /\ \E q \in Below(p) : Due(q)
      BY <1>1, <1>4, <2>2 DEF Accounted, Below
    <2>3. CASE tomb[p] # "none" \/ rows[p] = Truth(p) \/ Due(p)
      BY <1>1, <1>2, <1>4, <2>1, <2>3 DEF Accounted
    <2> QED
      BY <2>2, <2>3 DEF Accounted
  <1>7. OutsideIsAccounted(g)' /\ OutsideIsFlat(g)'
    <2>1. Outside(g) \subseteq Items
      BY DEF Outside
    <2> QED
      BY <1>1, <1>3, <1>5, <1>6, <2>1 DEF Coverage, OutsideIsAccounted, OutsideIsFlat
  <1>8. NothingAbove(g)' /\ ReadingIsAccounted(g)'
    BY <1>1, <1>3, <1>4, <1>5 DEF Coverage, NothingAbove, ReadingIsAccounted
  <1>9. SeenIsReached(g)'
    BY <1>1
       DEF Coverage, SeenIsReached, Captured, Footprint, Below, Reached, InReadScope, Foot,
           Visible
  <1>10. SentIsShown(g)'
    <2>1. \A p \in Foot(reader[g]) : tomb'[p] = tomb[p]
      BY <1>2 DEF Foot
    <2> QED
      BY <1>1, <2>1 DEF Coverage, SentIsShown, Foot, Footprint, Below, Measure
  <1> QED
    BY <1>7, <1>8, <1>9, <1>10 DEF Coverage

LEMMA SaveKeepsCoverage ==
    ASSUME TypeOK, ClaimInv, OwedInv, NEW g \in Roots, NEW c \in Items,
           SaveRow(g, c), Coverage(g)
    PROVE  Coverage(g)'
  <1> DEFINE rd == reader[g]
             new == [rd EXCEPT !.sent = @ \cup {c}]
             m == Measure(rd.obs, c)
  <1>1. /\ rd # None /\ rd \in Tickets /\ Reports(rd, c) /\ Usable(rd)
        /\ reader'[g] = new
        /\ UNCHANGED <<disk, unheard, historyLost, granted, pending, active>>
    BY ReaderIsUsable DEF SaveRow, MayPublish, fsVars, queueVars, TypeOK
  <1>2. \A p \in Items : tomb'[p] = tomb[p]
    BY DEF SaveRow, Located, OwedInv, TypeOK
  <1>3. Reached(rd, c) /\ c \in Foot(rd) /\ \A q \in Below(c) : rd.obs[q] # Unread
    BY <1>1, ReachedIsRead DEF Reports
  <1>4. /\ new.scope = rd.scope /\ new.lock = rd.lock /\ new.was = rd.was
        /\ new.obs = rd.obs
        /\ new.sent = rd.sent \cup {c}
        /\ new # None
    <2>1. new \in Tickets
      BY <1>1 DEF Tickets
    <2> QED
      BY <1>1, <2>1, NoneAssumption DEF Tickets
  <1>5. /\ \A p \in Items : p # c => rows'[p] = rows[p]
        /\ g \in omitted => g \in omitted'
        /\ rows' = rows \/ rows' = Published(c, m)
    BY DEF SaveRow, Published, TypeOK
  <1>6. \/ /\ g \in omitted' /\ rows' = rows /\ unseen' = unseen
        \/ /\ omitted' = omitted /\ incomplete' = incomplete
           /\ rows' = Published(c, m)
           /\ \A p \in Items : p # c /\ p \notin unseen'[g] => p \notin unseen[g]
    BY DEF SaveRow, MarkSeen, TypeOK
  <1> HIDE DEF new, m
  <1>7. Foot(new) = Foot(rd) /\ FootOf(g) = Foot(rd) /\ FootOf(g)' = Foot(rd)
    BY <1>1, <1>4 DEF FootOf, Foot, Footprint, Below
  <1>8. /\ Outside(g)' = Outside(g)
        /\ Trusted(g)' => Trusted(g)
        /\ Passing(g)' => Passing(g)
    BY <1>1, <1>4, <1>5, <1>7 DEF Outside, Trusted, Passing
  <1>9. \A q : (Heard(q)' <=> Heard(q)) /\ (Due(q)' <=> Due(q))
    BY <1>1 DEF Due, Heard, Covered
  <1>10. \A p \in Outside(g) : p \in Items /\ p # c
    BY <1>3, <1>7 DEF Outside
  <1>11. OutsideIsAccounted(g)'
    <2> SUFFICES ASSUME Trusted(g), NEW p \in Outside(g)
                 PROVE  Accounted(p)'
      BY <1>8 DEF OutsideIsAccounted
    <2>1. p \in Items /\ rows'[p] = rows[p] /\ tomb'[p] = tomb[p] /\ Accounted(p)
      BY <1>2, <1>5, <1>10 DEF Coverage, OutsideIsAccounted
    <2>2. Truth(p)' = Truth(p)
      BY <1>1 DEF Truth, Visible, Measure, Below
    <2>3. CASE rows[p] # None /\ \E q \in Below(p) : Due(q)
      BY <1>9, <2>1, <2>3 DEF Accounted, Below
    <2>4. CASE tomb[p] # "none" \/ rows[p] = Truth(p) \/ Due(p)
      BY <1>9, <2>1, <2>2, <2>4 DEF Accounted
    <2> QED
      BY <2>1, <2>3, <2>4 DEF Accounted
  <1>12. OutsideIsFlat(g)'
    <2>1. \A p \in Outside(g) : rows'[p] = rows[p]
      BY <1>5, <1>10
    <2> QED
      BY <1>8, <2>1 DEF Coverage, OutsideIsFlat
  <1>13. NothingAbove(g)'
    <2>1. \A p \in Items : p \in Above[rd.scope] /\ p # rd.scope => p # c
      BY <1>1, <1>3, AboveScope
    <2> QED
      BY <1>1, <1>4, <1>5, <1>8, <2>1 DEF Coverage, NothingAbove
  <1>14. ReadingIsAccounted(g)'
    BY <1>1, <1>4, <1>7, <1>8, <1>9 DEF Coverage, ReadingIsAccounted
  <1>15. SeenIsReached(g)'
    <2>1. \A p \in Items : Reached(rd, p) => Reached(new, p)
      BY <1>4, <1>7 DEF Reached, InReadScope
    <2>2. \A p \in Captured(rd.scope, rd.lock) \cap Items :
            rows'[p] # None /\ p \notin unseen'[g] => Reached(new, p)
      BY <1>1, <1>3, <1>5, <1>6, <2>1 DEF Coverage, SeenIsReached
    <2> QED
      BY <1>1, <1>4, <2>2
         DEF SeenIsReached, Captured, Footprint, Below, Reached, InReadScope, Foot, Visible
  <1>16. SentIsShown(g)'
    <2> SUFFICES ASSUME g \notin omitted', NEW p \in rd.sent \cup {c}
                 PROVE  /\ p \in Foot(rd)
                        /\ \A q \in Below(p) : rd.obs[q] # Unread
                        /\ tomb'[p] = "none" => rows'[p] = Measure(rd.obs, p)
      BY <1>1, <1>4, <1>7 DEF SentIsShown, Below, Measure, Foot, Footprint
    <2>1. CASE p = c
      <3>1. tomb[c] = "none" => rows'[c] = m
        BY <1>6 DEF Published, TypeOK
      <3> QED
        BY <1>2, <1>3, <2>1, <3>1 DEF m
    <2>2. CASE p # c
      <3>1. /\ p \in Foot(rd)
            /\ \A q \in Below(p) : rd.obs[q] # Unread
            /\ tomb[p] = "none" => rows[p] = Measure(rd.obs, p)
        BY <1>1, <1>5, <2>2 DEF Coverage, SentIsShown
      <3>2. p \in Items
        BY <3>1 DEF Foot
      <3> QED
        BY <1>2, <1>5, <2>2, <3>1, <3>2
    <2> QED
      BY <2>1, <2>2
  <1> QED
    BY <1>11, <1>12, <1>13, <1>14, <1>15, <1>16 DEF Coverage

-----------------------------------------------------------------------------
(* A whole pass ends                                                       *)

\* A pass that read and reported everything and left no row out, and after which
\* its grant may be complete.
Completes(g) ==
    /\ reader[g] # None /\ ReadAll(reader[g]) /\ Passing(g)
    /\ cleanup = "none"
    /\ reader'[g] = None
    /\ active' = active \ {reader[g].claimed}
    /\ \A p \in Items : rows'[p] = IF p \in unseen[g] THEN None ELSE rows[p]
    /\ UNCHANGED <<disk, unheard, historyLost, granted, pending, tomb>>

\* What the index then shows of the helper's paths is what the helper saw.
LEMMA PassShows ==
    ASSUME TypeOK, ClaimInv, PassInv, NEW g \in Roots, Completes(g), Coverage(g),
           NEW p \in Foot(reader[g])
    PROVE  /\ rows'[p] # None => Visible(reader[g].obs, p, Foot(reader[g]))
           /\ /\ Visible(reader[g].obs, p, Foot(reader[g])) /\ tomb[p] = "none"
              => rows'[p] = Measure(reader[g].obs, p) /\ rows'[p] # None
  <1> DEFINE rd == reader[g]
  <1>1. /\ rd # None /\ rd \in Tickets /\ ReadAll(rd) /\ g \notin omitted /\ p \in Items
        /\ rows'[p] = IF p \in unseen[g] THEN None ELSE rows[p]
    BY DEF Completes, Passing, TypeOK, Foot
  <1>2. ASSUME rows'[p] # None
        PROVE  Visible(rd.obs, p, Foot(rd))
    <2>1. p \notin unseen[g] /\ rows[p] # None
      BY <1>1, <1>2
    <2>2. p \in Captured(rd.scope, rd.lock)
      BY DEF Foot, Captured
    <2>3. Reached(rd, p)
      BY <1>1, <2>1, <2>2 DEF Coverage, SeenIsReached
    <2> QED
      BY <2>3 DEF Reached
  <1>3. ASSUME Visible(rd.obs, p, Foot(rd)), tomb[p] = "none"
        PROVE  rows'[p] = Measure(rd.obs, p) /\ rows'[p] # None
    <2>1. p \in rd.sent
      BY <1>1, <1>3 DEF ReadAll
    <2>2. rows[p] = Measure(rd.obs, p) /\ \A q \in Below(p) : rd.obs[q] # Unread
      BY <1>1, <1>3, <2>1 DEF Coverage, SentIsShown
    <2>3. p \notin unseen[g]
      BY <1>1, <2>1 DEF PassInv, ReportsAreSeen
    <2>4. Measure(rd.obs, p) # None
      <3> DEFINE obs == rd.obs
      <3>1. obs \in [Items -> Versions \cup {Unread}]
        BY <1>1 DEF Tickets
      <3>2. \A q \in Below(p) : obs[q] # Unread
        BY <2>2
      <3> HIDE DEF obs
      <3>3. Measure(obs, p) # None
        BY <1>1, <3>1, <3>2, MeasureIsRow
      <3> QED
        BY <3>3 DEF obs
    <2> QED
      BY <1>1, <2>2, <2>3, <2>4
  <1> QED
    BY <1>2, <1>3

\* Looks that are owed outlast the claim, where its helper did not look and above
\* its scope.
LEMMA PassLeavesLooks ==
    ASSUME TypeOK, ClaimInv, NEW g \in Roots, Completes(g), NEW p \in Paths
    PROVE  /\ Heard(p) => Due(p)'
           /\ Due(p) /\ ~Due(p)' => reader[g].claimed \in Above[p]
  BY DEF Completes, Due, Heard, Covered

\* If something above the scope encloses what the helper saw, that is on its way
\* into the index.
LEMMA HiddenFromHelper ==
    ASSUME TypeInv, ClaimInv, OwedInv, NEW g \in Roots, Completes(g), Coverage(g),
           NEW p \in Foot(reader[g]), NEW a \in Above[p], a \in Items,
           a \notin Foot(reader[g]), disk[a] > 0
    PROVE  Due(p)'
  <1> DEFINE rd == reader[g]
             scope == rd.scope
             claim == rd.claimed
             big == {x \in Above[p] : x \in Items /\ x \notin Foot(rd) /\ disk[x] > 0}
  <1>t. TypeOK
    BY DEF TypeInv
  <1>1. /\ rd # None /\ Usable(rd) /\ claim \in Paths /\ scope \in Above[claim]
        /\ scope \in Paths /\ p \in Paths /\ p \in Items /\ Passing(g)
        /\ Grant[p] = g /\ g \in granted
    BY <1>t, ReaderIsUsable, AboveIsOrdered, FootIsOfGrant DEF Completes, Foot, Items
  <1> HIDE DEF rd
  <1>2. big \in (SUBSET Above[p]) \ {{}}
    BY DEF rd
  <1>3. \A S \in (SUBSET Above[p]) \ {{}} : \E top \in S : \A q \in S : top \in Above[q]
    BY <1>1, PathsAssumption
  <1>4. PICK top \in big : \A q \in big : top \in Above[q]
    <2> HIDE DEF big
    <2> QED
      BY <1>2, <1>3
  <1>5. /\ top \in Above[p] /\ top \in Items /\ top \notin Foot(rd) /\ disk[top] > 0
        /\ top \in Paths
    BY <1>4 DEF Items
  <1>6. top \in Above[scope] /\ top # scope
    <2>1. p \in Foot(rd)
      BY DEF rd
    <2> QED
      BY <1>1, <1>5, <2>1, AboveFoot
  <1>7. claim \notin Above[top]
    <2>1. top \in Above[claim]
      BY <1>1, <1>6, AboveIsOrdered
    <2>2. claim \in Above[top] => top = claim
      BY <1>1, <1>5, <2>1, AboveIsStrict
    <2>3. top = claim => top = scope
      BY <1>1, <1>6, AboveIsStrict
    <2> QED
      BY <1>6, <2>2, <2>3
  <1>8. scope # g
    BY <1>5, <1>6, PathsAssumption DEF Items
  <1>9. Trusted(g) /\ rows[top] = None
    BY <1>1, <1>5, <1>6, <1>8 DEF Passing, Trusted, Coverage, NothingAbove, rd
  <1>10. Due(top)
    <2>1. Accounted(top)
      <3>1. Grant[top] = g
        BY <1>1, <1>5, PathsAssumption
      <3> QED
        BY <1>1, <1>5, <1>9, <3>1 DEF Coverage, OutsideIsAccounted, Outside, FootOf, rd
    <2>2. CASE tomb[top] # "none"
      <3>1. Covered(pending \cup active, top)
        BY <1>5, <2>2 DEF OwedInv, BetweenTransactions, Completes
      <3> QED
        BY <3>1 DEF Due, Heard, Covered
    <2>3. CASE rows[top] = Truth(top)
      <3>1. \A q \in (Above[top] \ {top}) \cap Items : disk[q] <= 0
        <4> SUFFICES ASSUME NEW q \in Above[top], q # top, q \in Items, ~(disk[q] <= 0)
                     PROVE  FALSE
          OBVIOUS
        <4>1. disk[q] > 0
          BY <1>t DEF TypeOK, Versions
        <4>2. q \in Above[p] /\ q \in Paths
          BY <1>1, <1>5, AboveIsOrdered
        <4>3. q \in Above[scope] /\ q # scope
          <5>1. q \in Above[scope]
            BY <1>1, <1>6, AboveIsOrdered
          <5>2. q = scope => top = scope
            BY <1>1, <1>5, <1>6, AboveIsStrict
          <5> QED
            BY <1>6, <5>1, <5>2
        <4>4. q \notin Foot(rd)
          BY <1>1, <4>3, AboveScope
        <4>5. top \in Above[q]
          BY <1>4, <4>1, <4>2, <4>4
        <4> QED
          BY <1>5, <4>2, <4>5, AboveIsStrict
      <3>2. Truth(top) = Measure(disk, top)
        BY <1>5, <3>1 DEF Truth, Visible
      <3>3. /\ disk \in [Items -> Versions \cup {Unread}]
            /\ \A q \in Below(top) : disk[q] # Unread
        BY <1>t, <1>5, BelowItems DEF TypeOK, Versions, Unread
      <3>4. Measure(disk, top) # None
        BY <1>5, <3>3, MeasureIsRow
      <3> QED
        BY <1>9, <2>3, <3>2, <3>4
    <2> QED
      BY <1>9, <2>1, <2>2, <2>3 DEF Accounted
  <1>11. Due(top)'
    BY <1>t, <1>5, <1>7, <1>10, PassLeavesLooks DEF rd
  <1>12. Above[top] \subseteq Above[p]
    BY <1>1, <1>5, AboveIsOrdered
  <1> QED
    BY <1>11, <1>12 DEF Due, Heard, Covered

LEMMA PassAccounts ==
    ASSUME TypeInv, ClaimInv, OwedInv, PassInv, NEW g \in Roots, Completes(g), Coverage(g),
           NEW p \in Foot(reader[g])
    PROVE  Accounted(p)'
  <1> DEFINE rd == reader[g]
             foot == Foot(rd)
  <1>t. TypeOK
    BY DEF TypeInv
  <1>1. /\ rd # None /\ Usable(rd) /\ ReadAll(rd) /\ p \in Items /\ p \in Paths
        /\ disk' = disk /\ tomb' = tomb /\ foot \subseteq Items
    BY <1>t, ReaderIsUsable DEF Completes, Foot, Items
  <1>2. ASSUME NEW q \in foot, rd.obs[q] # disk[q]
        PROVE  Heard(q)
    BY <1>2 DEF Completes, ReadAll, Coverage, ReadingIsAccounted, FootOf
  <1>3. ASSUME NEW q \in Paths, Heard(q)
        PROVE  Due(q)'
    BY <1>t, <1>3, PassLeavesLooks
  <1>4. CASE tomb[p] # "none"
    BY <1>1, <1>4 DEF Accounted
  <1>5. CASE \E a \in Above[p] \cap foot : rd.obs[a] # disk[a]
    <2>1. PICK a \in Above[p] \cap foot : rd.obs[a] # disk[a]
      BY <1>5
    <2>2. Heard(a) /\ Above[a] \subseteq Above[p]
      BY <1>1, <1>2, <2>1, AboveIsOrdered
    <2>3. Heard(p)
      BY <2>2 DEF Heard, Covered
    <2> QED
      BY <1>1, <1>3, <2>3 DEF Accounted
  <1>6. CASE /\ tomb[p] = "none" /\ \A a \in Above[p] \cap foot : rd.obs[a] = disk[a]
             /\ ~Visible(rd.obs, p, foot)
    <2>1. rows'[p] = None
      BY <1>t, <1>6, PassShows
    <2>2. p \in Above[p] \cap foot
      BY <1>1, PathsAssumption
    <2>3. ~Visible(disk, p, Items)
      BY <1>1, <1>6, <2>2 DEF Visible
    <2>4. Truth(p)' = None
      BY <1>1, <2>3 DEF Truth, Visible
    <2> QED
      BY <2>1, <2>4 DEF Accounted
  <1>7. CASE /\ tomb[p] = "none" /\ \A a \in Above[p] \cap foot : rd.obs[a] = disk[a]
             /\ Visible(rd.obs, p, foot)
    <2>1. rows'[p] = Measure(rd.obs, p) /\ rows'[p] # None
      BY <1>t, <1>7, PassShows
    <2>2. CASE \E q \in Below(p) : rd.obs[q] # disk[q]
      <3>1. PICK q \in Below(p) : rd.obs[q] # disk[q]
        BY <2>2
      <3>2. q \in foot /\ q \in Paths
        BY <1>1, FootIsDeep DEF Below
      <3>3. Due(q)'
        BY <1>2, <1>3, <3>1, <3>2
      <3> QED
        BY <2>1, <3>3 DEF Accounted, Below
    <2>3. CASE (\A q \in Below(p) : rd.obs[q] = disk[q]) /\ Visible(disk, p, Items)
      <3>1. Measure(rd.obs, p) = Measure(disk, p)
        BY <2>3 DEF Measure
      <3>2. Truth(p)' = Measure(disk, p)
        BY <1>1, <2>3 DEF Truth, Visible, Measure, Below
      <3> QED
        BY <2>1, <3>1, <3>2 DEF Accounted
    <2>4. CASE ~Visible(disk, p, Items)
      <3>1. p \in Above[p] \cap foot
        BY <1>1, PathsAssumption
      <3>2. disk[p] > 0
        BY <1>7, <3>1 DEF Visible
      <3>3. PICK a \in (Above[p] \ {p}) \cap Items : ~(disk[a] <= 0)
        BY <2>4, <3>2 DEF Visible
      <3>4. disk[a] > 0
        BY <1>t, <3>3 DEF TypeOK, Versions
      <3>5. a \notin foot
        BY <1>7, <3>3 DEF Visible
      <3>6. Due(p)'
        BY <3>3, <3>4, <3>5, HiddenFromHelper
      <3> QED
        BY <3>6 DEF Accounted
    <2> QED
      BY <2>2, <2>3, <2>4
  <1> QED
    BY <1>4, <1>5, <1>6, <1>7

LEMMA PassLeavesAccounts ==
    ASSUME TypeInv, ClaimInv, PassInv, NEW g \in Roots, Completes(g), Coverage(g),
           NEW p \in Items, Grant[p] = g, p \notin Foot(reader[g])
    PROVE  /\ Trusted(g) /\ rows'[p] = rows[p] /\ p \in Outside(g)
           /\ Accounted(p)'
  <1> DEFINE rd == reader[g]
             scope == rd.scope
             claim == rd.claimed
  <1>t. TypeOK
    BY DEF TypeInv
  <1>1. /\ rd # None /\ Usable(rd) /\ claim \in Paths /\ scope \in Above[claim]
        /\ scope \in Paths /\ p \in Paths /\ Passing(g) /\ g \in granted
    BY <1>t, ReaderIsUsable, AboveIsOrdered DEF Completes, Items
  <1>2. scope # g
    BY <1>1, RootFoot
  <1>3. Trusted(g)
    BY <1>1, <1>2 DEF Passing, Trusted
  <1>4. p \in Outside(g)
    BY <1>1 DEF Outside, FootOf
  <1>5. scope \notin Above[p]
    BY <1>1 DEF Foot, Footprint, Below
  <1>6. p \in Above[scope] => rows[p] = None
    <2>1. p \in Above[scope] => p # scope
      BY <1>1, <1>5, PathsAssumption
    <2> QED
      BY <1>1, <2>1 DEF Coverage, NothingAbove
  <1>7. rows'[p] = rows[p]
    <2>1. p \in unseen[g] => p \in Captured(scope, rd.lock)
      BY <1>1 DEF PassInv, UnseenIsCaptured
    <2>2. p \in Captured(scope, rd.lock) => p \in Above[scope]
      BY DEF Captured, Foot
    <2> QED
      BY <1>6, <2>1, <2>2 DEF Completes
  <1>8. claim \notin Above[p]
    BY <1>1, <1>5, AboveIsOrdered
  <1>9. Due(p) => Due(p)'
    BY <1>t, <1>1, <1>8, PassLeavesLooks
  <1>10. Accounted(p)
    BY <1>3, <1>4 DEF Coverage, OutsideIsAccounted
  <1>11. ASSUME rows[p] # None, \E x \in Below(p) : Due(x)
         PROVE  Accounted(p)'
    <2>1. PICK x \in Below(p) : Due(x)
      BY <1>11
    <2>2. x \in Paths /\ p \in Above[x]
      BY DEF Below
    <2>3. Due(x)'
      <3> SUFFICES ASSUME claim \in Above[x]
                   PROVE  FALSE
        BY <1>t, <1>1, <2>1, <2>2, PassLeavesLooks
      <3>1. p \in Above[claim]
        BY <1>8, <2>2, AboveIsChain
      <3>2. p \in Above[scope]
        BY <1>1, <1>5, <3>1, AboveIsChain
      <3> QED
        BY <1>6, <1>11, <3>2
    <2>4. rows'[p] # None
      BY <1>7, <1>11
    <2> QED
      BY <2>3, <2>4 DEF Accounted, Below
  <1>12. ASSUME tomb[p] # "none" \/ rows[p] = Truth(p) \/ Due(p)
         PROVE  Accounted(p)'
    <2>1. Truth(p)' = Truth(p)
      <3>1. disk' = disk
        BY DEF Completes
      <3> QED
        BY <3>1 DEF Truth, Visible, Measure, Below
    <2>2. tomb' = tomb
      BY DEF Completes
    <2>3. tomb'[p] # "none" \/ rows'[p] = Truth(p)' \/ Due(p)'
      BY <1>7, <1>9, <1>12, <2>1, <2>2
    <2> QED
      BY <2>3 DEF Accounted
  <1> QED
    BY <1>3, <1>4, <1>7, <1>10, <1>11, <1>12 DEF Accounted

LEMMA CompletionKeepsCoverage ==
    ASSUME TypeInv, ClaimInv, OwedInv, PassInv, NEW g \in Roots, Completes(g), Coverage(g)
    PROVE  Coverage(g)'
  <1> DEFINE rd == reader[g]
             foot == Foot(rd)
  <1>t. TypeOK
    BY DEF TypeInv
  <1>1. rd # None /\ Usable(rd) /\ Passing(g) /\ reader'[g] = None
    BY <1>t, ReaderIsUsable DEF Completes
  <1>2. \A p \in Outside(g)' : p \in Items /\ Grant[p] = g
    BY DEF Outside
  <1>3. OutsideIsAccounted(g)'
    <2> SUFFICES ASSUME NEW p \in Items, Grant[p] = g
                 PROVE  Accounted(p)'
      BY <1>2 DEF OutsideIsAccounted
    <2> QED
      BY PassAccounts, PassLeavesAccounts
  <1>4. OutsideIsFlat(g)'
    <2> SUFFICES ASSUME NEW p \in Items, NEW q \in Items, Grant[p] = g, Grant[q] = g,
                        rows'[p] # None, rows'[q] # None, p \in Above[q]
                 PROVE  p = q
      BY <1>2 DEF OutsideIsFlat
    <2>1. CASE p \notin foot /\ q \notin foot
      <3>1. /\ Trusted(g) /\ p \in Outside(g) /\ q \in Outside(g)
            /\ rows[p] # None /\ rows[q] # None
        BY <2>1, PassLeavesAccounts
      <3> QED
        BY <3>1 DEF Coverage, OutsideIsFlat
    <2>2. CASE p \notin foot /\ q \in foot
      <3>1. p \in Above[rd.scope] /\ p # rd.scope
        BY <1>1, <2>2, AboveFoot
      <3>2. rows[p] = None
        BY <1>1, <3>1 DEF Coverage, NothingAbove
      <3> QED
        BY <2>2, <3>2, PassLeavesAccounts
    <2>3. CASE p \in foot
      <3>1. q \in foot
        BY <1>1, <2>3, FootIsDeep DEF Below, Items
      <3>2. Visible(rd.obs, p, foot) /\ Visible(rd.obs, q, foot)
        BY <1>t, <2>3, <3>1, PassShows
      <3>3. rd.obs[p] > 0 /\ (p # q => rd.obs[p] <= 0)
        BY <2>3, <3>2 DEF Visible
      <3>4. rd.obs[p] \in Int
        BY <1>1 DEF Usable, Tickets, Versions, Unread
      <3> QED
        BY <3>3, <3>4
    <2> QED
      BY <2>1, <2>2, <2>3
  <1> QED
    BY <1>1, <1>3, <1>4
       DEF Coverage, NothingAbove, ReadingIsAccounted, SeenIsReached, SentIsShown, Passing

-----------------------------------------------------------------------------
(* Every step keeps coverage honest                                        *)

LEMMA AdmissionAloneStep == AdmissionAlone /\ [Next]_vars => AdmissionAlone'
  <1> SUFFICES ASSUME AdmissionAlone, [Next]_vars
               PROVE  AdmissionAlone'
    OBVIOUS
  <1> USE DEF AdmissionAlone
  <1>1. CASE Environment
    BY <1>1 DEF Environment, Change, LoseHistory, engineVars, cleanVars
  <1>2. CASE Requests
    BY <1>2
       DEF Requests, Receive, ReconcileEvents, RequestScan, Authorize, Reauthorize, Forget,
           engineVars, cleanVars
  <1>3. CASE Coordinator
    <2>1. CASE Launch \/ (\E p \in Paths : Claim(p)) \/ BeginRefresh \/ AdmissionFails
      BY <2>1 DEF Launch, Claim, BeginRefresh, AdmissionFails, cleanVars
    <2>2. ASSUME NEW r \in Roots, NEW p \in Items,
                 Read(r, p) \/ SaveProvisional(r, p) \/ SaveRow(r, p)
          PROVE  AdmissionAlone'
      BY <2>2 DEF Read, SaveProvisional, SaveRow, engineVars, cleanVars
    <2>3. ASSUME NEW r \in Roots, FinishComplete(r) \/ FinishPartial(r) \/ HelperFails(r)
          PROVE  AdmissionAlone'
      BY <2>3 DEF FinishComplete, FinishPartial, HelperFails, Settle, cleanVars
    <2>4. CASE Park \/ Cancel \/ WorkerDone \/ WorkerFails \/ MaintainDerived
      BY <2>4 DEF Park, Cancel, WorkerDone, WorkerFails, MaintainDerived, engineVars, cleanVars
    <2> QED
      BY <1>3, <2>1, <2>2, <2>3, <2>4 DEF Coordinator
  <1>4. CASE Cleanup
    BY <1>4
       DEF Cleanup, Prepare, ReviewExpires, BeginCleanup, Suppress, QueueCleaned, EndCleanup,
           StoreFree, engineVars
  <1>5. ASSUME NEW upgraded \in BOOLEAN, Restart(upgraded)
        PROVE  AdmissionAlone'
    BY <1>5 DEF Restart
  <1>6. CASE UNCHANGED vars
    BY <1>6 DEF vars, engineVars, cleanVars
  <1> QED
    BY <1>1, <1>2, <1>3, <1>4, <1>5, <1>6 DEF Next

\* Steps after which every grant is as it was, or without a refresh and incomplete.
LEMMA CoverageKept ==
    ASSUME TypeOK, ClaimInv, CoverageInv,
           \A g \in Roots :
              \/ Undisturbed(g)
              \/ reader'[g] = None /\ (g \in incomplete' \/ g \notin granted')
    PROVE  CoverageInv'
  BY UndisturbedCoverage, UnansweredCoverage DEF CoverageInv

\* Steps that only make more looks owed, more paths hidden and more grants
\* incomplete.
LEMMA LooksOnlyGrow ==
    ASSUME TypeOK, ClaimInv, CoverageInv,
           UNCHANGED <<disk, granted, reader, unseen, omitted, rows, tomb>>,
           incomplete \subseteq incomplete',
           \A p \in Items : Due(p) => Due(p)',
           \A p \in Items : reader[Grant[p]] # None /\ Heard(p) => Heard(p)'
    PROVE  CoverageInv'
  <1>1. ASSUME NEW g \in Roots
        PROVE  Undisturbed(g)
    <2>1. Trusted(g)' => Trusted(g)
      BY DEF Trusted
    <2> QED
      BY <2>1 DEF Undisturbed
  <1> QED
    BY <1>1, CoverageKept

\* Steps that queue a batch.
LEMMA BatchKeepsCoverage ==
    ASSUME TypeOK, ClaimInv, CoverageInv,
           UNCHANGED <<disk, unheard, historyLost, granted, active, reader, unseen, omitted,
                       rows, tomb, incomplete>>,
           NEW S \in SUBSET Paths, pending' = EnqueuedAll(pending, S)
    PROVE  CoverageInv'
  <1>1. ASSUME NEW p \in Items, Heard(p)
        PROVE  Heard(p)'
    <2>1. pending \in SUBSET Paths /\ p \in Paths
      BY DEF TypeOK, Items
    <2> QED
      BY <1>1, <2>1, QueueKeepsLooks
  <1>2. ASSUME NEW p \in Items, Due(p)
        PROVE  Due(p)'
    BY <1>1, <1>2 DEF Due, Covered
  <1> QED
    BY <1>1, <1>2, LooksOnlyGrow

\* Recovery after the helpers are gone; grants whose rows were touched are
\* incomplete.
LEMMA RecoveryKeepsCoverage ==
    ASSUME TypeOK, ClaimInv, CoverageInv, NEW also, Recovered(also),
           UNCHANGED <<disk, unheard, historyLost, granted, tomb>>,
           \A g \in Roots : reader'[g] = None,
           \A p \in Items : Grant[p] \notin also => rows'[p] = rows[p]
    PROVE  CoverageInv'
  <1>1. ASSUME NEW g \in Roots, g \notin incomplete'
        PROVE  Undisturbed(g)
    <2>1. g \notin also /\ g \notin incomplete
      BY <1>1 DEF Recovered
    <2>2. reader[g] = None /\ reader'[g] = None
      BY <2>1, ReaderIsUsable
    <2>3. \A p \in Items : Due(p) => Due(p)'
      BY RecoveryKeepsLooks DEF Due, Items
    <2>4. Trusted(g)' => Trusted(g)
      BY <2>1, <2>2 DEF Trusted
    <2> QED
      BY <2>1, <2>2, <2>3, <2>4 DEF Undisturbed
  <1> QED
    BY <1>1, CoverageKept

\* What the helper of one grant does leaves the other grants alone.
LEMMA OwnGrantOnly ==
    ASSUME TypeOK, ClaimInv, NEW r \in Roots,
           UNCHANGED <<disk, unheard, historyLost, granted, pending, active>>,
           \A s \in Roots : s # r => reader'[s] = reader[s] /\ unseen'[s] = unseen[s],
           \A s \in Roots : s # r => (s \in omitted' <=> s \in omitted),
           incomplete \subseteq incomplete',
           \A p \in Items : tomb[p] # "none" => tomb'[p] # "none",
           \A p \in Items : Grant[p] # r => rows'[p] = rows[p],
           NEW g \in Roots, g # r
    PROVE  Undisturbed(g)
  <1>1. Trusted(g)' => Trusted(g)
    BY DEF Trusted
  <1>2. \A p : (Due(p) => Due(p)') /\ (Heard(p) => Heard(p)')
    BY DEF Due, Heard, Covered
  <1> QED
    BY <1>1, <1>2 DEF Undisturbed

LEMMA HelperKeepsCoverage ==
    ASSUME TypeOK, ClaimInv, OwedInv, CoverageInv, NEW r \in Roots, NEW p \in Items,
           Read(r, p) \/ SaveProvisional(r, p) \/ SaveRow(r, p)
    PROVE  CoverageInv'
  <1>1. Coverage(r)'
    BY ReadKeepsCoverage, ProvisionalKeepsCoverage, SaveKeepsCoverage DEF CoverageInv
  <1>2. Reports(reader[r], p) /\ reader[r] # None => Grant[p] = r
    BY FootGrant DEF Reports, Reached, ClaimInv
  <1>3. /\ UNCHANGED <<disk, unheard, historyLost, granted, pending, active>>
        /\ \A s \in Roots : s # r => reader'[s] = reader[s] /\ unseen'[s] = unseen[s]
        /\ \A s \in Roots : s # r => (s \in omitted' <=> s \in omitted)
        /\ incomplete \subseteq incomplete'
        /\ \A q \in Items : tomb[q] # "none" => tomb'[q] # "none"
        /\ \A q \in Items : Grant[q] # r => rows'[q] = rows[q]
    <2>1. CASE Read(r, p)
      BY <2>1 DEF Read, TypeOK, fsVars, queueVars, claimVars, indexVars
    <2>2. CASE SaveProvisional(r, p)
      BY <2>2 DEF SaveProvisional, MarkSeen, Located, TypeOK, fsVars, queueVars, engineVars
    <2>3. CASE SaveRow(r, p)
      <3>1. Grant[p] = r
        BY <1>2, <2>3 DEF SaveRow, MayPublish
      <3>2. /\ UNCHANGED <<disk, unheard, historyLost, granted, pending, active>>
            /\ \A s \in Roots : s # r => reader'[s] = reader[s]
            /\ \A q \in Items : tomb[q] # "none" => tomb'[q] # "none"
        BY <2>3 DEF SaveRow, Located, TypeOK, fsVars, queueVars
      <3>3. CASE Fits(p)
        <4>1. /\ unseen' = [unseen EXCEPT ![r] = @ \ {p}]
              /\ rows' = Published(p, Measure(reader[r].obs, p))
              /\ UNCHANGED <<omitted, incomplete>>
          BY <2>3, <3>3 DEF SaveRow, MarkSeen
        <4> QED
          BY <3>1, <3>2, <4>1 DEF Published, TypeOK
      <3>4. CASE ~Fits(p)
        <4>1. /\ UNCHANGED <<unseen, rows>>
              /\ omitted' = omitted \cup {r} /\ incomplete' = incomplete \cup {r}
          BY <2>3, <3>4 DEF SaveRow
        <4> QED
          BY <3>2, <4>1
      <3> QED
        BY <3>3, <3>4
    <2> QED
      BY <2>1, <2>2, <2>3
  <1>4. ASSUME NEW g \in Roots, g # r
        PROVE  Coverage(g)'
    <2>1. Undisturbed(g)
      BY <1>3, <1>4, OwnGrantOnly
    <2> QED
      BY <2>1, UndisturbedCoverage DEF CoverageInv
  <1> QED
    BY <1>1, <1>4 DEF CoverageInv

LEMMA SettleKeepsCoverage ==
    ASSUME TypeInv, ClaimInv, OwedInv, PassInv, CoverageInv, NEW r \in Roots,
           NEW complete \in BOOLEAN, NEW requeue \in BOOLEAN,
           MayPublish(r), Settle(r, complete, requeue),
           complete => ReadAll(reader[r]) /\ ~requeue
    PROVE  CoverageInv'
  <1> DEFINE rd == reader[r]
             claim == rd.claimed
  <1>t. TypeOK
    BY DEF TypeInv
  <1>1. /\ rd # None /\ claim \in Paths /\ Grant[claim] = r /\ r \in incomplete
        /\ cleanup = "none"
    BY <1>t, ReaderIsUsable DEF MayPublish
  <1>2. /\ UNCHANGED <<disk, unheard, historyLost, granted, tomb>>
        /\ reader' = [reader EXCEPT ![r] = None]
        /\ unseen' = [unseen EXCEPT ![r] = {}]
        /\ omitted' = omitted \ {r}
        /\ active' = active \ {claim}
        /\ pending' = SettledQueue(claim, requeue)
    BY DEF Settle, Queue, fsVars
  <1>3. /\ rows' = Pruned(r, complete /\ r \notin omitted)
        /\ incomplete' = IncompleteAfter(r, complete /\ r \notin omitted)
    BY DEF Settle
  <1>4. Coverage(r)'
    <2>1. CASE r \in incomplete'
      <3>1. reader'[r] = None
        BY <1>t, <1>2 DEF TypeOK
      <3> QED
        BY <2>1, <3>1, UnansweredCoverage
    <2>2. CASE r \notin incomplete'
      <3>1. complete /\ r \notin omitted /\ (rd.scope = r \/ ~rd.was)
        BY <1>1, <1>3, <2>2 DEF IncompleteAfter
      <3>2. Passing(r) /\ ReadAll(rd)
        BY <1>1, <3>1 DEF Passing
      <3>3. \A p \in Items : rows'[p] = IF p \in unseen[r] THEN None ELSE rows[p]
        BY <1>3, <3>1 DEF Pruned
      <3>4. pending' = pending /\ reader'[r] = None
        BY <1>t, <1>2, <3>1 DEF SettledQueue, TypeOK
      <3>5. Completes(r)
        BY <1>1, <1>2, <3>2, <3>3, <3>4 DEF Completes
      <3> QED
        BY <3>5, CompletionKeepsCoverage DEF CoverageInv
    <2> QED
      BY <2>1, <2>2
  <1>5. ASSUME NEW g \in Roots, g # r
        PROVE  Coverage(g)'
    <2>1. ASSUME NEW p \in Items, Grant[p] = g
          PROVE  rows'[p] = rows[p]
      <3>1. p \notin unseen[r]
        <4> SUFFICES ASSUME p \in unseen[r]
                     PROVE  FALSE
          OBVIOUS
        <4> DEFINE scope == rd.scope
                   lock == rd.lock
        <4>1. p \in Captured(scope, lock) /\ p \in Paths
          BY <1>1 DEF PassInv, UnseenIsCaptured, Items
        <4>2. scope \in Above[claim] /\ lock \in BOOLEAN /\ (lock => scope \in DOMAIN LockTarget)
          BY <1>t, <1>1, ReaderIsUsable DEF Usable, Tickets
        <4> HIDE DEF scope, lock, claim
        <4>3. Grant[p] = Grant[claim]
          BY <1>1, <4>1, <4>2, CapturedGrant
        <4> QED
          BY <1>1, <1>5, <2>1, <4>3
      <3> QED
        BY <1>3, <3>1 DEF Pruned
    <2>2. ASSUME NEW p \in Items, Grant[p] = g
          PROVE  (Heard(p) => Heard(p)') /\ (Due(p) => Due(p)')
      <3>1. p \in Paths /\ claim \notin Above[p]
        BY <1>1, <1>5, <2>2, OneGrantCovers DEF Items
      <3>2. Covered(pending, p) => Covered(pending', p)
        <4>1. pending \in SUBSET Paths /\ {claim} \in SUBSET Paths
          BY <1>t, <1>1 DEF TypeOK
        <4> HIDE DEF claim
        <4> QED
          BY <1>2, <3>1, <4>1, EnqueuedAllCovers DEF SettledQueue
      <3>3. Heard(p) => Heard(p)'
        BY <1>2, <3>2 DEF Heard
      <3>4. Covered(active, p) => Covered(active', p)
        BY <1>2, <3>1 DEF Covered
      <3> QED
        BY <3>3, <3>4 DEF Due
    <2>3. /\ reader'[g] = reader[g] /\ unseen'[g] = unseen[g]
          /\ g \in omitted' <=> g \in omitted
      BY <1>t, <1>2, <1>5 DEF TypeOK
    <2>4. g \in incomplete => g \in incomplete'
      BY <1>3, <1>5 DEF IncompleteAfter
    <2>5. Trusted(g)' => Trusted(g)
      BY <1>2, <2>3, <2>4 DEF Trusted
    <2>6. Undisturbed(g)
      BY <1>2, <2>1, <2>2, <2>3, <2>5 DEF Undisturbed
    <2> QED
      BY <1>t, <2>6, UndisturbedCoverage DEF CoverageInv
  <1> QED
    BY <1>4, <1>5 DEF CoverageInv

LEMMA CoverageStep ==
    ASSUME TypeInv, LimitInv, ClaimInv, OwedInv, PassInv, AdmissionAlone, CoverageInv,
           [Next]_vars
    PROVE  CoverageInv'
  <1>t. TypeOK
    BY DEF TypeInv
  <1>1. ASSUME UNCHANGED <<disk, unheard, historyLost, granted, pending, active, reader,
                           unseen, omitted, rows, tomb, incomplete>>
        PROVE  CoverageInv'
    <2>1. \A p : (Due(p) => Due(p)') /\ (Heard(p) => Heard(p)')
      BY <1>1 DEF Due, Heard, Covered
    <2> QED
      BY <1>t, <1>1, <2>1, LooksOnlyGrow
  <1>2. ASSUME Idle
        PROVE  \A g \in Roots : reader[g] = None
    BY <1>2 DEF Idle, LimitInv, WorkerOwnsReaders
  <1>3. CASE Environment
    <2>1. ASSUME NEW c \in Items, NEW v \in Versions, Change(c, v)
          PROVE  CoverageInv'
      BY <1>t, <2>1, ChangeKeepsCoverage DEF CoverageInv
    <2>2. CASE LoseHistory
      <3>1. historyLost' /\ UNCHANGED <<disk, granted, reader, unseen, omitted, rows, tomb,
                                       incomplete>>
        BY <2>2 DEF LoseHistory, claimVars, indexVars, engineVars
      <3>2. \A p : Due(p)' /\ Heard(p)'
        BY <3>1 DEF Due, Heard
      <3> QED
        BY <1>t, <3>1, <3>2, LooksOnlyGrow
    <2> QED
      BY <1>3, <2>1, <2>2 DEF Environment
  <1>4. CASE Requests
    <2>1. ASSUME NEW r \in Roots, NEW S \in SUBSET Below(r), Receive(r, S)
          PROVE  CoverageInv'
      <3> DEFINE batch == {EventScope[p] : p \in S}
      <3>1. /\ UNCHANGED <<disk, historyLost, granted, active, reader, unseen, omitted, rows,
                           tomb, incomplete>>
            /\ pending' = EnqueuedAll(pending, batch)
            /\ unheard' = unheard \ S
        BY <2>1 DEF Receive, Queue, claimVars, indexVars, engineVars
      <3>2. batch \in SUBSET Paths /\ pending \in SUBSET Paths
        BY <1>t, ScopeAssumption DEF Below, TypeOK
      <3>3. ASSUME NEW p \in Items, Heard(p)
            PROVE  Heard(p)'
        <4>1. Covered(pending, p) \/ Covered(batch, p) => Covered(pending', p)
          <5>1. p \in Paths
            BY DEF Items
          <5> HIDE DEF batch
          <5> QED
            BY <3>1, <3>2, <5>1, EnqueuedAllCovers
        <4>2. ASSUME NEW x \in unheard, EventScope[x] \in Above[p], x \notin unheard'
              PROVE  Covered(batch, p)
          BY <3>1, <4>2 DEF Covered
        <4> QED
          BY <3>1, <3>3, <4>1, <4>2 DEF Heard
      <3>4. \A p \in Items : Due(p) => Due(p)'
        BY <3>1, <3>3 DEF Due, Covered
      <3> QED
        BY <1>t, <3>1, <3>3, <3>4, LooksOnlyGrow
    <2>2. CASE ReconcileEvents
      <3>1. /\ UNCHANGED <<disk, unheard, granted, active, reader, unseen, omitted, rows, tomb,
                           incomplete>>
            /\ pending' = EnqueuedAll(pending, granted)
        BY <2>2 DEF ReconcileEvents, Queue, claimVars, indexVars, engineVars
      <3>2. granted \in SUBSET Paths /\ pending \in SUBSET Paths
        BY <1>t, PathsAssumption DEF TypeOK
      <3>3. ASSUME NEW p \in Items, Grant[p] \in granted
            PROVE  Heard(p)'
        <4>1. p \in Paths /\ Covered(granted, p)
          BY <3>3, PathsAssumption DEF Covered, Items
        <4>2. Covered(EnqueuedAll(pending, granted), p)
          BY <3>2, <4>1, EnqueuedAllCovers
        <4> QED
          BY <3>1, <4>2 DEF Heard
      <3>4. ASSUME NEW g \in Roots, g \in granted
            PROVE  Undisturbed(g)
        <4>1. Trusted(g)' => Trusted(g)
          BY <3>1 DEF Trusted
        <4> QED
          BY <3>1, <3>3, <3>4, <4>1 DEF Undisturbed, Due
      <3>5. ASSUME NEW g \in Roots, g \notin granted
            PROVE  reader'[g] = None /\ g \notin granted'
        BY <1>t, <3>1, <3>5, ReaderIsUsable
      <3> QED
        BY <1>t, <3>4, <3>5, CoverageKept
    <2>3. ASSUME NEW r \in Roots, RequestScan(r)
          PROVE  CoverageInv'
      <3>1. /\ UNCHANGED <<disk, unheard, historyLost, granted, active, reader, unseen, omitted,
                           rows, tomb, incomplete>>
            /\ pending' = EnqueuedAll(pending, {r})
        BY <2>3 DEF RequestScan, Queue, fsVars, claimVars, indexVars, engineVars
      <3>2. {r} \in SUBSET Paths
        BY PathsAssumption
      <3> QED
        BY <1>t, <3>1, <3>2, BatchKeepsCoverage
    <2>4. ASSUME NEW r \in Roots, Authorize(r)
          PROVE  CoverageInv'
      <3>1. /\ UNCHANGED <<disk, unheard, historyLost, pending, active, reader, unseen, omitted,
                           rows, tomb>>
            /\ granted' = granted \cup {r} /\ incomplete' = incomplete \cup {r}
            /\ \A g \in Roots : reader[g] = None
        BY <1>2, <2>4 DEF Authorize, fsVars, queueVars, claimVars, engineVars
      <3>2. ASSUME NEW g \in Roots, g # r
            PROVE  Undisturbed(g)
        <4>1. Trusted(g)' => Trusted(g)
          BY <3>1, <3>2 DEF Trusted
        <4>2. \A p : Due(p) => Due(p)'
          BY <3>1 DEF Due, Heard, Covered
        <4> QED
          BY <3>1, <4>1, <4>2 DEF Undisturbed
      <3> QED
        BY <1>t, <3>1, <3>2, CoverageKept
    <2>5. ASSUME NEW r \in Roots, Reauthorize(r) \/ Forget(r)
          PROVE  CoverageInv'
      <3>1. /\ UNCHANGED <<disk, unheard, historyLost, reader>>
            /\ \A g \in Roots : reader[g] = None
            /\ pending \ Below(r) \subseteq pending'
            /\ active' = active \ Below(r)
        BY <1>2, <2>5 DEF Reauthorize, Forget, Forgotten, Queue, fsVars, engineVars
      <3>4. /\ granted' \subseteq granted
            /\ incomplete \ {r} \subseteq incomplete'
        BY <2>5 DEF Reauthorize, Forget
      <3>5. \A p \in Items : Grant[p] # r => rows'[p] = rows[p] /\ tomb'[p] = tomb[p]
        BY <2>5 DEF Reauthorize, Forget, Forgotten
      <3>2. r \in incomplete' \/ r \notin granted'
        BY <2>5 DEF Reauthorize, Forget
      <3>3. ASSUME NEW g \in Roots, g # r
            PROVE  Undisturbed(g)
        <4>1. Trusted(g)' => Trusted(g)
          BY <3>1, <3>3, <3>4 DEF Trusted
        <4>2. ASSUME NEW p \in Items, Grant[p] = g, Due(p)
              PROVE  Due(p)'
          <5>1. \A s \in Below(r) : s \notin Above[p]
            BY <3>3, <4>2, PathsAssumption DEF Below, Items
          <5> QED
            BY <3>1, <4>2, <5>1 DEF Due, Heard, Covered
        <4> QED
          BY <3>1, <3>3, <3>5, <4>1, <4>2 DEF Undisturbed
      <3> QED
        BY <1>t, <3>1, <3>2, <3>3, CoverageKept
    <2> QED
      BY <1>4, <2>1, <2>2, <2>3, <2>4, <2>5 DEF Requests
  <1>5. CASE Coordinator
    <2>1. CASE Launch
      <3>1. /\ Recovered({})
            /\ UNCHANGED <<disk, unheard, historyLost, granted, tomb, rows>>
            /\ \A g \in Roots : reader'[g] = None
        BY <1>2, <2>1 DEF Launch, fsVars
      <3> QED
        BY <1>t, <3>1, RecoveryKeepsCoverage
    <2>2. ASSUME NEW c \in Paths, Claim(c)
          PROVE  CoverageInv'
      <3>1. /\ UNCHANGED <<disk, unheard, historyLost, granted, reader, unseen, omitted, rows,
                           tomb, incomplete>>
            /\ pending' = pending \ {c} /\ active' = active \cup {c} /\ c \in pending
            /\ \A a \in active : Grant[a] # Grant[c]
        BY <2>2 DEF Claim, Claimable, Queue, fsVars, indexVars
      <3>2. reader[Grant[c]] = None
        BY <1>t, <3>1, PathsAssumption, ReaderIsUsable DEF ClaimInv, ReaderOwnsClaim
      <3>3. \A p \in Items : Due(p) => Due(p)'
        BY <3>1 DEF Due, Heard, Covered
      <3>4. ASSUME NEW p \in Items, reader[Grant[p]] # None, Heard(p)
            PROVE  Heard(p)'
        <4>1. c \notin Above[p]
          BY <3>2, <3>4, PathsAssumption DEF Items
        <4> QED
          BY <3>1, <3>4, <4>1 DEF Heard, Covered
      <3> QED
        BY <1>t, <3>1, <3>3, <3>4, LooksOnlyGrow
    <2>3. CASE BeginRefresh
      <3> DEFINE q == Grant[admitting]
                 scope == Resolved(admitting)
                 lock == IsLockRefresh(admitting)
      <3>1. /\ admitting \in Paths /\ q \in Roots
            /\ scope \in Above[admitting] /\ (lock => scope \in DOMAIN LockTarget)
            /\ lock \in BOOLEAN
        BY <1>t, <2>3, ResolvedAbove, PathsAssumption DEF BeginRefresh, TypeOK, IsLockRefresh
      <3>2. /\ UNCHANGED <<disk, unheard, historyLost, granted, active, omitted, rows>>
            /\ pending' = pending \ Footprint(scope, lock)
            /\ tomb' = Lifted(Captured(scope, lock))
            /\ incomplete' = incomplete \cup {q}
            /\ \A g \in Roots : g # q => reader'[g] = reader[g] /\ unseen'[g] = unseen[g]
        BY <1>t, <2>3 DEF BeginRefresh, Queue, TypeOK, fsVars
      <3>3. ASSUME NEW g \in Roots, g = q
            PROVE  Coverage(g)'
        BY <2>3, <3>3, BeginKeepsCoverage DEF CoverageInv
      <3> HIDE DEF scope, lock
      <3>4. ASSUME NEW g \in Roots, g # q
            PROVE  Undisturbed(g)
        <4>1. ASSUME NEW p \in Paths, p \in Captured(scope, lock)
              PROVE  Grant[p] = q
          BY <3>1, <4>1, CapturedGrant
        <4>2. Footprint(scope, lock) \subseteq Paths /\ Footprint(scope, lock) \subseteq Captured(scope, lock)
          BY DEF Footprint, Captured, Below
        <4>3. ASSUME NEW p \in Items, Grant[p] = g
              PROVE  /\ tomb'[p] = tomb[p]
                     /\ Due(p) => Due(p)'
                     /\ Heard(p) => Heard(p)'
          <5>1. p \in Paths /\ p \notin Captured(scope, lock)
            BY <3>4, <4>1, <4>3 DEF Items
          <5>2. \A s \in Footprint(scope, lock) : s \notin Above[p]
            BY <3>4, <4>1, <4>2, <4>3, <5>1, OneGrantCovers
          <5>3. tomb'[p] = tomb[p]
            BY <3>2, <5>1 DEF Lifted
          <5> QED
            BY <3>2, <5>2, <5>3 DEF Due, Heard, Covered
        <4>4. Trusted(g)' => Trusted(g)
          BY <3>2, <3>4 DEF Trusted
        <4> QED
          BY <3>2, <3>4, <4>3, <4>4 DEF Undisturbed
      <3> QED
        BY <1>t, <3>3, <3>4, UndisturbedCoverage DEF CoverageInv
    <2>4. CASE AdmissionFails
      BY <1>1, <2>4 DEF AdmissionFails, fsVars, queueVars, claimVars, indexVars
    <2>5. ASSUME NEW r \in Roots, NEW p \in Items,
                 Read(r, p) \/ SaveProvisional(r, p) \/ SaveRow(r, p)
          PROVE  CoverageInv'
      BY <1>t, <2>5, HelperKeepsCoverage
    <2>6. ASSUME NEW r \in Roots, FinishComplete(r) \/ FinishPartial(r) \/ HelperFails(r)
          PROVE  CoverageInv'
      BY <2>6, SettleKeepsCoverage DEF FinishComplete, FinishPartial, HelperFails
    <2>7. CASE Park \/ Cancel
      <3> DEFINE rs == {r \in Roots : reader[r] # None}
                 claims == {reader[r].claimed : r \in rs}
      <3>1. /\ UNCHANGED <<disk, unheard, historyLost, granted, rows, tomb, incomplete>>
            /\ pending' = EnqueuedAll(pending, claims)
            /\ active' = active \ claims
            /\ \A s \in Roots : reader'[s] = None
        BY <2>7 DEF Park, Cancel, RetireAll, Queue, fsVars, indexVars
      <3>2. claims \in SUBSET Paths /\ pending \in SUBSET Paths
        BY <1>t, ReaderIsUsable DEF TypeOK
      <3>3. ASSUME NEW g \in Roots, g \notin incomplete'
            PROVE  Undisturbed(g)
        <4>1. reader[g] = None /\ reader'[g] = None
          BY <1>t, <3>1, <3>3, ReaderIsUsable
        <4>2. Trusted(g)' => Trusted(g)
          BY <3>1, <3>3, <4>1 DEF Trusted
        <4>3. ASSUME NEW p \in Items, Due(p)
              PROVE  Due(p)'
          <5>1. p \in Paths
            BY DEF Items
          <5> HIDE DEF claims
          <5>2. Covered(pending, p) \/ Covered(claims, p) => Covered(pending', p)
            BY <3>1, <3>2, <5>1, EnqueuedAllCovers
          <5>3. Covered(active, p) => Covered(active', p) \/ Covered(claims, p)
            BY <3>1 DEF Covered
          <5> QED
            BY <3>1, <4>3, <5>2, <5>3 DEF Due, Heard
        <4> QED
          BY <3>1, <4>1, <4>2, <4>3 DEF Undisturbed
      <3> QED
        BY <1>t, <3>1, <3>3, CoverageKept
    <2>8. CASE WorkerDone \/ WorkerFails
      <3>1. /\ \A r \in Roots : reader'[r] = None
            /\ UNCHANGED <<disk, unheard, historyLost, granted, tomb, rows>>
        BY <2>8 DEF WorkerDone, WorkerFails, NoReaders, fsVars
      <3>2. CASE Recovered({})
        BY <1>t, <3>1, <3>2, RecoveryKeepsCoverage
      <3>3. CASE UNCHANGED <<queueVars, claimVars, incomplete>>
        <4>1. ASSUME NEW g \in Roots, g \notin incomplete'
              PROVE  Undisturbed(g)
          <5>1. reader[g] = None /\ reader'[g] = None
            BY <1>t, <3>1, <3>3, <4>1, ReaderIsUsable
          <5>2. Trusted(g)' => Trusted(g)
            BY <3>1, <3>3, <5>1 DEF Trusted
          <5>3. \A p : Due(p) => Due(p)'
            BY <3>1, <3>3 DEF Due, Heard, Covered, queueVars, claimVars
          <5> QED
            BY <3>1, <5>1, <5>2, <5>3 DEF Undisturbed
        <4> QED
          BY <1>t, <3>1, <4>1, CoverageKept
      <3> QED
        BY <2>8, <3>2, <3>3 DEF WorkerDone, WorkerFails
    <2>9. CASE MaintainDerived
      <3>1. PICK out \in SUBSET Items : \E touched \in SUBSET Roots, still \in BOOLEAN :
                /\ Trims({review}, active, out, touched, still)
                /\ rows' = [p \in Items |-> IF p \in out THEN None ELSE rows[p]]
                /\ incomplete' = incomplete \cup touched
        BY <2>9 DEF MaintainDerived
      <3>2. PICK touched \in SUBSET Roots :
                /\ \A p \in out : Grant[p] \in touched
                /\ incomplete' = incomplete \cup touched
        BY <3>1 DEF Trims
      <3>3. /\ UNCHANGED <<disk, unheard, historyLost, granted, pending, active, tomb, reader,
                           unseen, omitted>>
            /\ \A g \in Roots : reader[g] = None
        BY <1>2, <2>9 DEF MaintainDerived, fsVars, queueVars, claimVars, engineVars
      <3>4. ASSUME NEW g \in Roots, g \notin incomplete'
            PROVE  Undisturbed(g)
        <4>1. \A p \in Items : Grant[p] = g => rows'[p] = rows[p]
          BY <3>1, <3>2, <3>4
        <4>2. Trusted(g)' => Trusted(g)
          BY <3>2, <3>3, <3>4 DEF Trusted
        <4>3. \A p : Due(p) => Due(p)'
          BY <3>3 DEF Due, Heard, Covered
        <4> QED
          BY <3>3, <4>1, <4>2, <4>3 DEF Undisturbed
      <3> QED
        BY <1>t, <3>3, <3>4, CoverageKept
    <2> QED
      BY <1>5, <2>1, <2>2, <2>3, <2>4, <2>5, <2>6, <2>7, <2>8, <2>9 DEF Coordinator
  <1>6. CASE Cleanup
    <2>1. CASE Suppress
      <3>1. /\ UNCHANGED <<disk, unheard, historyLost, granted, pending, active, reader,
                           unseen, omitted, incomplete>>
            /\ \A g \in Roots : reader[g] = None
            /\ \A p \in Items : p # review => rows'[p] = rows[p] /\ tomb'[p] = tomb[p]
            /\ rows'[review] = None /\ tomb'[review] # "none"
            /\ review \in Items
        BY <1>t, <2>1
           DEF Suppress, NoReaders, fsVars, queueVars, claimVars, engineVars, TypeOK, TypeInv,
               ReviewHeld, Unlocated
      <3>2. ASSUME NEW g \in Roots
            PROVE  Coverage(g)'
        <4>1. Outside(g)' = Outside(g) /\ (Trusted(g)' <=> Trusted(g))
          BY <3>1 DEF Outside, FootOf, Trusted
        <4>2. \A p : Due(p) => Due(p)'
          BY <3>1 DEF Due, Heard, Covered
        <4>3. ASSUME NEW p \in Items, Accounted(p)
              PROVE  Accounted(p)'
          <5>1. CASE p = review
            BY <3>1, <5>1 DEF Accounted
          <5>2. CASE p # review
            <6>1. Truth(p)' = Truth(p)
              BY <3>1 DEF Truth, Visible, Measure, Below
            <6>2. rows'[p] = rows[p] /\ tomb'[p] = tomb[p]
              BY <3>1, <5>2
            <6>3. CASE rows[p] # None /\ \E q \in Below(p) : Due(q)
              BY <4>2, <6>2, <6>3 DEF Accounted, Below
            <6>4. CASE tomb[p] # "none" \/ rows[p] = Truth(p) \/ Due(p)
              BY <4>2, <6>1, <6>2, <6>4 DEF Accounted
            <6> QED
              BY <4>3, <6>3, <6>4 DEF Accounted
          <5> QED
            BY <5>1, <5>2
        <4>4. OutsideIsAccounted(g)'
          BY <4>1, <4>3 DEF CoverageInv, Coverage, OutsideIsAccounted, Outside
        <4>5. OutsideIsFlat(g)'
          <5>1. \A p \in Outside(g) : rows'[p] # None => rows[p] # None
            BY <3>1 DEF Outside
          <5> QED
            BY <4>1, <5>1 DEF CoverageInv, Coverage, OutsideIsFlat
        <4> QED
          BY <3>1, <4>4, <4>5
             DEF Coverage, NothingAbove, ReadingIsAccounted, SeenIsReached, SentIsShown, Passing
      <3> QED
        BY <3>2 DEF CoverageInv
    <2>2. CASE QueueCleaned
      <3>1. /\ UNCHANGED <<disk, unheard, historyLost, granted, active, reader, unseen, omitted,
                           rows, tomb, incomplete>>
            /\ pending' = EnqueuedAll(pending, {review})
        BY <2>2 DEF QueueCleaned, Queue, fsVars, claimVars, indexVars, engineVars
      <3>2. {review} \in SUBSET Paths
        BY <1>t, <2>2 DEF QueueCleaned, TypeInv, ReviewHeld, TypeOK, Items
      <3> QED
        BY <1>t, <3>1, <3>2, BatchKeepsCoverage
    <2>3. ASSUME NEW p \in Items, Prepare(p)
          PROVE  CoverageInv'
      BY <1>1, <2>3 DEF Prepare, fsVars, queueVars, claimVars, indexVars, engineVars
    <2>4. CASE ReviewExpires \/ BeginCleanup \/ EndCleanup
      BY <1>1, <2>4
         DEF ReviewExpires, BeginCleanup, EndCleanup, fsVars, queueVars, claimVars, indexVars,
             engineVars
    <2> QED
      BY <1>6, <2>1, <2>2, <2>3, <2>4 DEF Cleanup
  <1>7. ASSUME NEW upgraded \in BOOLEAN, Restart(upgraded)
        PROVE  CoverageInv'
    <2>1. /\ UNCHANGED <<disk, unheard, historyLost, granted, tomb>>
          /\ \A r \in Roots : reader'[r] = None
      BY <1>7 DEF Restart, fsVars
    <2>2. CASE upgraded
      <3>1. \A g \in Roots : g \in incomplete' \/ g \notin granted'
        BY <1>7, <2>1, <2>2 DEF Restart
      <3> QED
        BY <1>t, <2>1, <3>1, CoverageKept
    <2>3. CASE ~upgraded
      <3>1. PICK out \in SUBSET Items, touched \in SUBSET Roots :
                /\ \E still \in BOOLEAN : Trims({}, {}, out, touched, still)
                /\ Recovered(touched)
                /\ rows' = [p \in Items |-> IF p \in out THEN None ELSE rows[p]]
        BY <1>7, <2>3 DEF Restart
      <3>2. \A p \in out : Grant[p] \in touched
        BY <3>1 DEF Trims
      <3>3. \A p \in Items : Grant[p] \notin touched => rows'[p] = rows[p]
        BY <3>1, <3>2
      <3> QED
        BY <1>t, <2>1, <3>1, <3>3, RecoveryKeepsCoverage
    <2> QED
      BY <2>2, <2>3
  <1>8. CASE UNCHANGED vars
    BY <1>1, <1>8 DEF vars, fsVars, queueVars, claimVars, indexVars, engineVars
  <1> QED
    BY <1>3, <1>4, <1>5, <1>6, <1>7, <1>8 DEF Next

LEMMA CoverageInvariant ==
    ASSUME Lapses = {}
    PROVE  Spec => []CoverageInv
  <1>1. Init => AdmissionAlone /\ CoverageInv
    BY DEF Init, AdmissionAlone, CoverageInv, Coverage, OutsideIsAccounted, OutsideIsFlat,
       NothingAbove, ReadingIsAccounted, SeenIsReached, SentIsShown, Trusted, Passing
  <1>2. /\ TypeInv /\ LimitInv /\ ClaimInv /\ OwedInv /\ PassInv /\ AdmissionAlone /\ CoverageInv
        /\ [Next]_vars
        => AdmissionAlone' /\ CoverageInv'
    BY AdmissionAloneStep, CoverageStep
  <1> QED
    BY <1>1, <1>2, TypeInvariant, LimitInvariant, ClaimInvariant, OwedInvariant, PassInvariant,
       PTL DEF Spec

\* A scope that covers a path, or lies inside a row, is widened to look at it.
LEMMA LooksAreMade ==
    ASSUME TypeInv, ClaimInv, CoverageInv
    PROVE  NothingMissed
  <1> SUFFICES ASSUME NEW p \in Items, Grant[p] \in granted \ incomplete, tomb[p] = "none",
                      rows[p] # Truth(p)
               PROVE  \/ historyLost
                      \/ \E x \in unheard : WillLookAt(EventScope[x], p)
                      \/ \E s \in pending \cup active : WillLookAt(s, p)
    BY DEF NothingMissed
  <1> DEFINE g == Grant[p]
  <1>t. TypeOK
    BY DEF TypeInv
  <1>1. g \in Roots /\ p \in Paths /\ reader[g] = None
    BY <1>t, ReaderIsUsable, PathsAssumption DEF Items
  <1>2. Trusted(g) /\ \A x \in Items : Grant[x] = g => x \in Outside(g)
    BY <1>1 DEF Trusted, Outside, FootOf
  <1>3. Due(p) \/ (rows[p] # None /\ \E q \in Below(p) : Due(q))
    BY <1>1, <1>2 DEF CoverageInv, Coverage, OutsideIsAccounted, Accounted
  <1>4. ASSUME NEW s \in Paths, s \in Above[p]
        PROVE  WillLookAt(s, p)
    <2>1. Resolved(s) \in Above[p]
      BY <1>1, <1>4, ResolvedAbove, AboveIsOrdered
    <2> QED
      BY <1>1, <2>1 DEF WillLookAt, Footprint, Below
  <1>5. ASSUME NEW s \in Paths, rows[p] # None, p \in Above[s], p # s
        PROVE  WillLookAt(s, p)
    <2>1. Grant[s] = g
      BY <1>5, PathsAssumption
    <2>2. \A x, y \in Items : /\ Grant[x] = Grant[s] /\ Grant[y] = Grant[s]
                               /\ rows[x] # None /\ rows[y] # None /\ x \in Above[y]
                               => x = y
      BY <1>1, <1>2, <2>1 DEF CoverageInv, Coverage, OutsideIsFlat
    <2>3. Resolved(s) = Normal[p]
      BY <1>5, <2>2, EnclosingRow
    <2>4. Normal[p] \in Above[p]
      BY <1>1, ScopeAssumption
    <2> QED
      BY <1>1, <2>3, <2>4 DEF WillLookAt, Footprint, Below
  <1>6. ASSUME NEW q \in Below(p), rows[p] # None \/ q = p, NEW s \in Paths, s \in Above[q]
        PROVE  WillLookAt(s, p)
    <2>1. q \in Paths /\ p \in Above[q]
      BY DEF Below
    <2>2. s \in Above[p] \/ (p \in Above[s] /\ p # s)
      BY <1>1, <1>6, <2>1, AboveIsChain, PathsAssumption
    <2>3. CASE s \in Above[p]
      BY <1>4, <2>3
    <2>4. CASE s \notin Above[p]
      <3>1. q # p
        BY <1>6, <2>4
      <3> QED
        BY <1>5, <1>6, <2>2, <2>4, <3>1
    <2> QED
      BY <2>3, <2>4
  <1>7. PICK q \in Below(p) : Due(q) /\ (rows[p] # None \/ q = p)
    <2>1. p \in Below(p)
      BY <1>1, PathsAssumption DEF Below
    <2> QED
      BY <1>3, <2>1
  <1>8. CASE \E x \in unheard : EventScope[x] \in Above[q]
    <2>1. PICK x \in unheard : EventScope[x] \in Above[q]
      BY <1>8
    <2>2. EventScope[x] \in Paths
      BY <1>t, ScopeAssumption DEF TypeOK
    <2>3. WillLookAt(EventScope[x], p)
      BY <1>6, <1>7, <2>1, <2>2
    <2> QED
      BY <2>3
  <1>9. CASE Covered(pending \cup active, q)
    <2>1. PICK s \in pending \cup active : s \in Above[q]
      BY <1>9 DEF Covered
    <2>2. WillLookAt(s, p)
      BY <1>t, <1>6, <1>7, <2>1 DEF TypeOK
    <2> QED
      BY <2>2
  <1> QED
    BY <1>7, <1>8, <1>9 DEF Due, Heard, Covered

\* What a complete grant shows is what is on disk, or is hidden by a cleanup, or
\* will be looked at again; what was left out for lack of room is told; and the
\* index keeps within its budget.  Gaps, late and repeated events, changes behind
\* a helper's back, partial and abandoned passes, parking, cancellation, restarts
\* and evictions included, for every tree in which "execute" does not lapse
\* (begin_scope_refresh, save_batch, finish_scope_refresh, recover_discovery,
\* resolve_request).
THEOREM CoverageStaysHonest ==
    ASSUME Lapses = {}
    PROVE  Spec => []CoverageIsHonest
  <1>1. /\ TypeInv /\ LimitInv /\ ClaimInv /\ CoverageInv /\ WithinBudget
        => CoverageIsHonest
    BY LooksAreMade DEF LimitInv, CoverageIsHonest
  <1> QED
    BY <1>1, TypeInvariant, LimitInvariant, ClaimInvariant, CoverageInvariant,
       IndexStaysWithinBudget, PTL

=============================================================================
