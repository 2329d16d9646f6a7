------------------------ MODULE EventDeliveryProofs ------------------------
(***************************************************************************)
(* No change of the file system is skipped, proved for any number of        *)
(* folders, changes, restarts and failures and for every limit of the       *)
(* mailbox.  The last part is about the look at what an event names: how a  *)
(* path below a grant is observed while other programs change it            *)
(* (ScopeProof), for any number of changes and attempts.                    *)
(***************************************************************************)
EXTENDS EventDelivery, FiniteSetTheorems, SequenceTheorems, TLAPS

-----------------------------------------------------------------------------
(* The inductive invariant                                                 *)

\* A batch is about changes that have been; a loss names none.
FitsIn(w, seen, rev) ==
    /\ w \in Batch
    /\ \A n \in w.events : n \in 1..Len(seen) /\ seen[n] \in Roots
    /\ w.last \in 0..Len(seen) /\ w.revision <= rev
    /\ w.lost => w.events = {}
    /\ Cardinality(w.events) <= MaxBatchEvents
Fits(w) == FitsIn(w, changes, revision)
Current(w) == w # None /\ w.revision = revision

WorkInv ==
    /\ callback # None => Fits(callback)
    /\ active # None => Fits(active)
    /\ \A i \in 1..Len(pending) : Fits(pending[i])

\* Where the work at hand is, by what the drain does.
DrainInv ==
    /\ active = None <=> drain = "idle"
    /\ drain \in {"idle", "start"} => reply.drain = None
    /\ drain \in {"idle", "cursor"} => todo = {}
    /\ drain = "reconcile" => active.lost
    /\ active # None /\ active.lost => drain \in {"start", "reconcile"}
    /\ Current(callback) => stream # None /\ callback.last <= stream

\* A folder's changes are told when its request has been answered.
EventsAreHandled ==
    active # None => \A n \in active.events :
        \/ n \in told \/ drain = "start" \/ changes[n] \in todo
        \/ changes[n] = drain /\ reply.drain # TRUE

MailInv ==
    /\ Len(pending) + (IF active = None THEN 0 ELSE 1) <= MaxQueuedBatches
    /\ pending # <<>> => scheduled

Unread(n) == n \in Ids /\ changes[n] \in Roots /\ n \notin told

\* Every cursor lies before a change that is not told, the one that is being sent too.
AheadOfCursors(n) ==
    /\ n > durable /\ n > cursor /\ n > firstCursor /\ n > saving
    /\ drain = "cursor" => n > active.last

\* The receipt of what came before stands: nothing has failed since the last
\* restart, or the whole journal has just been reconciled.
Reconciled == drain = "reconcile" /\ reply.drain = TRUE
Trusted == ~receiptFailed \/ (Reconciled /\ Current(active))

Carries(w, n) == n \in w.events \/ w.lost
AtHand(n) == Current(active) /\ (n \in active.events \/ (active.lost /\ ~Reconciled))
Queued(n, k) == \E i \in 1..k : Current(pending[i]) /\ Carries(pending[i], n)
Waits(n, k) == AtHand(n) \/ Queued(n, k)

StandsInOrder(n) ==
    \A k \in 1..Len(pending) : Current(pending[k]) /\ n <= pending[k].last => Waits(n, k)

\* A change that is not told is in the work that passes it, or in work before.
InOrder(n) ==
    /\ Current(active) /\ n <= active.last => AtHand(n)
    /\ StandsInOrder(n)
    /\ n <= delayed => Waits(n, Len(pending))
    /\ stream # None /\ n <= stream =>
         Waits(n, Len(pending)) \/ (Current(callback) /\ Carries(callback, n))

OnItsWay(n) == AheadOfCursors(n) /\ (Trusted => InOrder(n))
UnreadInv == looked /\ ~early => \A n \in Ids : Unread(n) => OnItsWay(n)

DeliveryInv == TypeOK /\ WorkInv /\ DrainInv /\ EventsAreHandled /\ MailInv /\ UnreadInv

-----------------------------------------------------------------------------
(* The operators                                                           *)

\* The later of two cursors.
LEMMA Later ==
    ASSUME NEW a \in Nat, NEW b \in Nat
    PROVE  Max({a, b}) \in {a, b} /\ Max({a, b}) >= a /\ Max({a, b}) >= b
<1>1. \E x \in {a, b} : \A y \in {a, b} : x >= y
    <2>1. CASE a >= b
        BY <2>1
    <2>2. CASE ~(a >= b)
        BY <2>2
    <2> QED  BY <2>1, <2>2
<1> QED  BY <1>1 DEF Max

\* A batch goes on fitting while changes are added and watchers restarted.
LEMMA FitsLater ==
    ASSUME TypeOK, NEW w, FitsIn(w, changes, revision),
           NEW where \in Roots \cup {"own"},
           NEW seen, seen = changes \/ seen = Append(changes, where),
           NEW rev \in Nat, rev >= revision
    PROVE  FitsIn(w, seen, rev)
<1>0. changes \in Seq(Roots \cup {"own"}) /\ Len(changes) \in Nat /\ revision \in Nat
    BY DEF TypeOK
<1>1. Len(seen) >= Len(changes) /\ Len(seen) \in Nat
    BY <1>0
<1>2. ASSUME NEW n \in 1..Len(changes) PROVE seen[n] = changes[n] /\ n \in 1..Len(seen)
    BY <1>0, <1>1
<1>3. w.revision \in Nat /\ w.last \in Nat /\ w.last \in 0..Len(changes)
    BY <1>0 DEF FitsIn, Batch
<1>4. w.last \in 0..Len(seen) /\ w.revision <= rev
    BY <1>0, <1>1, <1>3 DEF FitsIn
<1> QED  BY <1>2, <1>4 DEF FitsIn

\* What the mailbox makes of a batch: a loss that takes the place of all that
\* waits, the batch behind what waits, or one with the last that waits.
LEMMA PutShape ==
    ASSUME DeliveryAssumption, TypeOK, WorkInv, NEW work, Fits(work)
    PROVE  \/ \E w : /\ Put(work) = <<w>> /\ Fits(w) /\ w.lost
                     /\ w.last = work.last /\ w.revision = work.revision
           \/ /\ Put(work) = Append(pending, work)
              /\ Len(pending) + (IF active = None THEN 0 ELSE 1) < MaxQueuedBatches
           \/ \E w : /\ pending # <<>> /\ Put(work) = [pending EXCEPT ![Len(pending)] = w]
                     /\ Fits(w) /\ ~w.lost /\ ~work.lost /\ ~Last(pending).lost
                     /\ w.events = work.events \cup Last(pending).events
                     /\ w.last \in {work.last, Last(pending).last}
                     /\ w.last >= work.last /\ w.last >= Last(pending).last
                     /\ w.revision = work.revision
                     /\ Last(pending).revision = work.revision
<1> DEFINE z == Last(pending)
           together == /\ pending # <<>> /\ z.revision = work.revision /\ ~z.lost
                       /\ Cardinality(z.events \cup work.events) <= MaxBatchEvents
           m == [work EXCEPT !.events = @ \cup z.events, !.last = Max({@, z.last})]
           l == [work EXCEPT !.events = {}, !.lost = TRUE]
<1>0. work \in Batch
    BY DEF Fits, FitsIn
<1>1. CASE work.lost
    <2>1. Put(work) = <<work>>
        BY <1>1 DEF Put
    <2> QED  BY <1>1, <2>1
<1>2. CASE ~work.lost /\ together
    <2>1. Put(work) = [pending EXCEPT ![Len(pending)] = m]
        BY <1>2, Zenon DEF Put
    <2>2. Len(pending) \in Nat /\ Len(pending) # 0
        BY <1>2 DEF TypeOK
    <2>3. z = pending[Len(pending)] /\ Len(pending) \in 1..Len(pending)
        BY <2>2 DEF Last
    <2>4. Fits(z)
        BY <2>3 DEF WorkInv
    <2> DEFINE e == work.events \cup z.events
               t == Max({work.last, z.last})
    <2>5. t \in {work.last, z.last} /\ t >= work.last /\ t >= z.last
        BY <1>0, <2>4, Later DEF Fits, FitsIn, Batch
    <2>6. z.events \cup work.events = e /\ e \in SUBSET Nat /\ t \in Nat
        BY <1>0, <2>4, <2>5 DEF Fits, FitsIn, Batch
    <2>7. m = [work EXCEPT !.events = e, !.last = t]
        BY <1>0 DEF Batch
    <2> HIDE DEF m, z, t, e
    <2>8. /\ m \in Batch /\ m.events = e /\ m.last = t /\ m.lost = work.lost
          /\ m.revision = work.revision
        BY <1>0, <2>6, <2>7 DEF Batch
    <2>9. Cardinality(e) <= MaxBatchEvents
        BY <1>2, <2>6 DEF z
    <2>10. \A n \in e : n \in 1..Len(changes) /\ changes[n] \in Roots
        BY <2>4 DEF Fits, FitsIn, e
    <2>11. t \in 0..Len(changes)
        BY <2>4, <2>5 DEF Fits, FitsIn
    <2>12. Fits(m)
        BY <1>2, <2>8, <2>9, <2>10, <2>11 DEF Fits, FitsIn
    <2> QED  BY <1>2, <2>1, <2>5, <2>8, <2>12 DEF z, e
<1>3. CASE ~work.lost /\ ~together
    <2>1. \/ /\ Put(work) = Append(pending, work)
             /\ Len(pending) + (IF active = None THEN 0 ELSE 1) < MaxQueuedBatches
          \/ Put(work) = <<l>>
        BY <1>3, Zenon DEF Put
    <2>2. l \in Batch /\ l.events = {} /\ l.lost /\ l.last = work.last /\ l.revision = work.revision
        BY <1>0 DEF Batch
    <2> HIDE DEF l
    <2>3. Cardinality(l.events) <= MaxBatchEvents
        BY <2>2, FS_EmptySet DEF DeliveryAssumption
    <2>4. Fits(l)
        BY <2>2, <2>3 DEF Fits, FitsIn
    <2> QED  BY <2>1, <2>2, <2>4
<1> QED  BY <1>1, <1>2, <1>3

\* The last batch of a queue is replaced.
LEMMA LastReplaced ==
    ASSUME NEW s \in Seq(Batch), s # <<>>, NEW w \in Batch,
           NEW t, t = [s EXCEPT ![Len(s)] = w]
    PROVE  /\ t \in Seq(Batch) /\ Len(t) = Len(s) /\ t[Len(s)] = w
           /\ \A i \in 1..Len(s) : i # Len(s) => t[i] = s[i]
           /\ Last(s) = s[Len(s)] /\ Len(s) \in 1..Len(s) /\ Len(s) \in Nat
BY DEF Last

\* The mailbox keeps within its limit, and what it takes will be drained.
LEMMA EnqueueStep ==
    ASSUME DeliveryAssumption, TypeOK, WorkInv, MailInv, NEW work, Fits(work), Enqueue(work)
    PROVE  /\ pending' \in Seq(Batch) /\ scheduled' \in BOOLEAN
           /\ \A i \in 1..Len(pending') : Fits(pending'[i])
           /\ Len(pending') + (IF active = None THEN 0 ELSE 1) <= MaxQueuedBatches
           /\ pending' # <<>> => scheduled'
<1>0. /\ pending \in Seq(Batch) /\ Len(pending) \in Nat /\ work \in Batch
      /\ MaxQueuedBatches \in Nat /\ MaxQueuedBatches >= 2
    BY DEF TypeOK, Fits, FitsIn, DeliveryAssumption
<1>1. CASE UNCHANGED <<pending, scheduled>>
    BY <1>1 DEF TypeOK, WorkInv, MailInv
<1>2. CASE pending' = Put(work) /\ scheduled' = TRUE
    <2>1. ASSUME NEW w, pending' = <<w>>, Fits(w)
          PROVE  /\ pending' \in Seq(Batch) /\ \A i \in 1..Len(pending') : Fits(pending'[i])
                 /\ Len(pending') + (IF active = None THEN 0 ELSE 1) <= MaxQueuedBatches
        BY <1>0, <2>1 DEF Fits, FitsIn
    <2>2. ASSUME pending' = Append(pending, work),
                 Len(pending) + (IF active = None THEN 0 ELSE 1) < MaxQueuedBatches
          PROVE  /\ pending' \in Seq(Batch) /\ \A i \in 1..Len(pending') : Fits(pending'[i])
                 /\ Len(pending') + (IF active = None THEN 0 ELSE 1) <= MaxQueuedBatches
        <3>1. /\ pending' \in Seq(Batch) /\ Len(pending') = Len(pending) + 1
              /\ pending'[Len(pending) + 1] = work
              /\ \A i \in 1..Len(pending) : pending'[i] = pending[i]
            BY <1>0, <2>2
        <3> QED  BY <1>0, <2>2, <3>1 DEF WorkInv
    <2>3. ASSUME NEW w, pending # <<>>, pending' = [pending EXCEPT ![Len(pending)] = w], Fits(w)
          PROVE  /\ pending' \in Seq(Batch) /\ \A i \in 1..Len(pending') : Fits(pending'[i])
                 /\ Len(pending') + (IF active = None THEN 0 ELSE 1) <= MaxQueuedBatches
        <3>1. /\ pending' \in Seq(Batch) /\ Len(pending') = Len(pending)
              /\ pending'[Len(pending)] = w
              /\ \A i \in 1..Len(pending) : i # Len(pending) => pending'[i] = pending[i]
            BY <1>0, <2>3, LastReplaced DEF Fits, FitsIn
        <3> QED  BY <1>0, <2>3, <3>1 DEF WorkInv, MailInv
    <2> QED  BY <1>2, <2>1, <2>2, <2>3, PutShape
<1> QED  BY <1>1, <1>2 DEF Enqueue

-----------------------------------------------------------------------------
(* Types, work and the mailbox                                             *)

\* Every batch fits after a step that leaves the batches alone.
LEMMA WorkKept ==
    ASSUME TypeOK, WorkInv, NEW where \in Roots \cup {"own"},
           changes' = changes \/ changes' = Append(changes, where),
           revision' \in Nat, revision' >= revision,
           callback' \in {callback, None}, active' \in {active, None},
           \A i \in 1..Len(pending') : \/ i \in 1..Len(pending) /\ pending'[i] = pending[i]
                                       \/ Fits(pending'[i])
    PROVE  WorkInv'
<1>1. ASSUME NEW w, Fits(w) PROVE FitsIn(w, changes', revision')
    BY <1>1, FitsLater DEF Fits
<1> QED  BY <1>1 DEF WorkInv, Fits

\* Work of the current watcher.
LEMMA WorkBatch ==
    ASSUME TypeOK, NEW e \in SUBSET Nat, NEW last \in Nat, NEW x \in BOOLEAN
    PROVE  /\ Work(e, last, x) \in Batch /\ Work(e, last, x).events = e
           /\ Work(e, last, x).last = last /\ Work(e, last, x).lost = x
           /\ Work(e, last, x).revision = revision
BY DEF TypeOK, Work, Batch

\* A loss tells of no event.
LEMMA LossBatch ==
    ASSUME TypeOK, NEW last \in Nat
    PROVE  /\ Work({}, last, TRUE) \in Batch /\ Work({}, last, TRUE).events = {}
           /\ Work({}, last, TRUE).last = last /\ Work({}, last, TRUE).lost = TRUE
           /\ Work({}, last, TRUE).revision = revision
BY DEF TypeOK, Work, Batch

\* A cursor is put off.
LEMMA BatchUpTo ==
    ASSUME NEW b \in Batch, NEW l \in Nat, NEW w, w = [b EXCEPT !.last = l]
    PROVE  /\ w \in Batch /\ w.events = b.events /\ w.last = l
           /\ w.lost = b.lost /\ w.revision = b.revision
BY DEF Batch

\* What a callback hands over: a bare cursor is put off, and one that was put
\* off comes with the changes after it.
Handed(w) ==
    /\ Fits(w) /\ Fits(callback) /\ callback.last \in Nat
    /\ \/ callback.revision # revision /\ UNCHANGED <<delayed, pending, scheduled>>
       \/ /\ callback.revision = revision /\ Enqueue(w) /\ delayed' = 0
          /\ w.revision = revision /\ w.events = callback.events /\ w.lost = callback.lost
          /\ w.last \in {callback.last, delayed}
       \/ /\ delayed' \in {callback.last, delayed} /\ delayed' \in 0..Now
          /\ UNCHANGED <<pending, scheduled>>
          /\ callback.revision = revision /\ ~callback.lost /\ callback.events = {}

\* A callback that runs hands its batch over, merged with the cursor that was put off.
LEMMA ReceiveShape ==
    ASSUME DeliveryAssumption, TypeOK, WorkInv, Receive
    PROVE  \E w : Handed(w)
<1>1. callback \in Batch /\ Fits(callback)
    BY DEF TypeOK, Receive, WorkInv
<1>2. /\ callback.last \in Nat /\ callback.last \in 0..Now /\ delayed \in Nat /\ delayed \in 0..Now
      /\ callback.events \in SUBSET Nat /\ callback.lost \in BOOLEAN
    BY <1>1 DEF TypeOK, Batch, Fits, FitsIn, Now
<1>3. Max({callback.last, delayed}) \in {callback.last, delayed}
    BY <1>2, Later
<1> DEFINE l == IF callback.lost THEN callback.last ELSE Max({callback.last, delayed})
           w == [callback EXCEPT !.last = l]
<1>4. l \in 0..Now /\ l \in {callback.last, delayed}
    BY <1>2, <1>3
<1>5. \/ callback.revision # revision /\ UNCHANGED <<delayed, pending, scheduled>>
      \/ callback.revision = revision /\ delayed' = 0 /\ Enqueue(w)
      \/ /\ delayed' = Max({callback.last, delayed}) /\ UNCHANGED <<pending, scheduled>>
         /\ callback.revision = revision /\ ~callback.lost /\ callback.events = {}
    BY <1>1 DEF Receive, Batch
<1>6. l \in Nat
    BY <1>2, <1>4
<1> HIDE DEF l
<1>7. /\ w \in Batch /\ w.events = callback.events /\ w.last = l
      /\ w.lost = callback.lost /\ w.revision = callback.revision
    BY <1>1, <1>6, BatchUpTo
<1> HIDE DEF w
<1>8. Fits(w)
    BY <1>1, <1>4, <1>7 DEF Fits, FitsIn, Now
<1>9. Handed(w)
    BY <1>1, <1>2, <1>3, <1>4, <1>5, <1>7, <1>8 DEF Handed
<1> QED  BY <1>9

\* The cursor that was put off makes a batch that fits.
LEMMA FlushFits ==
    ASSUME DeliveryAssumption, TypeOK
    PROVE  Fits(Work({}, delayed, FALSE))
BY FS_EmptySet DEF TypeOK, Fits, FitsIn, Work, Batch, Now, DeliveryAssumption

\* What is answered to be done has been done.
LEMMA OutcomeTypes ==
    ASSUME NEW o \in Outcomes
    PROVE  o.commit \in BOOLEAN /\ o.ok \in BOOLEAN /\ (o.ok => o.commit)
<1>1. ASSUME o \in {[commit |-> TRUE, ok |-> TRUE]} PROVE o.commit = TRUE /\ o.ok = TRUE
    BY <1>1
<1>2. ASSUME NEW p \in [commit : BOOLEAN, ok : {FALSE}] PROVE p.commit \in BOOLEAN /\ p.ok = FALSE
    <2>1. p.ok \in {FALSE}
        OBVIOUS
    <2> QED  BY <2>1
<1>3. o \in {[commit |-> TRUE, ok |-> TRUE]} \/ o \in [commit : BOOLEAN, ok : {FALSE}]
    BY DEF Outcomes
<1> QED  BY <1>1, <1>2, <1>3

\* The main actor's and the system's steps keep the types.
LEMMA TypeStep ==
    ASSUME DeliveryAssumption, TypeOK, WorkInv, DrainInv, MailInv, [Next]_vars
    PROVE  TypeOK'
<1> USE DEF TypeOK, Now
<1> DEFINE Numbers == /\ changes \in Seq(Roots \cup {"own"})
                      /\ stream \in (0..Now) \cup {None} /\ delayed \in 0..Now
                      /\ revision \in Nat /\ cursor \in 0..Now /\ firstCursor \in 0..Now
                      /\ saving \in 0..Now /\ durable \in 0..Now
           Mail == /\ callback \in Batch \cup {None} /\ active \in Batch \cup {None}
                   /\ pending \in Seq(Batch) /\ scheduled \in BOOLEAN
           Actor == /\ receiptFailed \in BOOLEAN /\ looked \in BOOLEAN /\ early \in BOOLEAN
                    /\ drain \in Roots \cup {"idle", "start", "reconcile", "cursor"}
                    /\ todo \subseteq Roots /\ asking \in {"idle", "scan", "cursor"}
                    /\ reply \in [drain : BOOLEAN \cup {None}, ask : BOOLEAN \cup {None}]
<1>0. Now \in Nat /\ changes \in Seq(Roots \cup {"own"})
    OBVIOUS
<1>1. ASSUME NEW where \in Roots \cup {"own"}, Change(where) PROVE TypeOK'
    <2>1. changes' \in Seq(Roots \cup {"own"}) /\ Now' = Now + 1
        BY <1>1 DEF Change, Now
    <2>2. 0..Now \subseteq 0..Now'
        BY <1>0, <2>1
    <2> QED  BY <1>1, <2>1, <2>2 DEF Change, producer, mailbox, bridge, journal
<1>2. ASSUME NEW n \in Ids, NEW dropped \in BOOLEAN, Callback(n, dropped) PROVE TypeOK'
    <2>1. n \in Nat /\ n \in 0..Now
        BY <1>0 DEF Ids
    <2> DEFINE events == {i \in stream + 1..n : changes[i] \in Roots}
    <2>2. stream \in Nat
        BY <1>2 DEF Callback
    <2>3. events \in SUBSET Nat
        BY <2>1, <2>2
    <2>4. callback' = Work({}, n, TRUE) \/ callback' = Work(events, n, FALSE)
        BY <1>2, Zenon DEF Callback
    <2> HIDE DEF events
    <2>5. callback' \in Batch
        <3>1. {} \in SUBSET Nat /\ TRUE \in BOOLEAN /\ FALSE \in BOOLEAN
            OBVIOUS
        <3>2. Work({}, n, TRUE) \in Batch /\ Work(events, n, FALSE) \in Batch
            BY <2>1, <2>3, <3>1, WorkBatch
        <3> QED  BY <2>4, <3>2
    <2>6. stream' = n /\ UNCHANGED <<system, delayed, mailbox, bridge, journal, early>>
        BY <1>2, Zenon DEF Callback
    <2> QED  BY <2>1, <2>5, <2>6 DEF system, mailbox, bridge, journal
<1>3. ASSUME Receive PROVE TypeOK'
    <2>1. PICK w : Handed(w)
        BY <1>3, ReceiveShape, Zenon
    <2>2. delayed' \in 0..Now
        BY <1>0, <2>1, Later DEF Handed
    <2>3. pending' \in Seq(Batch) /\ scheduled' \in BOOLEAN
        BY <2>1, EnqueueStep DEF Handed
    <2>4. callback' = None /\ UNCHANGED <<system, stream, active, bridge, journal, early>>
        BY <1>3 DEF Receive
    <2> QED  BY <2>2, <2>3, <2>4 DEF system, bridge, journal
<1>4. ASSUME Flush PROVE TypeOK'
    <2>1. pending' \in Seq(Batch) /\ scheduled' \in BOOLEAN
        BY <1>4, FlushFits, EnqueueStep DEF Flush
    <2> QED  BY <1>4, <2>1 DEF Flush, system, bridge, journal
<1>5. ASSUME NEW outcome \in Outcomes,
             \/ \E r \in Roots : Dirty(r, outcome)
             \/ ReconcileEvents(outcome) \/ Scan(outcome)
             \/ drain = "cursor" /\ reply.drain = None /\ Cursor("drain", active.last, outcome)
             \/ asking = "cursor" /\ reply.ask = None /\ Cursor("ask", saving, outcome)
      PROVE  TypeOK'
    <2>0. outcome.ok \in BOOLEAN /\ outcome.commit \in BOOLEAN
        BY OutcomeTypes
    <2>1. ASSUME NEW who \in {"drain", "ask"}, Answer(who, outcome)
          PROVE  /\ reply' \in [drain : BOOLEAN \cup {None}, ask : BOOLEAN \cup {None}]
                 /\ UNCHANGED <<changes, producer, mailbox, revision, cursor, firstCursor,
                                receiptFailed, drain, todo, asking, saving>>
        BY <2>0, <2>1 DEF Answer
    <2>2. ASSUME NEW last \in 0..Now, durable' = IF outcome.commit THEN Max({durable, last}) ELSE durable
          PROVE  durable' \in 0..Now
        BY <1>0, <2>2, Later
    <2>3. drain \in {"cursor", "reconcile"} => active # None /\ active.last \in 0..Now
        BY DEF WorkInv, DrainInv, Fits, FitsIn
    <2>4. CASE \E r \in Roots : Dirty(r, outcome)
        BY <2>1, <2>4 DEF Dirty, producer, mailbox
    <2>5. CASE ReconcileEvents(outcome)
        BY <2>1, <2>3, <2>5 DEF ReconcileEvents, journal, producer, mailbox
    <2>6. CASE Scan(outcome)
        BY <2>1, <2>6 DEF Scan, producer, mailbox
    <2>7. CASE drain = "cursor" /\ Cursor("drain", active.last, outcome)
        <3>1. durable' \in 0..Now
            BY <2>2, <2>3, <2>7 DEF Cursor
        <3> QED  BY <2>1, <2>7, <3>1 DEF Cursor, producer, mailbox
    <2>8. CASE asking = "cursor" /\ Cursor("ask", saving, outcome)
        <3>1. durable' \in 0..Now
            BY <2>2, <2>8 DEF Cursor
        <3> QED  BY <2>1, <2>8, <3>1 DEF Cursor, producer, mailbox
    <2> QED  BY <1>5, <2>4, <2>5, <2>6, <2>7, <2>8
<1>6. ASSUME StartNext \/ EndDrain PROVE TypeOK'
    <2>1. CASE StartNext
        <3>1. Head(pending) \in Batch /\ Tail(pending) \in Seq(Batch)
            BY <2>1 DEF StartNext
        <3> QED  BY <2>1, <3>1 DEF StartNext, still, system, producer, journal
    <2>2. CASE EndDrain
        <3>1. Numbers'
            BY <1>0, <2>2 DEF EndDrain, still, system, producer, journal
        <3>2. Mail'
            BY <2>2 DEF EndDrain, still, producer
        <3>3. Actor'
            BY <2>2 DEF EndDrain, still, journal
        <3> QED  BY <3>1, <3>2, <3>3
    <2> QED  BY <1>6, <2>1, <2>2
<1>7. ASSUME Process \/ Continue PROVE TypeOK'
    <2>1. ASSUME NEW left \in SUBSET Roots, Submit(active, left)
          PROVE  /\ drain' \in Roots \cup {"idle", "start", "reconcile", "cursor"}
                 /\ todo' \subseteq Roots /\ active' \in {active, None}
                 /\ reply' \in [drain : BOOLEAN \cup {None}, ask : BOOLEAN \cup {None}]
        BY <2>1 DEF Submit, Finish
    <2>2. ASSUME Finish
          PROVE  /\ drain' \in Roots \cup {"idle", "start", "reconcile", "cursor"}
                 /\ todo' \subseteq Roots /\ active' \in {active, None}
                 /\ reply' \in [drain : BOOLEAN \cup {None}, ask : BOOLEAN \cup {None}]
        BY <2>2 DEF Finish
    <2>3. active # None => active.last \in 0..Now /\ {changes[n] : n \in active.events} \subseteq Roots
        BY DEF WorkInv, Fits, FitsIn
    <2>4. CASE Process
        <3>1. /\ drain' \in Roots \cup {"idle", "start", "reconcile", "cursor"}
              /\ todo' \subseteq Roots /\ active' \in {active, None}
              /\ reply' \in [drain : BOOLEAN \cup {None}, ask : BOOLEAN \cup {None}]
            BY <2>1, <2>2, <2>3, <2>4 DEF Process, DrainInv
        <3> QED  BY <2>4, <3>1 DEF Process, still, system, producer, journal
    <2>5. CASE Continue
        <3>0. active # None
            BY <2>5 DEF Continue, DrainInv
        <3>1. \/ Finish /\ UNCHANGED <<cursor, receiptFailed>>
              \/ Finish /\ receiptFailed' = TRUE /\ UNCHANGED cursor
              \/ Finish /\ cursor' = active.last /\ receiptFailed' = FALSE
              \/ Finish /\ cursor' = durable /\ UNCHANGED receiptFailed
              \/ Submit(active, todo) /\ UNCHANGED <<cursor, receiptFailed>>
            BY <2>5 DEF Continue
        <3>2. /\ drain' \in Roots \cup {"idle", "start", "reconcile", "cursor"}
              /\ todo' \subseteq Roots /\ active' \in {active, None}
              /\ reply' \in [drain : BOOLEAN \cup {None}, ask : BOOLEAN \cup {None}]
            BY <2>1, <2>2, <3>1
        <3>3. cursor' \in 0..Now /\ receiptFailed' \in BOOLEAN
            BY <2>3, <3>0, <3>1
        <3> QED  BY <2>5, <3>2, <3>3 DEF Continue, still, system, producer, journal
    <2> QED  BY <1>7, <2>4, <2>5
<1>8. ASSUME Start PROVE TypeOK'
    <2>1. early' \in BOOLEAN
        BY <1>8, Zenon DEF Start
    <2>2. \/ stream' = Now /\ firstCursor' = Now
          \/ stream' = durable /\ firstCursor' = firstCursor
        BY <1>8 DEF Start, Restarted
    <2>3. revision' = revision + 1 /\ receiptFailed' = FALSE /\ delayed' = 0 /\ UNCHANGED callback
        BY <1>8 DEF Start, Restarted
    <2>4. /\ cursor' = durable /\ asking' \in {"idle", "scan"}
          /\ UNCHANGED <<system, mailbox, drain, todo, saving, reply, journal>>
        BY <1>8 DEF Start
    <2>5. Numbers'
        BY <1>0, <2>2, <2>3, <2>4 DEF system, mailbox, journal
    <2>6. Mail'
        BY <2>3, <2>4 DEF mailbox
    <2>7. Actor'
        BY <2>1, <2>3, <2>4 DEF journal
    <2> QED  BY <2>5, <2>6, <2>7
<1>9. ASSUME NEW access \in BOOLEAN, RestartWatcher(access) PROVE TypeOK'
    <2>1. early' \in BOOLEAN
        BY <1>9, Zenon DEF RestartWatcher
    <2>2. \/ stream' = Now /\ firstCursor' = Now
          \/ stream' = cursor /\ firstCursor' = firstCursor
          \/ stream' = None /\ firstCursor' = firstCursor
        BY <1>9 DEF RestartWatcher, Restarted
    <2>3. revision' = revision + 1 /\ receiptFailed' = FALSE /\ delayed' = 0 /\ UNCHANGED callback
        BY <1>9 DEF RestartWatcher, Restarted
    <2>4. UNCHANGED <<changes, mailbox, cursor, drain, todo, asking, saving, reply, journal>>
        BY <1>9 DEF RestartWatcher
    <2>5. Numbers'
        BY <1>0, <2>2, <2>3, <2>4 DEF mailbox, journal
    <2>6. Mail'
        BY <2>3, <2>4 DEF mailbox
    <2>7. Actor'
        BY <2>1, <2>3, <2>4 DEF journal
    <2> QED  BY <2>5, <2>6, <2>7
<1>10. ASSUME Refresh PROVE TypeOK'
    BY <1>10 DEF Refresh, producer, mailbox, journal
<1>11. ASSUME Accepted PROVE TypeOK'
    BY <1>11 DEF Accepted, system, producer, mailbox, journal
<1>12. ASSUME Quit PROVE TypeOK'
    <2>1. pending' \in Seq(Batch) /\ reply' \in [drain : BOOLEAN \cup {None}, ask : BOOLEAN \cup {None}]
        BY <1>12 DEF Quit
    <2>2. Numbers'
        BY <1>0, <1>12 DEF Quit, journal
    <2>3. Mail'
        BY <1>12, <2>1 DEF Quit
    <2>4. Actor'
        BY <1>12, <2>1 DEF Quit, journal
    <2> QED  BY <2>2, <2>3, <2>4
<1>13. ASSUME UNCHANGED vars PROVE TypeOK'
    BY <1>13 DEF vars, system, producer, mailbox, bridge, journal
<1> QED
    BY <1>1, <1>2, <1>3, <1>4, <1>5, <1>6, <1>7, <1>8, <1>9, <1>10, <1>11, <1>12, <1>13, Zenon
       DEF Next, Watching, Engine, Draining

\* A request changes the journal and its own answer alone.
LEMMA EngineShape ==
    ASSUME TypeOK, Engine
    PROVE  /\ UNCHANGED <<changes, restarts, producer, mailbox, revision, cursor, firstCursor,
                          receiptFailed, drain, todo, asking, saving>>
           /\ \E who \in {"drain", "ask"}, outcome \in Outcomes :
                reply' = [reply EXCEPT ![who] = outcome.ok] /\ reply[who] = None
BY Zenon DEF Engine, Dirty, ReconcileEvents, Scan, Cursor, Answer

\* The work of a callback that is being decoded.
LEMMA CallbackFits ==
    ASSUME DeliveryAssumption, TypeOK, NEW n \in Ids, NEW dropped \in BOOLEAN, Callback(n, dropped)
    PROVE  /\ Fits(callback') /\ callback'.revision = revision /\ callback'.last = n
           /\ stream \in Nat /\ n \in stream + 1..Now /\ stream' = n
           /\ \A m \in stream + 1..n : changes[m] \in Roots => Carries(callback', m)
<1> DEFINE events == {i \in stream + 1..n : changes[i] \in Roots}
<1>0. Now = Len(changes) /\ Now \in Nat /\ n \in Nat /\ n \in 1..Now /\ revision \in Nat
    BY DEF TypeOK, Now, Ids
<1>1. stream \in Nat /\ n \in stream + 1..Now /\ stream' = n
    BY <1>0 DEF Callback, TypeOK
<1>2. events \in SUBSET Nat /\ \A i \in events : i \in 1..Now /\ changes[i] \in Roots
    BY <1>0, <1>1
<1>3. \/ callback' = Work({}, n, TRUE)
      \/ callback' = Work(events, n, FALSE) /\ ~(Cardinality(events) > MaxBatchEvents)
    BY Zenon DEF Callback
<1>4. \A m \in stream + 1..n : changes[m] \in Roots => m \in events
    OBVIOUS
<1>5. Cardinality({}) = 0 /\ {} \in SUBSET Nat
    BY FS_EmptySet
<1>6. IsFiniteSet(events)
    <2>1. IsFiniteSet(stream + 1..n)
        BY <1>0, <1>1, FS_Interval
    <2> QED  BY <2>1, FS_Subset
<1>7. Cardinality(events) \in Nat
    BY <1>6, FS_CardinalityType
<1> HIDE DEF events
<1>8. CASE callback' = Work({}, n, TRUE)
    <2>1. /\ callback' \in Batch /\ callback'.events = {} /\ callback'.last = n
          /\ callback'.lost = TRUE /\ callback'.revision = revision
        BY <1>0, <1>8, LossBatch
    <2>2. Cardinality(callback'.events) <= MaxBatchEvents
        BY <1>5, <2>1 DEF DeliveryAssumption
    <2> QED  BY <1>0, <1>1, <2>1, <2>2 DEF Fits, FitsIn, Carries, Now
<1>9. CASE callback' = Work(events, n, FALSE) /\ ~(Cardinality(events) > MaxBatchEvents)
    <2>1. Cardinality(events) <= MaxBatchEvents
        BY <1>7, <1>9 DEF DeliveryAssumption
    <2>2. /\ callback' \in Batch /\ callback'.events = events /\ callback'.last = n
          /\ callback'.lost = FALSE /\ callback'.revision = revision
        BY <1>0, <1>2, <1>9, WorkBatch
    <2>3. \A m \in callback'.events : m \in 1..Len(changes) /\ changes[m] \in Roots
        BY <1>0, <1>2, <2>2
    <2>4. FitsIn(callback', changes, revision)
        BY <1>0, <2>1, <2>2, <2>3 DEF FitsIn
    <2> QED  BY <1>1, <1>4, <2>2, <2>4 DEF Fits, Carries
<1> QED  BY <1>3, <1>8, <1>9

\* The drain goes on with the work at hand, or ends it.
Goes(left) ==
    \/ \E r \in left : /\ drain' = r /\ todo' = left \ {r} /\ active' = active
                      /\ reply' = [reply EXCEPT !.drain = None]
    \/ /\ left = {} /\ ThenCursor(receiptFailed, cursor)
       /\ drain' = "cursor" /\ todo' = {} /\ active' = active
       /\ reply' = [reply EXCEPT !.drain = None]
    \/ Finish /\ left = {}

\* Submit sends the next request for the work at hand, or ends it.
LEMMA SubmitShape ==
    ASSUME NEW left, Submit(active, left)
    PROVE  Goes(left)
BY Zenon DEF Submit, Goes

\* What becomes of a batch that has been taken: nothing for an earlier watcher, a
\* reconciliation for a loss, else a request for each of its folders.
LEMMA ProcessShape ==
    ASSUME Process
    PROVE  /\ drain = "start"
           /\ UNCHANGED <<still, pending, scheduled, cursor, receiptFailed>>
           /\ \/ Finish /\ active.revision # revision
              \/ /\ active.revision = revision /\ active.lost
                 /\ drain' = "reconcile" /\ UNCHANGED <<active, todo, reply>>
              \/ /\ active.revision = revision /\ ~active.lost
                 /\ Goes({changes[n] : n \in active.events})
BY Zenon, SubmitShape DEF Process

\* What the continuation of a request does, by the watcher it was for and its answer.
LEMMA ContinueShape ==
    ASSUME TypeOK, Continue
    PROVE  /\ drain \notin {"idle", "start"} /\ reply.drain \in BOOLEAN
           /\ UNCHANGED <<still, pending, scheduled>>
           /\ \/ Finish /\ UNCHANGED <<cursor, receiptFailed>> /\ active.revision # revision
              \/ Finish /\ receiptFailed' = TRUE /\ UNCHANGED cursor /\ reply.drain = FALSE
              \/ /\ Finish /\ cursor' = active.last /\ receiptFailed' = FALSE
                 /\ drain = "reconcile" /\ reply.drain = TRUE /\ active.revision = revision
              \/ /\ Finish /\ cursor' = durable /\ UNCHANGED receiptFailed
                 /\ drain = "cursor" /\ reply.drain = TRUE /\ active.revision = revision
              \/ /\ Goes(todo) /\ UNCHANGED <<cursor, receiptFailed>>
                 /\ drain \in Roots /\ reply.drain = TRUE /\ active.revision = revision
<1>1. drain \notin {"idle", "start"} /\ reply.drain \in BOOLEAN
    BY DEF TypeOK, Continue
<1>2. \/ Finish /\ UNCHANGED <<cursor, receiptFailed>> /\ active.revision # revision
      \/ Finish /\ receiptFailed' = TRUE /\ UNCHANGED cursor /\ reply.drain = FALSE
      \/ /\ Finish /\ cursor' = active.last /\ receiptFailed' = FALSE
         /\ drain = "reconcile" /\ reply.drain = TRUE /\ active.revision = revision
      \/ /\ Finish /\ cursor' = durable /\ UNCHANGED receiptFailed
         /\ drain = "cursor" /\ reply.drain = TRUE /\ active.revision = revision
      \/ /\ Submit(active, todo) /\ UNCHANGED <<cursor, receiptFailed>>
         /\ drain \in Roots /\ reply.drain = TRUE /\ active.revision = revision
    BY <1>1 DEF TypeOK, Continue
<1>3. UNCHANGED <<still, pending, scheduled>>
    BY DEF Continue
<1> QED  BY <1>1, <1>2, <1>3, SubmitShape

\* The batches fit after every step.
LEMMA WorkStep ==
    ASSUME DeliveryAssumption, TypeOK, WorkInv, DrainInv, MailInv, [Next]_vars
    PROVE  WorkInv'
<1>0. /\ Len(pending) \in Nat /\ revision \in Nat /\ pending \in Seq(Batch)
      /\ "own" \in Roots \cup {"own"}
    BY DEF TypeOK
<1>1. ASSUME UNCHANGED <<changes, revision, callback, active, pending>> PROVE WorkInv'
    BY <1>1 DEF WorkInv, Fits
<1>2. ASSUME NEW where \in Roots \cup {"own"}, Change(where) PROVE WorkInv'
    BY <1>0, <1>2, WorkKept DEF Change, producer, mailbox, bridge
<1>3. ASSUME NEW n \in Ids, NEW dropped \in BOOLEAN, Callback(n, dropped) PROVE WorkInv'
    <2>1. UNCHANGED <<changes, revision, active, pending>>
        BY <1>3 DEF Callback, system, mailbox, bridge
    <2> QED  BY <1>3, <2>1, CallbackFits DEF WorkInv, Fits
<1>4. ASSUME Receive PROVE WorkInv'
    <2>1. PICK w : Handed(w)
        BY <1>4, ReceiveShape, Zenon
    <2>2. callback' = None /\ UNCHANGED <<changes, revision, active>>
        BY <1>4 DEF Receive, system, bridge
    <2>3. \A i \in 1..Len(pending') : Fits(pending'[i])
        BY <2>1, EnqueueStep DEF Handed, WorkInv
    <2> QED  BY <2>2, <2>3 DEF WorkInv, Fits
<1>5. ASSUME Flush PROVE WorkInv'
    <2>1. \A i \in 1..Len(pending') : Fits(pending'[i])
        BY <1>5, FlushFits, EnqueueStep DEF Flush
    <2> QED  BY <1>5, <2>1 DEF Flush, WorkInv, Fits, system, bridge
<1>6. ASSUME Engine PROVE WorkInv'
    BY <1>1, <1>6, EngineShape DEF producer, mailbox
<1>7. ASSUME StartNext PROVE WorkInv'
    <2>1. /\ active' = pending[1] /\ Len(pending) > 0 /\ Len(pending') = Len(pending) - 1
          /\ \A i \in 1..Len(pending') : pending'[i] = pending[i + 1]
        BY <1>0, <1>7 DEF StartNext
    <2>2. UNCHANGED <<changes, revision, callback>>
        BY <1>7 DEF StartNext, still, system, producer
    <2>3. 1 \in 1..Len(pending) /\ \A i \in 1..Len(pending') : i + 1 \in 1..Len(pending)
        BY <1>0, <2>1
    <2> QED  BY <2>1, <2>2, <2>3 DEF WorkInv, Fits
<1>8. ASSUME EndDrain PROVE WorkInv'
    BY <1>1, <1>8 DEF EndDrain, still, system, producer
<1>9. ASSUME Process \/ Continue PROVE WorkInv'
    <2>1. UNCHANGED <<changes, revision, callback, pending>>
        BY <1>9 DEF Process, Continue, still, system, producer
    <2>2. active' \in {active, None}
        BY <1>9, ProcessShape, ContinueShape DEF Goes, Finish
    <2> QED  BY <2>1, <2>2 DEF WorkInv, Fits
<1>10. ASSUME Start \/ \E access \in BOOLEAN : RestartWatcher(access) PROVE WorkInv'
    <2>1. /\ UNCHANGED <<changes, callback, active, pending>>
          /\ revision' = revision + 1
        BY <1>10 DEF Start, RestartWatcher, Restarted, system, mailbox
    <2> QED  BY <1>0, <2>1, WorkKept
<1>11. ASSUME Refresh \/ Accepted PROVE WorkInv'
    BY <1>1, <1>11 DEF Refresh, Accepted, system, producer, mailbox
<1>12. ASSUME Quit PROVE WorkInv'
    BY <1>12 DEF Quit, WorkInv
<1>13. ASSUME UNCHANGED vars PROVE WorkInv'
    BY <1>1, <1>13 DEF vars, system, producer, mailbox, bridge
<1> QED
    BY <1>2, <1>3, <1>4, <1>5, <1>6, <1>7, <1>8, <1>9, <1>10, <1>11, <1>12, <1>13, Zenon
       DEF Next, Watching, Draining

\* The drain knows where the work at hand is.
LEMMA DrainStep ==
    ASSUME DeliveryAssumption, TypeOK, WorkInv, DrainInv, [Next]_vars
    PROVE  DrainInv'
<1> DEFINE Hand == /\ active = None <=> drain = "idle"
                   /\ drain \in {"idle", "start"} => reply.drain = None
                   /\ drain \in {"idle", "cursor"} => todo = {}
                   /\ drain = "reconcile" => active.lost
                   /\ active # None /\ active.lost => drain \in {"start", "reconcile"}
           Call == Current(callback) => stream # None /\ callback.last <= stream
<1>0. /\ Hand /\ Call /\ None \notin Batch /\ Roots \cap {"idle", "start", "reconcile", "cursor"} = {}
      /\ reply \in [drain : BOOLEAN \cup {None}, ask : BOOLEAN \cup {None}] /\ revision \in Nat
    BY DEF DrainInv, DeliveryAssumption, TypeOK
<1>1. ASSUME Hand', Call' PROVE DrainInv'
    BY <1>1 DEF DrainInv
<1>2. ASSUME UNCHANGED <<active, drain, reply, todo, callback, stream, revision>> PROVE DrainInv'
    BY <1>0, <1>2 DEF DrainInv, Current
<1>3. ASSUME \E where \in Roots \cup {"own"} : Change(where) PROVE DrainInv'
    BY <1>2, <1>3 DEF Change, producer, mailbox, bridge
<1>4. ASSUME NEW n \in Ids, NEW dropped \in BOOLEAN, Callback(n, dropped) PROVE DrainInv'
    <2>1. UNCHANGED <<active, drain, reply, todo, revision>>
        BY <1>4 DEF Callback, mailbox, bridge
    <2>2. callback'.last = stream' /\ stream' \in Nat
        BY <1>4, CallbackFits DEF Ids, Now, TypeOK
    <2>3. stream' # None
        BY <2>2 DEF DeliveryAssumption
    <2>4. Call'
        BY <2>2, <2>3 DEF Current
    <2> QED  BY <1>0, <1>1, <2>1, <2>4
<1>5. ASSUME Receive PROVE DrainInv'
    BY <1>0, <1>1, <1>5 DEF Receive, bridge, Current
<1>6. ASSUME Flush PROVE DrainInv'
    BY <1>2, <1>6 DEF Flush, bridge
<1>7. ASSUME Engine PROVE DrainInv'
    <2>1. UNCHANGED <<active, drain, todo, callback, stream, revision>>
        BY <1>7, EngineShape DEF producer, mailbox
    <2>2. reply'.drain = reply.drain \/ drain \notin {"idle", "start"}
        <3>1. PICK outcome \in Outcomes :
                \/ \E r \in Roots : Dirty(r, outcome)
                \/ ReconcileEvents(outcome) \/ Scan(outcome)
                \/ drain = "cursor" /\ reply.drain = None /\ Cursor("drain", active.last, outcome)
                \/ asking = "cursor" /\ reply.ask = None /\ Cursor("ask", saving, outcome)
            BY <1>7 DEF Engine
        <3>2. ASSUME Answer("ask", outcome) PROVE reply'.drain = reply.drain
            BY <1>0, <3>2 DEF Answer
        <3> QED  BY <1>0, <3>1, <3>2 DEF Dirty, ReconcileEvents, Scan, Cursor
    <2> QED  BY <1>0, <1>1, <2>1, <2>2 DEF Current
<1>8. ASSUME StartNext PROVE DrainInv'
    <2>1. active' \in Batch /\ drain' = "start" /\ active = None
        BY <1>8 DEF StartNext, TypeOK
    <2>2. UNCHANGED <<reply, todo, callback, stream, revision>>
        BY <1>8 DEF StartNext, still, producer
    <2>3. Hand'
        BY <1>0, <2>1, <2>2
    <2>4. Call'
        BY <1>0, <2>2 DEF Current
    <2> QED  BY <1>1, <2>3, <2>4
<1>9. ASSUME EndDrain PROVE DrainInv'
    BY <1>2, <1>9 DEF EndDrain, still, producer
<1>10. ASSUME Process \/ Continue PROVE DrainInv'
    <2>1. UNCHANGED <<callback, stream, revision>>
        BY <1>10 DEF Process, Continue, still, producer
    <2>2. Call'
        BY <1>0, <2>1 DEF Current
    <2>3. ASSUME Finish PROVE Hand'
        BY <1>0, <2>3 DEF Finish
    <2>4. ASSUME NEW left \in SUBSET Roots, Goes(left), active # None, ~active.lost PROVE Hand'
        BY <1>0, <2>3, <2>4 DEF Goes
    <2>5. active # None => {changes[n] : n \in active.events} \in SUBSET Roots
        BY DEF WorkInv, Fits, FitsIn
    <2>6. CASE Process
        <3>1. active # None
            BY <1>0, <2>6 DEF Process
        <3>2. ASSUME active.lost, drain' = "reconcile", UNCHANGED <<active, todo, reply>> PROVE Hand'
            BY <1>0, <3>1, <3>2
        <3>3. ASSUME ~active.lost, Goes({changes[n] : n \in active.events}) PROVE Hand'
            BY <2>4, <2>5, <3>1, <3>3
        <3>4. \/ Finish
              \/ active.lost /\ drain' = "reconcile" /\ UNCHANGED <<active, todo, reply>>
              \/ ~active.lost /\ Goes({changes[n] : n \in active.events})
            BY <2>6, ProcessShape
        <3> QED  BY <1>1, <2>2, <2>3, <3>2, <3>3, <3>4
    <2>7. CASE Continue
        <3>1. todo \in SUBSET Roots
            BY DEF TypeOK
        <3>2. drain \in Roots => active # None /\ ~active.lost
            BY <1>0
        <3>3. ASSUME drain \in Roots, Goes(todo) PROVE Hand'
            BY <2>4, <3>1, <3>2, <3>3
        <3>4. Finish \/ (drain \in Roots /\ Goes(todo))
            BY <2>7, ContinueShape
        <3> QED  BY <1>1, <2>2, <2>3, <3>3, <3>4
    <2> QED  BY <1>10, <2>6, <2>7
<1>11. ASSUME Start \/ \E access \in BOOLEAN : RestartWatcher(access) PROVE DrainInv'
    <2>1. UNCHANGED <<active, drain, reply, todo, callback>> /\ revision' = revision + 1
        BY <1>11 DEF Start, RestartWatcher, Restarted, mailbox
    <2>2. callback # None => callback.revision <= revision /\ callback.revision \in Nat
        BY DEF WorkInv, Fits, FitsIn, Batch
    <2>3. ~Current(callback)'
        BY <1>0, <2>1, <2>2 DEF Current
    <2> QED  BY <1>0, <1>1, <2>1, <2>3
<1>12. ASSUME Refresh PROVE DrainInv'
    BY <1>2, <1>12 DEF Refresh, producer, mailbox
<1>13. ASSUME Accepted PROVE DrainInv'
    <2>1. UNCHANGED <<active, drain, todo, callback, stream, revision>> /\ reply'.drain = reply.drain
        BY <1>0, <1>13 DEF Accepted, producer, mailbox
    <2> QED  BY <1>0, <1>1, <2>1 DEF Current
<1>14. ASSUME Quit PROVE DrainInv'
    BY <1>1, <1>14 DEF Quit, Current
<1>15. ASSUME UNCHANGED vars PROVE DrainInv'
    BY <1>2, <1>15 DEF vars, producer, mailbox, bridge
<1> QED
    BY <1>3, <1>4, <1>5, <1>6, <1>7, <1>8, <1>9, <1>10, <1>11, <1>12, <1>13, <1>14, <1>15, Zenon
       DEF Next, Watching, Draining

\* The mailbox stays bounded, and what is in it will be drained.
LEMMA MailStep ==
    ASSUME DeliveryAssumption, TypeOK, WorkInv, DrainInv, MailInv, [Next]_vars
    PROVE  MailInv'
<1>0. Len(pending) \in Nat /\ pending \in Seq(Batch) /\ MaxQueuedBatches \in Nat
    BY DEF TypeOK, DeliveryAssumption
<1>1. ASSUME UNCHANGED <<pending, scheduled>>, active' \in {active, None} PROVE MailInv'
    BY <1>0, <1>1 DEF MailInv
<1>2. ASSUME \/ \E where \in Roots \cup {"own"} : Change(where)
             \/ \E n \in Ids, dropped \in BOOLEAN : Callback(n, dropped)
             \/ Start \/ Refresh \/ Accepted \/ UNCHANGED vars
             \/ \E access \in BOOLEAN : RestartWatcher(access)
      PROVE  MailInv'
    BY <1>1, <1>2 DEF Change, Callback, Start, Refresh, Accepted, RestartWatcher, vars, mailbox
<1>3. ASSUME Engine PROVE MailInv'
    BY <1>1, <1>3, EngineShape DEF mailbox
<1>4. ASSUME Receive PROVE MailInv'
    <2>1. PICK w : Handed(w)
        BY <1>4, ReceiveShape, Zenon
    <2>2. active' = active
        BY <1>4 DEF Receive
    <2> QED  BY <1>1, <2>1, <2>2, EnqueueStep DEF Handed, MailInv
<1>5. ASSUME Flush PROVE MailInv'
    BY <1>5, FlushFits, EnqueueStep DEF Flush, MailInv
<1>6. ASSUME StartNext PROVE MailInv'
    <2>1. /\ active = None /\ Len(pending') = Len(pending) - 1 /\ scheduled' = TRUE /\ active' \in Batch
        BY <1>0, <1>6 DEF StartNext, TypeOK
    <2> QED  BY <1>0, <2>1 DEF MailInv
<1>7. ASSUME EndDrain PROVE MailInv'
    BY <1>7 DEF EndDrain, MailInv
<1>8. ASSUME Process \/ Continue PROVE MailInv'
    BY <1>1, <1>8, ProcessShape, ContinueShape DEF Goes, Finish
<1>9. ASSUME Quit PROVE MailInv'
    BY <1>9 DEF Quit, MailInv, DeliveryAssumption
<1> QED
    BY <1>2, <1>3, <1>4, <1>5, <1>6, <1>7, <1>8, <1>9, Zenon DEF Next, Watching, Draining

\* The folders of the work at hand are told, asked for or still to be asked for.
LEMMA HandledStep ==
    ASSUME DeliveryAssumption, TypeOK, WorkInv, DrainInv, EventsAreHandled, [Next]_vars
    PROVE  EventsAreHandled'
<1>0. /\ reply \in [drain : BOOLEAN \cup {None}, ask : BOOLEAN \cup {None}] /\ None \notin BOOLEAN
      /\ Roots \cap {"own", "idle", "start", "reconcile", "cursor"} = {}
      /\ changes \in Seq(Roots \cup {"own"}) /\ Now \in Nat /\ todo \subseteq Roots
    BY DEF DeliveryAssumption, TypeOK, Now
<1>1. active # None => \A n \in active.events : n \in Ids /\ changes[n] \in Roots
    BY DEF WorkInv, Fits, FitsIn, Ids, Now
<1>2. ASSUME UNCHANGED <<changes, active, drain, todo, told>>, reply'.drain = reply.drain
      PROVE  EventsAreHandled'
    BY <1>2 DEF EventsAreHandled
<1>3. ASSUME NEW where \in Roots \cup {"own"}, Change(where) PROVE EventsAreHandled'
    <2>1. UNCHANGED <<active, drain, todo, reply, told>>
        BY <1>3 DEF Change, mailbox, bridge, journal
    <2>2. \A n \in Ids : changes'[n] = changes[n]
        BY <1>0, <1>3 DEF Change, Ids, Now
    <2> QED  BY <1>1, <2>1, <2>2 DEF EventsAreHandled
<1>4. ASSUME \/ \E n \in Ids, dropped \in BOOLEAN : Callback(n, dropped)
             \/ Receive \/ Flush
      PROVE  EventsAreHandled'
    BY <1>2, <1>4 DEF Callback, Receive, Flush, system, mailbox, bridge, journal
<1>5. ASSUME NEW outcome \in Outcomes,
             \/ \E r \in Roots : Dirty(r, outcome)
             \/ ReconcileEvents(outcome) \/ Scan(outcome)
             \/ drain = "cursor" /\ reply.drain = None /\ Cursor("drain", active.last, outcome)
             \/ asking = "cursor" /\ reply.ask = None /\ Cursor("ask", saving, outcome)
      PROVE  EventsAreHandled'
    <2>1. UNCHANGED <<changes, active, drain, todo>>
        BY <1>5 DEF Dirty, ReconcileEvents, Scan, Cursor, Answer, mailbox
    <2>2. outcome.commit \in BOOLEAN /\ outcome.ok \in BOOLEAN /\ (outcome.ok => outcome.commit)
        BY OutcomeTypes
    <2>3. ASSUME NEW r \in Roots, Dirty(r, outcome) PROVE EventsAreHandled'
        <3>1. drain = r /\ reply'.drain = outcome.ok
            BY <1>0, <2>3 DEF Dirty, Answer
        <3>2. told' = IF outcome.commit THEN told \cup {n \in active.events : changes[n] = r} ELSE told
            BY <2>3 DEF Dirty
        <3> QED  BY <1>0, <1>1, <2>1, <2>2, <3>1, <3>2 DEF EventsAreHandled
    <2>4. ASSUME ReconcileEvents(outcome) PROVE EventsAreHandled'
        <3>1. told' = Ids \/ told' = told
            BY <2>4 DEF ReconcileEvents, journal
        <3>2. drain = "reconcile"
            BY <2>4 DEF ReconcileEvents
        <3> QED  BY <1>0, <1>1, <2>1, <3>1, <3>2 DEF EventsAreHandled
    <2>5. ASSUME Scan(outcome) PROVE EventsAreHandled'
        <3>1. told' = Ids \/ told' = told
            BY <2>5 DEF Scan
        <3>2. reply'.drain = reply.drain
            BY <1>0, <2>5 DEF Scan, Answer
        <3> QED  BY <1>1, <2>1, <3>1, <3>2 DEF EventsAreHandled
    <2>6. ASSUME drain = "cursor", Cursor("drain", active.last, outcome) PROVE EventsAreHandled'
        <3>1. told' = told
            BY <2>6 DEF Cursor
        <3> QED  BY <1>0, <1>1, <2>1, <2>6, <3>1 DEF EventsAreHandled
    <2>7. ASSUME Cursor("ask", saving, outcome) PROVE EventsAreHandled'
        BY <1>0, <1>2, <2>1, <2>7 DEF Cursor, Answer
    <2> QED  BY <1>5, <2>3, <2>4, <2>5, <2>6, <2>7
<1>6. ASSUME StartNext PROVE EventsAreHandled'
    BY <1>6 DEF StartNext, EventsAreHandled
<1>7. ASSUME EndDrain \/ Start \/ Refresh \/ UNCHANGED vars
             \/ \E access \in BOOLEAN : RestartWatcher(access)
      PROVE  EventsAreHandled'
    BY <1>2, <1>7 DEF EndDrain, Start, Refresh, RestartWatcher, vars, still, system, mailbox,
                      bridge, journal
<1>8. ASSUME Accepted PROVE EventsAreHandled'
    BY <1>0, <1>2, <1>8 DEF Accepted, system, mailbox, journal
<1>9. ASSUME Process \/ Continue PROVE EventsAreHandled'
    <2>1. UNCHANGED <<changes, told>>
        BY <1>9 DEF Process, Continue, still, system, journal
    <2>2. ASSUME Finish PROVE EventsAreHandled'
        BY <2>2 DEF Finish, EventsAreHandled
    <2>3. ASSUME NEW left, Goes(left),
                 active # None => \A n \in active.events : n \in told \/ changes[n] \in left
          PROVE  EventsAreHandled'
        <3>1. ASSUME NEW r \in left, drain' = r, todo' = left \ {r}, active' = active,
                     reply' = [reply EXCEPT !.drain = None]
              PROVE  EventsAreHandled'
            <4>1. reply'.drain # TRUE
                BY <1>0, <3>1
            <4> QED  BY <2>1, <2>3, <3>1, <4>1 DEF EventsAreHandled
        <3>2. ASSUME left = {}, active' = active PROVE EventsAreHandled'
            BY <2>1, <2>3, <3>2 DEF EventsAreHandled
        <3> QED  BY <2>2, <2>3, <3>1, <3>2 DEF Goes
    <2>4. CASE Process
        <3>1. active # None => \A n \in active.events : changes[n] \in {changes[m] : m \in active.events}
            OBVIOUS
        <3>2. active # None /\ active.lost => active.events = {}
            BY DEF WorkInv, Fits, FitsIn
        <3>3. active # None
            BY <2>4, <1>0 DEF Process, DrainInv
        <3> QED  BY <2>1, <2>2, <2>3, <2>4, <3>1, <3>2, <3>3, ProcessShape DEF EventsAreHandled
    <2>5. CASE Continue
        <3>1. reply.drain = TRUE /\ drain \in Roots =>
                (active # None => \A n \in active.events : n \in told \/ changes[n] \in todo)
            BY <1>0 DEF EventsAreHandled
        <3> QED  BY <2>2, <2>3, <2>5, <3>1, ContinueShape
    <2> QED  BY <1>9, <2>4, <2>5
<1>10. ASSUME Quit PROVE EventsAreHandled'
    BY <1>10 DEF Quit, EventsAreHandled
<1> QED
    BY <1>3, <1>4, <1>5, <1>6, <1>7, <1>8, <1>9, <1>10, Zenon DEF Next, Watching, Engine, Draining

-----------------------------------------------------------------------------
(* Changes that are not told                                               *)

\* The order stands when the batches stay where they are.
LEMMA OrderKept ==
    ASSUME NEW n, OnItsWay(n), Reconciled' <=> Reconciled,
           UNCHANGED <<active, pending, delayed, stream, callback, revision, receiptFailed>>
    PROVE  Trusted' => InOrder(n)'
<1>1. Trusted' <=> Trusted
    BY DEF Trusted, Current
<1>2. AtHand(n)' <=> AtHand(n)
    BY DEF AtHand, Current
<1>3. \A k : Queued(n, k)' <=> Queued(n, k)
    BY DEF Queued, Current
<1>4. \A k : Waits(n, k)' <=> Waits(n, k)
    BY <1>2, <1>3 DEF Waits
<1>5. InOrder(n) => InOrder(n)'
    BY <1>2, <1>4 DEF InOrder, StandsInOrder, Current
<1> QED  BY <1>1, <1>5 DEF OnItsWay

\* Nor does it need the work at hand when that does not carry the change.
LEMMA OrderAfter ==
    ASSUME NEW n, InOrder(n), ~AtHand(n), active' = None,
           UNCHANGED <<pending, delayed, stream, callback, revision>>
    PROVE  InOrder(n)'
<1>1. \A k : Queued(n, k)' <=> Queued(n, k)
    BY DEF Queued, Current
<1>2. \A k : Waits(n, k) => Waits(n, k)'
    BY <1>1 DEF Waits
<1> QED  BY <1>2 DEF InOrder, StandsInOrder, Current

\* What the mailbox takes stands in order, and what waited in it goes on waiting.
LEMMA PutInOrder ==
    ASSUME DeliveryAssumption, TypeOK, WorkInv, NEW n \in Ids, StandsInOrder(n),
           NEW work, Fits(work), Current(work), pending' = Put(work),
           UNCHANGED <<active, drain, reply, revision>>,
           n <= work.last => Waits(n, Len(pending)) \/ Carries(work, n)
    PROVE  /\ StandsInOrder(n)'
           /\ Waits(n, Len(pending)) \/ Carries(work, n) => Waits(n, Len(pending))'
<1>0. /\ pending \in Seq(Batch) /\ Len(pending) \in Nat /\ work \in Batch /\ None \notin Batch
      /\ n \in Nat
    BY DEF TypeOK, Fits, FitsIn, DeliveryAssumption, Ids, Now
<1>1. AtHand(n)' <=> AtHand(n)
    BY DEF AtHand, Current, Reconciled
<1>2. PICK e \in Nat : e = Len(pending)
    BY <1>0
<1>3. ASSUME NEW w, pending' = <<w>>, Fits(w), w.lost, w.revision = work.revision
      PROVE  StandsInOrder(n)' /\ Waits(n, Len(pending))'
    <2>1. w # None
        BY <1>0, <1>3 DEF Fits, FitsIn
    <2>2. Len(pending') = 1 /\ pending'[1] = w
        BY <1>3
    <2>3. Queued(n, 1)'
        BY <1>3, <2>1, <2>2 DEF Queued, Current, Carries
    <2>4. Waits(n, 1)'
        BY <2>3 DEF Waits
    <2>5. \A k \in 1..Len(pending') : k = 1
        BY <2>2
    <2> QED  BY <2>2, <2>4, <2>5 DEF StandsInOrder
<1>4. ASSUME pending' = Append(pending, work)
      PROVE  /\ StandsInOrder(n)'
             /\ Waits(n, Len(pending)) \/ Carries(work, n) => Waits(n, Len(pending))'
    <2>1. /\ Len(pending') = e + 1 /\ pending'[e + 1] = work
          /\ \A i \in 1..e : pending'[i] = pending[i]
        BY <1>0, <1>2, <1>4
    <2>2. \A k \in 0..e : Queued(n, k) => Queued(n, k)' /\ Queued(n, e + 1)'
        BY <1>2, <2>1 DEF Queued, Current
    <2>3. \A k \in 0..e : Waits(n, k) => Waits(n, k)' /\ Waits(n, e + 1)'
        BY <1>1, <2>2 DEF Waits
    <2>4. Carries(work, n) => Waits(n, e + 1)'
        <3>1. Carries(work, n) => Queued(n, e + 1)'
            BY <1>2, <2>1 DEF Queued, Current, Carries
        <3> QED  BY <3>1 DEF Waits
    <2>5. Waits(n, e) \/ Carries(work, n) => Waits(n, e + 1)'
        BY <1>2, <2>3, <2>4
    <2>6. ASSUME NEW k \in 1..e, Current(pending[k])', n <= pending'[k].last PROVE Waits(n, k)'
        <3>1. Current(pending[k]) /\ n <= pending[k].last
            BY <2>1, <2>6 DEF Current
        <3>2. k \in 0..e /\ k \in 1..Len(pending)
            BY <1>2
        <3>3. Waits(n, k)
            BY <3>1, <3>2 DEF StandsInOrder
        <3> QED  BY <2>3, <3>2, <3>3
    <2>7. n <= work.last => Waits(n, e + 1)'
        BY <1>2, <2>5
    <2>8. \A k \in 1..(e + 1) : k \in 1..e \/ k = e + 1
        BY <1>2
    <2>9. StandsInOrder(n)'
        BY <2>1, <2>6, <2>7, <2>8 DEF StandsInOrder
    <2> QED  BY <1>2, <2>1, <2>5, <2>9
<1>5. ASSUME NEW w, pending # <<>>, pending' = [pending EXCEPT ![Len(pending)] = w],
             Fits(w), ~w.lost, ~Last(pending).lost,
             w.events = work.events \cup Last(pending).events, ~work.lost,
             w.last \in {work.last, Last(pending).last},
             w.revision = work.revision, Last(pending).revision = work.revision
      PROVE  /\ StandsInOrder(n)'
             /\ Waits(n, Len(pending)) \/ Carries(work, n) => Waits(n, Len(pending))'
    <2>1. /\ Len(pending') = e /\ pending'[e] = w /\ e \in 1..e
          /\ \A i \in 1..e : i # e => pending'[i] = pending[i]
          /\ Last(pending) = pending[e]
        BY <1>0, <1>2, <1>5, LastReplaced DEF Fits, FitsIn
    <2>2. w # None /\ pending[e] # None
        BY <1>0, <1>2, <1>5, <2>1 DEF Fits, FitsIn, WorkInv
    <2>3. \A i \in 1..e : Current(pending[i]) /\ Carries(pending[i], n)
                          => (Current(pending[i]) /\ Carries(pending[i], n))'
        BY <1>5, <2>1, <2>2 DEF Current, Carries
    <2>4. \A k \in 1..e : Queued(n, k) => Queued(n, k)'
        BY <1>2, <2>1, <2>3 DEF Queued
    <2>5. \A k \in 1..e : Waits(n, k) => Waits(n, k)'
        BY <1>1, <2>4 DEF Waits
    <2>6. Carries(work, n) => Waits(n, e)'
        <3>1. Carries(work, n) => Queued(n, e)'
            BY <1>5, <2>1, <2>2 DEF Queued, Current, Carries
        <3> QED  BY <3>1 DEF Waits
    <2>7. Waits(n, e) \/ Carries(work, n) => Waits(n, e)'
        BY <2>1, <2>5, <2>6
    <2>8. ASSUME NEW k \in 1..e, k # e, Current(pending[k])', n <= pending'[k].last
          PROVE  Waits(n, k)'
        <3>1. Current(pending[k]) /\ n <= pending[k].last
            BY <2>1, <2>8 DEF Current
        <3>2. Waits(n, k)
            BY <1>2, <3>1 DEF StandsInOrder
        <3> QED  BY <2>5, <3>2
    <2>9. n <= w.last => Waits(n, e)'
        <3>1. Current(pending[e])
            BY <1>5, <2>1, <2>2 DEF Current
        <3>2. n <= pending[e].last => Waits(n, e)
            BY <1>2, <2>1, <3>1 DEF StandsInOrder
        <3> QED  BY <1>2, <1>5, <2>1, <2>7, <3>2
    <2>10. StandsInOrder(n)'
        BY <2>1, <2>8, <2>9 DEF StandsInOrder
    <2> QED  BY <1>2, <2>1, <2>7, <2>10
<1> QED
    <2>1. CASE pending' = Append(pending, work)
        BY <1>4, <2>1
    <2>2. CASE \E w : pending' = <<w>> /\ Fits(w) /\ w.lost /\ w.revision = work.revision
        BY <1>3, <2>2
    <2> QED  BY <1>5, <2>1, <2>2, PutShape

\* The watcher's queue passes on what it has been delivered.
LEMMA WatchedStep ==
    ASSUME DeliveryAssumption, TypeOK, WorkInv, DrainInv,
           NEW n \in Ids, Unread(n), OnItsWay(n), Watching
    PROVE  OnItsWay(n)'
<1>0. /\ n \in Nat /\ n # 0 /\ Now \in Nat /\ Len(pending) \in Nat /\ delayed \in Nat
      /\ stream \in Nat \cup {None} /\ None \notin Nat \cup Batch /\ revision \in Nat
    BY DEF TypeOK, Ids, Now, DeliveryAssumption
<1>1. UNCHANGED <<mailbox, bridge, journal>> \/ UNCHANGED <<active, bridge, journal>>
    BY DEF Watching, Callback, Receive, Flush, mailbox
<1>2. UNCHANGED <<active, bridge, journal>>
    BY <1>1 DEF mailbox
<1>3. AheadOfCursors(n)' /\ (Trusted' <=> Trusted) /\ (AtHand(n)' <=> AtHand(n))
    BY <1>2 DEF OnItsWay, AheadOfCursors, Trusted, Reconciled, AtHand, Current, bridge, journal
<1>4. SUFFICES ASSUME InOrder(n) PROVE InOrder(n)'
    BY <1>3 DEF OnItsWay
<1>5. (Current(active) /\ n <= active.last => AtHand(n))'
    BY <1>2, <1>3, <1>4 DEF InOrder, Current, bridge
<1>6. PICK e \in Nat : e = Len(pending)
    BY <1>0
<1>7. ASSUME UNCHANGED pending
      PROVE  StandsInOrder(n)' /\ \A k : Waits(n, k)' <=> Waits(n, k)
    <2>1. \A k : Waits(n, k)' <=> Waits(n, k)
        BY <1>2, <1>3, <1>7 DEF Waits, Queued, Current, bridge
    <2> QED  BY <1>2, <1>4, <1>7, <2>1 DEF InOrder, StandsInOrder, Current, bridge
<1>8. ASSUME NEW work, Fits(work), Enqueue(work), work.revision = revision,
             n <= work.last => Waits(n, Len(pending)) \/ Carries(work, n)
      PROVE  /\ StandsInOrder(n)'
             /\ Waits(n, Len(pending)) \/ Carries(work, n) => Waits(n, Len(pending))'
    <2>1. Current(work) /\ pending' = Put(work)
        BY <1>0, <1>8 DEF Current, Enqueue, Fits, FitsIn
    <2>2. UNCHANGED <<active, drain, reply, revision>>
        BY <1>2 DEF bridge
    <2> QED  BY <1>4, <1>8, <2>1, <2>2, PutInOrder DEF InOrder
<1>9. CASE \E m \in Ids, dropped \in BOOLEAN : Callback(m, dropped)
    <2>1. PICK m \in Ids, dropped \in BOOLEAN : Callback(m, dropped)
        BY <1>9
    <2>2. UNCHANGED <<pending, delayed>> /\ callback = None
        BY <2>1 DEF Callback, mailbox
    <2>3. /\ stream \in Nat /\ m \in Nat /\ stream' = m
          /\ n > stream /\ n <= m => Carries(callback', n)
        <3>1. changes[n] \in Roots
            BY DEF Unread
        <3> QED  BY <1>0, <2>1, <3>1, CallbackFits DEF Ids
    <2>4. Current(callback)'
        <3>1. callback' \in Batch /\ callback'.revision = revision
            BY <2>1, CallbackFits DEF Fits, FitsIn
        <3> QED  BY <1>0, <1>2, <3>1 DEF Current, bridge
    <2>5. n <= stream => Waits(n, e)
        BY <1>0, <1>4, <1>6, <2>2, <2>3 DEF InOrder, Current
    <2>6. n <= stream' => Waits(n, e)' \/ (Current(callback) /\ Carries(callback, n))'
        BY <1>0, <1>7, <2>2, <2>3, <2>4, <2>5 DEF Carries
    <2>7. n <= delayed' => Waits(n, e)'
        BY <1>4, <1>6, <1>7, <2>2 DEF InOrder
    <2> QED  BY <1>5, <1>6, <1>7, <2>2, <2>6, <2>7 DEF InOrder
<1>10. CASE Receive
    <2>1. PICK w : Handed(w)
        BY <1>10, ReceiveShape, Zenon
    <2>2. callback' = None /\ stream' = stream /\ ~Current(callback)'
        BY <1>10 DEF Receive, Current
    <2>3. /\ n <= delayed => Waits(n, e)
          /\ stream # None /\ n <= stream => Waits(n, e) \/ (Current(callback) /\ Carries(callback, n))
        BY <1>4, <1>6 DEF InOrder
    <2>4. callback # None
        BY <1>10 DEF Receive
    <2>5. callback.revision = revision => callback.last <= stream /\ stream \in Nat
        BY <1>0, <2>4 DEF DrainInv, Current
    <2>6. callback.last \in Nat
        BY <2>1 DEF Handed
    <2>7. callback.revision = revision /\ n <= callback.last => Waits(n, e) \/ Carries(callback, n)
        BY <1>0, <2>3, <2>5, <2>6
    <2>8. CASE callback.revision # revision /\ UNCHANGED <<delayed, pending, scheduled>>
        <3>1. n <= delayed' => Waits(n, e)'
            BY <1>7, <2>3, <2>8
        <3>2. stream' # None /\ n <= stream' => Waits(n, e)'
            BY <1>7, <2>2, <2>3, <2>8 DEF Current
        <3> QED  BY <1>5, <1>6, <1>7, <2>8, <3>1, <3>2 DEF InOrder
    <2>9. CASE /\ callback.revision = revision /\ Enqueue(w) /\ delayed' = 0
               /\ w.revision = revision /\ w.events = callback.events /\ w.lost = callback.lost
               /\ w.last \in {callback.last, delayed}
        <3>1. Carries(w, n) <=> Carries(callback, n)
            BY <2>9 DEF Carries
        <3>2. Fits(w) /\ callback.revision = revision
            BY <2>1, <2>9 DEF Handed
        <3>3. n <= w.last => Waits(n, e) \/ Carries(w, n)
            BY <2>3, <2>7, <2>9, <3>1, <3>2
        <3>4. StandsInOrder(n)' /\ (Waits(n, e) \/ Carries(w, n) => Waits(n, Len(pending))')
            BY <1>6, <1>8, <2>9, <3>2, <3>3
        <3>5. stream' # None /\ n <= stream' => Waits(n, Len(pending))'
            BY <2>2, <2>3, <3>1, <3>4
        <3>6. ~(n <= delayed')
            BY <1>0, <2>9
        <3> QED  BY <1>5, <3>4, <3>5, <3>6 DEF InOrder
    <2>10. CASE /\ delayed' \in {callback.last, delayed}
                /\ UNCHANGED <<pending, scheduled>>
                /\ callback.revision = revision /\ ~callback.lost /\ callback.events = {}
        <3>1. ~Carries(callback, n)
            BY <2>10 DEF Carries
        <3>2. n <= delayed' => Waits(n, e)'
            BY <1>7, <2>3, <2>7, <2>10, <3>1
        <3>3. stream' # None /\ n <= stream' => Waits(n, e)'
            BY <1>7, <2>2, <2>3, <2>10, <3>1
        <3> QED  BY <1>5, <1>6, <1>7, <2>10, <3>2, <3>3 DEF InOrder
    <2> QED  BY <2>1, <2>8, <2>9, <2>10 DEF Handed
<1>11. CASE Flush
    <2> DEFINE w == Work({}, delayed, FALSE)
    <2>1. /\ Fits(w) /\ Enqueue(w) /\ delayed' = 0 /\ callback = None /\ UNCHANGED <<stream, callback>>
        BY <1>11, FlushFits DEF Flush
    <2>2. w.revision = revision /\ w.last = delayed
        BY <1>0 DEF Work
    <2> HIDE DEF w
    <2>3. n <= w.last => Waits(n, e)
        BY <1>4, <1>6, <2>2 DEF InOrder
    <2>4. StandsInOrder(n)' /\ (Waits(n, e) => Waits(n, Len(pending))')
        BY <1>6, <1>8, <2>1, <2>2, <2>3
    <2>5. stream' # None /\ n <= stream' => Waits(n, Len(pending))'
        BY <1>4, <1>6, <2>1, <2>4 DEF InOrder, Current
    <2>6. ~(n <= delayed')
        BY <1>0, <2>1
    <2> QED  BY <1>5, <2>4, <2>5, <2>6 DEF InOrder
<1> QED  BY <1>9, <1>10, <1>11 DEF Watching

\* The engine's answers: a request moves the cursor no further than it was told to.
LEMMA AnsweredStep ==
    ASSUME DeliveryAssumption, TypeOK, WorkInv, DrainInv,
           NEW n \in Ids, Unread(n), OnItsWay(n), Engine, Unread(n)'
    PROVE  OnItsWay(n)'
<1>0. /\ n \in Nat /\ durable \in Nat /\ saving \in Nat /\ changes \in Seq(Roots \cup {"own"})
      /\ Roots \cap {"reconcile", "cursor", "idle", "start"} = {} /\ None \notin BOOLEAN
      /\ reply \in [drain : BOOLEAN \cup {None}, ask : BOOLEAN \cup {None}]
    BY DEF TypeOK, Ids, Now, DeliveryAssumption
<1>1. UNCHANGED <<changes, producer, mailbox, revision, cursor, firstCursor, receiptFailed, drain,
                  todo, asking, saving>>
    BY EngineShape
<1>2. n \notin told'
    BY DEF Unread
<1>3. ASSUME Reconciled' <=> Reconciled, n > durable' PROVE OnItsWay(n)'
    <2>1. Trusted' => InOrder(n)'
        BY <1>1, <1>3, OrderKept DEF producer, mailbox
    <2>2. AheadOfCursors(n)'
        BY <1>1, <1>3 DEF AheadOfCursors, OnItsWay, mailbox
    <2> QED  BY <2>1, <2>2 DEF OnItsWay
<1>4. n > durable /\ n > saving /\ (drain = "cursor" => n > active.last)
    BY DEF OnItsWay, AheadOfCursors
<1>5. ASSUME NEW last \in Nat, n > last, NEW outcome, NEW who, Cursor(who, last, outcome)
      PROVE  n > durable'
    <2>1. durable' \in {durable, last}
        BY <1>0, <1>5, Later DEF Cursor
    <2> QED  BY <1>4, <1>5, <2>1
<1>6. PICK outcome \in Outcomes :
        \/ \E r \in Roots : Dirty(r, outcome)
        \/ ReconcileEvents(outcome) \/ Scan(outcome)
        \/ drain = "cursor" /\ reply.drain = None /\ Cursor("drain", active.last, outcome)
        \/ asking = "cursor" /\ reply.ask = None /\ Cursor("ask", saving, outcome)
    BY DEF Engine
<1>7. ASSUME Answer("ask", outcome) PROVE Reconciled' <=> Reconciled
    BY <1>0, <1>7 DEF Answer, Reconciled
<1>8. CASE \E r \in Roots : Dirty(r, outcome)
    <2>1. drain \in Roots /\ drain' = drain /\ durable' = durable
        BY <1>8, <1>1 DEF Dirty
    <2> QED  BY <1>0, <1>3, <1>4, <2>1 DEF Reconciled
<1>9. CASE ReconcileEvents(outcome)
    <2>1. told' # Ids
        BY <1>2
    <2>2. ~outcome.commit /\ durable' = durable
        BY <1>9, <2>1 DEF ReconcileEvents, journal
    <2>3. reply'.drain # TRUE /\ reply.drain = None
        BY <1>0, <1>9, <2>2, OutcomeTypes DEF ReconcileEvents, Answer
    <2> QED  BY <1>0, <1>3, <1>4, <2>2, <2>3 DEF Reconciled
<1>10. CASE Scan(outcome)
    <2>1. durable' = durable /\ Answer("ask", outcome)
        BY <1>10 DEF Scan
    <2> QED  BY <1>3, <1>4, <1>7, <2>1
<1>11. CASE drain = "cursor" /\ Cursor("drain", active.last, outcome)
    <2>1. active # None /\ active.last \in Nat
        BY <1>11 DEF DrainInv, WorkInv, Fits, FitsIn, Batch
    <2>2. n > durable'
        BY <1>4, <1>5, <1>11, <2>1
    <2>3. ~Reconciled /\ ~Reconciled'
        BY <1>1, <1>11 DEF Reconciled
    <2> QED  BY <1>3, <2>2, <2>3
<1>12. CASE Cursor("ask", saving, outcome)
    <2>1. n > durable' /\ Answer("ask", outcome)
        BY <1>0, <1>4, <1>5, <1>12 DEF Cursor
    <2> QED  BY <1>3, <1>7, <2>1
<1> QED  BY <1>6, <1>8, <1>9, <1>10, <1>11, <1>12

\* The work at hand carries no change that is not told when its folders are.
LEMMA NoneLeft ==
    ASSUME DeliveryAssumption, TypeOK, WorkInv, EventsAreHandled, NEW n \in Ids, Unread(n),
           active # None, ~active.lost, todo = {},
           drain = "cursor" \/ (drain \in Roots /\ reply.drain = TRUE)
    PROVE  n \notin active.events
<1>1. /\ changes[n] \in Roots /\ n \notin told
      /\ Roots \cap {"reconcile", "cursor", "idle", "start"} = {}
    BY DEF Unread, DeliveryAssumption
<1> QED  BY <1>1 DEF EventsAreHandled

\* The drain ends its work, or goes on to the next request.
LEMMA GoneStep ==
    ASSUME DeliveryAssumption, TypeOK, WorkInv, DrainInv, NEW n \in Ids, Unread(n), OnItsWay(n),
           NEW left \in SUBSET Roots, Goes(left), Current(active), ~active.lost,
           left = {} => n \notin active.events, drain # "reconcile",
           UNCHANGED <<still, pending, cursor, receiptFailed>>
    PROVE  OnItsWay(n)'
<1>0. /\ Roots \cap {"reconcile", "cursor", "idle", "start"} = {} /\ n \in Nat
      /\ active.last \in Nat /\ ~Reconciled /\ receiptFailed \in BOOLEAN
    BY DEF DeliveryAssumption, WorkInv, Fits, FitsIn, Batch, Current, Reconciled, Ids, Now, TypeOK
<1>1. UNCHANGED <<delayed, stream, callback, revision, durable, firstCursor, saving>>
    BY DEF still, producer, journal
<1>2. ASSUME drain' # "cursor" \/ n > active'.last PROVE AheadOfCursors(n)'
    BY <1>1, <1>2 DEF AheadOfCursors, OnItsWay
<1>3. ASSUME active' = active, drain' # "reconcile", drain' # "cursor" \/ n > active'.last
      PROVE  OnItsWay(n)'
    <2>1. Reconciled' <=> Reconciled
        BY <1>0, <1>3 DEF Reconciled
    <2>2. Trusted' => InOrder(n)'
        BY <1>1, <1>3, <2>1, OrderKept
    <2> QED  BY <1>2, <1>3, <2>2 DEF OnItsWay
<1>4. ASSUME NEW r \in left, drain' = r, active' = active PROVE OnItsWay(n)'
    BY <1>0, <1>3, <1>4
<1>5. CASE left = {}
    <2>1. ~AtHand(n)
        BY <1>5 DEF AtHand
    <2>2. ASSUME ThenCursor(receiptFailed, cursor), drain' = "cursor", active' = active
          PROVE  OnItsWay(n)'
        <3>1. Trusted
            BY <2>2 DEF ThenCursor, Trusted
        <3>2. n > active.last
            BY <1>0, <2>1, <3>1 DEF OnItsWay, InOrder
        <3> QED  BY <1>3, <2>2, <3>2
    <2>3. ASSUME Finish PROVE OnItsWay(n)'
        <3>1. active' = None /\ drain' = "idle"
            BY <2>3 DEF Finish
        <3>2. Trusted' => Trusted
            BY <3>1 DEF Trusted, Reconciled
        <3>3. InOrder(n) => InOrder(n)'
            BY <1>1, <2>1, <3>1, OrderAfter
        <3> QED  BY <1>2, <3>1, <3>2, <3>3 DEF OnItsWay
    <2> QED  BY <1>5, <2>2, <2>3 DEF Goes
<1>6. CASE left # {}
    BY <1>4, <1>6 DEF Goes
<1> QED  BY <1>5, <1>6

\* The drain takes the batches in order, and acknowledges what it has passed on.
LEMMA DrainedStep ==
    ASSUME DeliveryAssumption, TypeOK, WorkInv, DrainInv, EventsAreHandled,
           NEW n \in Ids, Unread(n), OnItsWay(n), Draining
    PROVE  OnItsWay(n)'
<1>0. /\ n \in Nat /\ Len(pending) \in Nat /\ pending \in Seq(Batch) /\ receiptFailed \in BOOLEAN
      /\ None \notin Batch /\ Roots \cap {"reconcile", "cursor", "idle", "start"} = {}
      /\ durable \in Nat /\ todo \in SUBSET Roots
    BY DEF TypeOK, Ids, Now, DeliveryAssumption
<1>1. UNCHANGED <<delayed, stream, callback, revision, durable, firstCursor, saving>>
    BY DEF Draining, StartNext, EndDrain, Process, Continue, still, producer, journal
<1>2. ASSUME drain' # "cursor", n > cursor' PROVE AheadOfCursors(n)'
    BY <1>1, <1>2 DEF AheadOfCursors, OnItsWay
<1>3. n > cursor /\ n > durable
    BY DEF OnItsWay, AheadOfCursors
<1>4. ASSUME UNCHANGED pending, Finish, ~AtHand(n), n > cursor',
             receiptFailed' = FALSE => InOrder(n), receiptFailed' \in BOOLEAN
      PROVE  OnItsWay(n)'
    <2>1. active' = None /\ drain' = "idle"
        BY <1>4 DEF Finish
    <2>2. Trusted' => receiptFailed' = FALSE
        BY <1>4, <2>1 DEF Trusted, Reconciled
    <2>3. InOrder(n) => InOrder(n)'
        BY <1>1, <1>4, <2>1, OrderAfter
    <2> QED  BY <1>2, <1>4, <2>1, <2>2, <2>3 DEF OnItsWay
<1>5. receiptFailed = FALSE => InOrder(n)
    BY DEF OnItsWay, Trusted
<1>6. CASE StartNext
    <2>1. /\ active = None /\ active' = pending[1] /\ Len(pending) > 0 /\ drain' = "start"
          /\ Len(pending') = Len(pending) - 1
          /\ \A i \in 1..Len(pending') : pending'[i] = pending[i + 1]
        BY <1>0, <1>6 DEF StartNext
    <2>2. UNCHANGED <<cursor, receiptFailed>> /\ ~AtHand(n) /\ ~Reconciled'
        BY <1>6, <2>1 DEF StartNext, AtHand, Current, Reconciled
    <2>3. PICK e \in Nat : e + 1 = Len(pending) /\ e = Len(pending')
        BY <1>0, <2>1
    <2>4. Current(pending[1]) /\ Carries(pending[1], n) => AtHand(n)'
        BY <1>1, <2>1, <2>2 DEF Current, Carries, AtHand
    <2>5. ASSUME NEW k \in 0..e, Waits(n, k + 1) PROVE Waits(n, k)'
        <3>1. PICK i \in 1..(k + 1) : Current(pending[i]) /\ Carries(pending[i], n)
            BY <2>2, <2>5 DEF Waits, Queued
        <3>2. CASE i = 1
            BY <2>4, <3>1, <3>2 DEF Waits
        <3>3. CASE i # 1
            <4>1. i - 1 \in 1..k /\ i - 1 \in 1..e /\ (i - 1) + 1 = i
                BY <3>3
            <4>2. pending'[i - 1] = pending[i]
                BY <2>1, <2>3, <4>1
            <4>3. Queued(n, k)'
                BY <1>1, <3>1, <4>1, <4>2 DEF Queued, Current
            <4> QED  BY <4>3 DEF Waits
        <3> QED  BY <3>2, <3>3
    <2>6. ASSUME InOrder(n) PROVE InOrder(n)'
        <3>1. ASSUME Current(active)', n <= active'.last PROVE AtHand(n)'
            <4>1. Current(pending[1]) /\ 1 \in 1..Len(pending)
                BY <1>1, <2>1, <2>3, <3>1 DEF Current
            <4>2. Waits(n, 1)
                BY <2>1, <2>6, <3>1, <4>1 DEF InOrder, StandsInOrder
            <4>3. Waits(n, 0)'
                BY <2>5, <4>2, <2>3
            <4> QED  BY <4>3 DEF Waits, Queued
        <3>2. ASSUME NEW k \in 1..e, Current(pending[k])', n <= pending'[k].last PROVE Waits(n, k)'
            <4>1. k + 1 \in 1..Len(pending) /\ k \in 0..e /\ pending'[k] = pending[k + 1]
                BY <2>1, <2>3
            <4>2. Waits(n, k + 1)
                BY <1>1, <2>6, <3>2, <4>1 DEF InOrder, StandsInOrder, Current
            <4> QED  BY <2>5, <4>1, <4>2
        <3>3. StandsInOrder(n)'
            BY <2>3, <3>2 DEF StandsInOrder
        <3>4. Waits(n, Len(pending)) => Waits(n, Len(pending))'
            <4>1. e \in 0..e
                BY <2>3
            <4> QED  BY <2>3, <2>5, <4>1
        <3> QED  BY <1>1, <2>6, <3>1, <3>3, <3>4 DEF InOrder, Current
    <2>7. Trusted' => Trusted
        BY <2>2 DEF Trusted
    <2> QED  BY <1>2, <1>3, <2>1, <2>2, <2>6, <2>7 DEF OnItsWay
<1>7. CASE EndDrain
    <2>1. UNCHANGED <<active, pending, drain, reply, cursor, receiptFailed>>
        BY <1>7 DEF EndDrain
    <2>2. Trusted' => InOrder(n)'
        BY <1>1, <2>1, OrderKept DEF Reconciled
    <2>3. AheadOfCursors(n)'
        BY <1>1, <2>1 DEF AheadOfCursors, OnItsWay
    <2> QED  BY <2>2, <2>3 DEF OnItsWay
<1>8. CASE Process
    <2>1. /\ drain = "start" /\ UNCHANGED <<still, pending, cursor, receiptFailed>>
          /\ active # None /\ active \in Batch /\ reply.drain = None
        BY <1>0, <1>8, ProcessShape DEF DrainInv, TypeOK
    <2>2. ASSUME Finish, active.revision # revision PROVE OnItsWay(n)'
        BY <1>0, <1>3, <1>4, <1>5, <2>1, <2>2 DEF AtHand, Current
    <2>3. ASSUME active.revision = revision, drain' = "reconcile", UNCHANGED <<active, todo, reply>>
          PROVE  OnItsWay(n)'
        <3>1. ~Reconciled /\ ~Reconciled'
            BY <2>1, <2>3 DEF Reconciled, DeliveryAssumption
        <3>2. Trusted' => InOrder(n)'
            BY <1>1, <2>1, <2>3, <3>1, OrderKept
        <3> QED  BY <1>2, <1>3, <2>1, <2>3, <3>2 DEF OnItsWay
    <2> DEFINE left == {changes[m] : m \in active.events}
    <2>4. ASSUME active.revision = revision, ~active.lost, Goes(left) PROVE OnItsWay(n)'
        <3>1. left \in SUBSET Roots /\ (left = {} => n \notin active.events) /\ Current(active)
            BY <2>1, <2>4 DEF WorkInv, Fits, FitsIn, Current
        <3>2. drain # "reconcile"
            BY <2>1
        <3> HIDE DEF left
        <3> QED  BY <2>1, <2>4, <3>1, <3>2, GoneStep
    <2> QED  BY <1>8, <2>2, <2>3, <2>4, ProcessShape
<1>9. CASE Continue
    <2>1. /\ drain \notin {"idle", "start"} /\ reply.drain \in BOOLEAN
          /\ UNCHANGED <<still, pending>> /\ active # None /\ active \in Batch
        BY <1>9, ContinueShape DEF DrainInv, TypeOK
    <2>2. ASSUME Finish, UNCHANGED <<cursor, receiptFailed>>, active.revision # revision
          PROVE  OnItsWay(n)'
        BY <1>0, <1>3, <1>4, <1>5, <2>1, <2>2 DEF AtHand, Current
    <2>3. ASSUME Finish, receiptFailed' = TRUE, UNCHANGED cursor PROVE OnItsWay(n)'
        <3>1. drain' = "idle"
            BY <2>3 DEF Finish
        <3>2. ~Trusted'
            BY <2>3, <3>1 DEF Trusted, Reconciled
        <3> QED  BY <1>2, <1>3, <2>3, <3>1, <3>2 DEF OnItsWay
    <2>4. ASSUME Finish, cursor' = active.last, receiptFailed' = FALSE,
                 drain = "reconcile", reply.drain = TRUE, active.revision = revision
          PROVE  OnItsWay(n)'
        <3>1. Current(active) /\ Reconciled /\ active.lost /\ active.events = {}
            BY <2>1, <2>4 DEF Current, Reconciled, DrainInv, WorkInv, Fits, FitsIn
        <3>2. ~AtHand(n)
            BY <3>1 DEF AtHand
        <3>3. InOrder(n)
            BY <3>1 DEF OnItsWay, Trusted
        <3>4. active.last \in Nat
            BY <2>1 DEF Batch
        <3>5. n > active.last
            BY <1>0, <3>1, <3>2, <3>3, <3>4 DEF InOrder
        <3> QED  BY <1>4, <2>1, <2>4, <3>2, <3>3, <3>5
    <2>5. ASSUME Finish, cursor' = durable, UNCHANGED receiptFailed, drain = "cursor",
                 reply.drain = TRUE, active.revision = revision
          PROVE  OnItsWay(n)'
        <3>1. ~active.lost /\ todo = {}
            BY <2>1, <2>5 DEF DrainInv
        <3>2. n \notin active.events
            BY <2>1, <2>5, <3>1, NoneLeft
        <3>3. ~AtHand(n)
            BY <3>1, <3>2 DEF AtHand
        <3> QED  BY <1>0, <1>3, <1>4, <1>5, <2>1, <2>5, <3>3
    <2>6. ASSUME Goes(todo), UNCHANGED <<cursor, receiptFailed>>, drain \in Roots,
                 reply.drain = TRUE, active.revision = revision
          PROVE  OnItsWay(n)'
        <3>1. ~active.lost /\ Current(active) /\ drain # "reconcile"
            BY <1>0, <2>1, <2>6 DEF DrainInv, Current
        <3>2. todo = {} => n \notin active.events
            BY <2>1, <2>6, <3>1, NoneLeft
        <3> QED  BY <1>0, <2>1, <2>6, <3>1, <3>2, GoneStep
    <2> QED  BY <1>9, <2>2, <2>3, <2>4, <2>5, <2>6, ContinueShape
<1> QED  BY <1>6, <1>7, <1>8, <1>9 DEF Draining

\* A watcher that is started anew replays from a cursor that lies before.
LEMMA RestartedStep ==
    ASSUME DeliveryAssumption, TypeOK, WorkInv, NEW n \in Ids, OnItsWay(n), looked, ~early',
           Start \/ Refresh \/ Accepted \/ Quit \/ \E access \in BOOLEAN : RestartWatcher(access)
    PROVE  OnItsWay(n)'
<1>0. /\ n \in Nat /\ n # 0 /\ revision \in Nat /\ durable \in Nat /\ cursor \in Nat /\ firstCursor \in Nat
      /\ saving \in Nat /\ reply \in [drain : BOOLEAN \cup {None}, ask : BOOLEAN \cup {None}]
      /\ pending \in Seq(Batch) /\ None \notin Nat
    BY DEF TypeOK, Ids, Now, DeliveryAssumption
<1>1. n > durable /\ n > cursor /\ n > firstCursor /\ n > saving /\ (drain = "cursor" => n > active.last)
    BY DEF OnItsWay, AheadOfCursors
<1>2. ASSUME revision' = revision + 1, UNCHANGED <<callback, active, pending>>, delayed' = 0,
             stream' = None \/ (stream' \in Nat /\ n > stream')
      PROVE  InOrder(n)'
    <2>1. ASSUME NEW w, Fits(w) PROVE w.revision # revision'
        BY <1>0, <1>2, <2>1 DEF Fits, FitsIn, Batch
    <2>2. ~Current(active)' /\ \A k \in 1..Len(pending') : ~Current(pending[k])'
        BY <1>2, <2>1 DEF WorkInv, Current
    <2>3. StandsInOrder(n)'
        BY <2>2 DEF StandsInOrder
    <2>4. ~(n <= delayed') /\ (stream' # None => ~(n <= stream'))
        BY <1>0, <1>2
    <2> QED  BY <2>2, <2>3, <2>4 DEF InOrder
<1>3. CASE Start
    <2>1. /\ cursor' = durable /\ revision' = revision + 1 /\ delayed' = 0
          /\ UNCHANGED <<callback, active, pending, durable, saving, drain>>
          /\ IF durable = 0 THEN firstCursor' = Now /\ stream' = Now
             ELSE firstCursor' = firstCursor /\ stream' = durable
        BY <1>3 DEF Start, Restarted, mailbox, journal
    <2>2. durable # 0
        BY <1>3 DEF Start
    <2>3. InOrder(n)'
        BY <1>0, <1>1, <1>2, <2>1, <2>2
    <2> QED  BY <1>1, <2>1, <2>2, <2>3 DEF OnItsWay, AheadOfCursors
<1>4. CASE \E access \in BOOLEAN : RestartWatcher(access)
    <2>1. PICK access \in BOOLEAN : RestartWatcher(access)
        BY <1>4
    <2>2. cursor # 0
        BY <2>1 DEF RestartWatcher
    <2>3. /\ revision' = revision + 1 /\ delayed' = 0
          /\ UNCHANGED <<callback, active, pending, durable, saving, drain, cursor, firstCursor>>
          /\ stream' = cursor \/ stream' = None
        BY <2>1, <2>2 DEF RestartWatcher, Restarted, mailbox, journal
    <2>4. InOrder(n)'
        BY <1>0, <1>1, <1>2, <2>3
    <2> QED  BY <1>1, <2>3, <2>4 DEF OnItsWay, AheadOfCursors
<1>5. CASE Refresh \/ Accepted
    <2>1. /\ UNCHANGED <<active, pending, delayed, stream, callback, revision, receiptFailed,
                         drain, durable, firstCursor>>
          /\ reply'.drain = reply.drain
          /\ saving' \in {saving, firstCursor, 0} /\ cursor' \in {cursor, firstCursor}
        BY <1>0, <1>5 DEF Refresh, Accepted, producer, mailbox, journal
    <2>2. Trusted' => InOrder(n)'
        BY <2>1, OrderKept DEF Reconciled
    <2>3. AheadOfCursors(n)'
        BY <1>0, <1>1, <2>1 DEF AheadOfCursors
    <2> QED  BY <2>2, <2>3 DEF OnItsWay
<1>6. CASE Quit
    <2>1. InOrder(n)'
        BY <1>0, <1>6 DEF Quit, InOrder, StandsInOrder, Current
    <2>2. AheadOfCursors(n)'
        BY <1>0, <1>1, <1>6 DEF Quit, AheadOfCursors, journal
    <2> QED  BY <2>1, <2>2 DEF OnItsWay
<1> QED  BY <1>3, <1>4, <1>5, <1>6

\* A step tells the journal of every change, or it leaves the ones before as untold as they were.
LEMMA UnreadStep ==
    ASSUME DeliveryAssumption, TypeOK, WorkInv, DrainInv, EventsAreHandled, UnreadInv,
           [Next]_vars
    PROVE  UnreadInv'
<1> SUFFICES ASSUME looked', ~early', NEW n \in Ids', Unread(n)'
             PROVE  OnItsWay(n)'
    BY DEF UnreadInv
<1>0. /\ changes \in Seq(Roots \cup {"own"}) /\ Now \in Nat /\ n \in Nat /\ n \notin told'
      /\ n \in 1..Len(changes')
    BY DEF TypeOK, Ids, Now, Unread
<1>1. ASSUME UNCHANGED changes, told \subseteq told', looked, ~early
      PROVE  n \in Ids /\ Unread(n) /\ OnItsWay(n)
    BY <1>1 DEF Unread, Ids, Now, UnreadInv
<1>2. ASSUME NEW where \in Roots \cup {"own"}, Change(where) PROVE OnItsWay(n)'
    <2>1. UNCHANGED <<producer, mailbox, bridge, journal, early>> /\ changes' = Append(changes, where)
        BY <1>2 DEF Change
    <2>2. UNCHANGED <<active, pending, delayed, stream, callback, revision, receiptFailed, drain, reply>>
        BY <2>1 DEF producer, mailbox, bridge
    <2>3. CASE n \in Ids
        <3>1. changes'[n] = changes[n]
            BY <1>0, <2>1, <2>3 DEF Ids, Now
        <3>2. OnItsWay(n)
            BY <2>1, <2>3, <3>1 DEF Unread, Ids, Now, UnreadInv, journal
        <3>3. Trusted' => InOrder(n)'
            BY <2>2, <3>2, OrderKept DEF Reconciled
        <3>4. AheadOfCursors(n)'
            BY <2>1, <3>2 DEF AheadOfCursors, OnItsWay, mailbox, bridge, journal
        <3> QED  BY <3>3, <3>4 DEF OnItsWay
    <2>4. CASE n \notin Ids
        <3>1. n = Now + 1
            BY <1>0, <2>1, <2>4 DEF Ids, Now
        <3>2. /\ n > durable /\ n > cursor /\ n > firstCursor /\ n > saving /\ ~(n <= delayed)
              /\ stream # None => ~(n <= stream)
            BY <1>0, <3>1 DEF TypeOK
        <3>3. ASSUME NEW w, Fits(w) PROVE ~(n <= w.last)
            BY <1>0, <3>1, <3>3 DEF Fits, FitsIn, Now
        <3>4. /\ active # None => ~(n <= active.last)
              /\ \A i \in 1..Len(pending) : ~(n <= pending[i].last)
            BY <3>3 DEF WorkInv
        <3>5. active # None => active.last \in Nat /\ n > active.last
            BY <1>0, <3>1 DEF WorkInv, Fits, FitsIn, Now
        <3>6. AheadOfCursors(n)'
            BY <2>1, <3>2, <3>5 DEF AheadOfCursors, DrainInv, mailbox, bridge, journal
        <3>7. InOrder(n)'
            BY <2>2, <3>2, <3>4 DEF InOrder, StandsInOrder, Current
        <3> QED  BY <3>6, <3>7 DEF OnItsWay
    <2> QED  BY <2>3, <2>4
<1>3. ASSUME Watching PROVE OnItsWay(n)'
    <2>1. UNCHANGED <<changes, told, looked, early>>
        BY <1>3 DEF Watching, Callback, Receive, Flush, system, journal
    <2> QED  BY <1>1, <1>3, <2>1, WatchedStep
<1>4. ASSUME Engine PROVE OnItsWay(n)'
    <2>1. UNCHANGED changes
        BY <1>4, EngineShape
    <2>2. told' # Ids
        BY <1>0, <2>1 DEF Ids, Now
    <2>3. told \subseteq told' /\ UNCHANGED <<looked, early>>
        BY <1>4, <2>2 DEF Engine, Dirty, ReconcileEvents, Scan, Cursor, journal
    <2> QED  BY <1>1, <1>4, <2>1, <2>3, AnsweredStep
<1>5. ASSUME Draining PROVE OnItsWay(n)'
    <2>1. UNCHANGED <<changes, told, looked, early>>
        BY <1>5 DEF Draining, StartNext, EndDrain, Process, Continue, still, system, journal
    <2> QED  BY <1>1, <1>5, <2>1, DrainedStep
<1>6. ASSUME Start \/ Refresh \/ Accepted \/ Quit \/ \E access \in BOOLEAN : RestartWatcher(access)
      PROVE  OnItsWay(n)'
    <2>1. UNCHANGED <<changes, told, looked>>
        BY <1>6 DEF Start, Refresh, Accepted, Quit, RestartWatcher, system, journal
    <2>2. ~early
        BY <1>6 DEF Start, Refresh, Accepted, Quit, RestartWatcher
    <2> QED  BY <1>1, <1>6, <2>1, <2>2, RestartedStep
<1>7. ASSUME UNCHANGED vars PROVE OnItsWay(n)'
    <2>1. UNCHANGED <<system, producer, mailbox, bridge, journal, early>>
        BY <1>7 DEF vars
    <2>2. OnItsWay(n)
        BY <1>1, <2>1 DEF system, journal
    <2>3. Trusted' => InOrder(n)'
        BY <2>1, <2>2, OrderKept DEF Reconciled, producer, mailbox, bridge
    <2>4. AheadOfCursors(n)'
        BY <2>1, <2>2 DEF AheadOfCursors, OnItsWay, mailbox, bridge, journal
    <2> QED  BY <2>3, <2>4 DEF OnItsWay
<1> QED  BY <1>2, <1>3, <1>4, <1>5, <1>6, <1>7, Zenon DEF Next

-----------------------------------------------------------------------------
(* The theorems                                                            *)

\* The invariant holds before anything has happened.
LEMMA DeliveryInit ==
    ASSUME DeliveryAssumption, Init
    PROVE  DeliveryInv
<1>1. changes \in Seq(Roots \cup {"own"}) /\ Now = 1 /\ changes[1] = "own" /\ Len(pending) = 0
    BY DEF Init, Now
<1>2. TypeOK
    <2>1. reply \in [drain : BOOLEAN \cup {None}, ask : BOOLEAN \cup {None}]
        BY DEF Init
    <2>2. 0 \in 0..Now /\ pending \in Seq(Batch)
        BY <1>1 DEF Init
    <2> QED  BY <1>1, <2>1, <2>2 DEF Init, TypeOK
<1>3. WorkInv
    BY <1>1 DEF Init, WorkInv
<1>4. DrainInv /\ EventsAreHandled
    BY DEF Init, DrainInv, EventsAreHandled, Current
<1>5. MailInv
    BY <1>1 DEF Init, MailInv, DeliveryAssumption
<1>6. UnreadInv
    BY DEF Init, UnreadInv
<1> QED  BY <1>2, <1>3, <1>4, <1>5, <1>6 DEF DeliveryInv

\* The inductive invariant: every batch is about changes that have been, the
\* drain knows where its work is, and a change that the journal has not been
\* told of lies ahead of every cursor and in the work that passes it.
THEOREM DeliveryInvariant ==
    ASSUME DeliveryAssumption
    PROVE  Spec => []DeliveryInv
<1>1. Init => DeliveryInv
    BY DeliveryInit
<1>2. DeliveryInv /\ [Next]_vars => DeliveryInv'
    <2> SUFFICES ASSUME DeliveryInv, [Next]_vars PROVE DeliveryInv'
        OBVIOUS
    <2>1. TypeOK /\ WorkInv /\ DrainInv /\ EventsAreHandled /\ MailInv /\ UnreadInv
        BY DEF DeliveryInv
    <2>2. TypeOK' /\ WorkInv' /\ MailInv'
        BY <2>1, TypeStep, WorkStep, MailStep
    <2>3. DrainInv' /\ EventsAreHandled' /\ UnreadInv'
        BY <2>1, DrainStep, HandledStep, UnreadStep
    <2> QED  BY <2>2, <2>3 DEF DeliveryInv
<1> QED  BY <1>1, <1>2, PTL DEF Spec

\* Every variable keeps to its type: the fields of EngineBridge, of the mailbox,
\* and of the engine's store.
THEOREM DeliveryTypeCorrect ==
    ASSUME DeliveryAssumption
    PROVE  Spec => []TypeOK
<1>1. DeliveryInv => TypeOK
    BY DEF DeliveryInv
<1> QED  BY <1>1, DeliveryInvariant, PTL

\* NothingIsSkipped: the durable cursor passes no change that the journal has
\* not been told of ("A failed submission keeps the earlier cursor").
THEOREM NothingSkipped ==
    ASSUME DeliveryAssumption
    PROVE  Spec => []NothingIsSkipped
<1>1. ASSUME DeliveryInv PROVE NothingIsSkipped
    <2> SUFFICES ASSUME looked, ~early, NEW n \in Ids, n <= durable, changes[n] \in Roots, n \notin told
                 PROVE  FALSE
        BY DEF NothingIsSkipped
    <2>1. n > durable
        BY <1>1 DEF DeliveryInv, UnreadInv, Unread, OnItsWay, AheadOfCursors
    <2>2. n \in Nat /\ durable \in Nat
        BY <1>1 DEF DeliveryInv, TypeOK, Ids, Now
    <2> QED  BY <2>1, <2>2
<1> QED  BY <1>1, DeliveryInvariant, PTL

\* NothingIsForgotten: a change that the journal has not been told of is on its
\* way, to be delivered still, or behind a receipt that failed.
THEOREM NothingForgotten ==
    ASSUME DeliveryAssumption
    PROVE  Spec => []NothingIsForgotten
<1>1. ASSUME DeliveryInv PROVE NothingIsForgotten
    <2> SUFFICES ASSUME looked, ~early, NEW n \in Ids, changes[n] \in Roots, n \notin told,
                        stream # None, ~receiptFailed, ~(n > stream)
                 PROVE  Reachable(n)
        BY DEF NothingIsForgotten, Reachable
    <2>1. InOrder(n)
        BY <1>1 DEF DeliveryInv, UnreadInv, Unread, OnItsWay, Trusted
    <2>2. n \in Nat /\ stream \in Nat /\ n <= stream
        BY <1>1 DEF DeliveryInv, TypeOK, Ids, Now
    <2>3. PICK w \in {callback, active} \cup {pending[i] : i \in 1..Len(pending)} :
            Current(w) /\ Carries(w, n)
        BY <2>1, <2>2 DEF InOrder, Waits, AtHand, Queued, Carries
    <2>4. {pending[i] : i \in 1..Len(pending)} = ToSet(pending)
        BY <1>1 DEF DeliveryInv, TypeOK, ToSet
    <2> QED  BY <2>3, <2>4 DEF Reachable, Current, Carries
<1> QED  BY <1>1, DeliveryInvariant, PTL

\* MailboxIsBounded: the mailbox holds no more batches, nor more events in one,
\* than FolderEventIngressLimits allows, and what is in it will be drained.
THEOREM MailboxStaysBounded ==
    ASSUME DeliveryAssumption
    PROVE  Spec => []MailboxIsBounded
<1>1. ASSUME DeliveryInv PROVE MailboxIsBounded
    <2>1. \A w \in ToSet(pending) : Cardinality(w.events) <= MaxBatchEvents
        <3>1. \A i \in 1..Len(pending) : Cardinality(pending[i].events) <= MaxBatchEvents
            BY <1>1 DEF DeliveryInv, WorkInv, Fits, FitsIn
        <3>2. DOMAIN pending = 1..Len(pending)
            BY <1>1 DEF DeliveryInv, TypeOK
        <3> QED  BY <3>1, <3>2 DEF ToSet
    <2> QED  BY <1>1, <2>1 DEF DeliveryInv, MailInv, MailboxIsBounded
<1> QED  BY <1>1, DeliveryInvariant, PTL

-----------------------------------------------------------------------------
(* What is observed below a grant                                          *)

CONSTANT Attempts
VARIABLES reaches, granted, holds, version, dead, now, at, want, bound, fds, opened, expected,
          observed, attempt, read, answer, whose, first, witness

\* The observation of one path in a tree that other programs change.
Scope == INSTANCE ScopeProof

\* What describes an object.
Described == [inode : Scope!Objects, version : Nat]
\* Nobody has touched o since it had version v.
Untouched(o, v) == version[o] = v
\* None is nothing else.
ScopeAssumption == None \notin Scope!Objects /\ None \notin Described

\* The file system.  A number goes to another leaf only when no folder has the first one,
\* and then its version is a newer one.
VolumeIsSound ==
    /\ granted \in Scope!Folders \cup {None}
    /\ DOMAIN holds = Scope!Folders \cup Scope!Parents
    /\ \A d \in Scope!Folders : holds[d] \in Scope!Parents \cup {None}
    /\ \A p \in Scope!Parents :
          /\ holds[p] \in Scope!Leaves \cup {None} /\ holds[p] \notin dead
          /\ holds[p] = "recreated leaf" =>
                "leaf" \in dead /\ version["leaf"] < version["recreated leaf"]
    /\ now \in Nat /\ version \in [Scope!Objects -> Nat]
    /\ \A o \in Scope!Objects : version[o] <= now

\* Where the observer confirms what it found.
Confirming == {"observe", "links", "current", "revalidate", "recheck"}
\* Where it has found it again.
Found == {"revalidate", "recheck"}
\* The directory opened last.
Innermost == fds[Len(fds)]
\* What is open: the grant, or the grant and a folder that was in it.
OpenedFits ==
    /\ want \in 0..2
    /\ bound # None => bound.depth \in Nat
    /\ at \in {"child", "open"} \cup Confirming =>
          /\ fds = <<"grant">> \/ (want = 2 /\ \E p \in Scope!Parents : fds = <<"grant", p>>)
          /\ opened \in Seq(Described) /\ Len(opened) = Len(fds)
          /\ opened[Len(fds)].version <= now
    /\ at \in {"child", "open"} => want > 0
    /\ at = "open" => want = 2 /\ fds = <<"grant">> /\ read \in Described /\ read.version <= now

\* What was first seen, and that it is still there if its folder is as it was opened.
FirstIsThere ==
    at \in Confirming =>
        /\ first \in Scope!Objects \cup {None}
        /\ first = "recreated leaf" => "leaf" \in dead
        /\ want = 0 => first = "grant"
        /\ want > 0 /\ Untouched(Innermost, opened[Len(fds)].version) => holds[Innermost] = first
        /\ expected \in Described \cup {None}
        /\ expected # None =>
              /\ first # None /\ want \in {0, Len(fds)}
              /\ expected.inode = Scope!Inode(first) /\ expected.version <= version[first]

\* What was observed of the directories holds as long as nobody touches them.
ObservedFits ==
    at \in Confirming =>
        /\ observed \in Seq(Described)
        /\ IF at = "observe" THEN Len(observed) < Len(fds) ELSE Len(observed) = Len(fds)
        /\ at = "links" => Len(fds) = 2
        /\ \A k \in 1..Len(observed) :
              /\ observed[k].inode = Scope!Inode(fds[k]) /\ observed[k].version <= now
              /\ bound # None /\ bound.depth = k - 1 => observed[k] = bound.meta
        /\ at \in Found \cup {"current"} /\ Len(fds) = 2 /\ Untouched("grant", observed[1].version) =>
              holds["grant"] = fds[2]

\* So does what was found at the end of the path, the second time.
FoundFits ==
    at \in Found =>
        /\ whose \in Scope!Objects \cup {None}
        /\ whose = "recreated leaf" => "leaf" \in dead
        /\ want = 0 => whose = "grant"
        /\ want > 0 /\ Untouched(Innermost, observed[Len(fds)].version) => holds[Innermost] = whose
        /\ read \in Described \cup {None}
        /\ read = None <=> whose = None
        /\ read # None => read.inode = Scope!Inode(whose) /\ read.version <= version[whose]
        /\ read = expected /\ read # None => whose = first
        /\ read # expected =>
              /\ read # None /\ expected # None
              /\ want = 0 \/ observed[Len(fds)] = opened[Len(fds)]

\* Nobody has touched a directory since it was observed.
AllUntouched == \A k \in 1..Len(fds) : Untouched(fds[k], observed[k].version)
\* Then what was at the path is what was found.
WitnessFits ==
    at = "recheck" /\ AllUntouched =>
        /\ witness.leaf = whose
        /\ bound # None /\ bound.depth < Len(fds) => witness.ancestor = bound.meta
\* So it was when there is an answer.
AnswerFits ==
    at = "done" =>
        /\ witness.leaf = whose /\ (answer = None <=> whose = None)
        /\ answer # None => whose = first
        /\ bound # None /\ bound.depth < Len(fds) => witness.ancestor = bound.meta

\* The inductive invariant.
ScopeInv ==
    VolumeIsSound /\ OpenedFits /\ FirstIsThere /\ ObservedFits /\ FoundFits /\ WitnessFits /\ AnswerFits

\* Folders, what they hold, and what that holds.
LEMMA ScopeNames ==
    ASSUME ScopeAssumption
    PROVE  /\ \A o \in Scope!Folders : o \notin Scope!Parents /\ o \notin Scope!Leaves
           /\ \A o \in Scope!Parents : o \notin Scope!Leaves
           /\ \A o \in Scope!Objects : o # None /\ Scope!Inode(o) \in Scope!Objects
           /\ \A o \in Scope!Folders \cup Scope!Parents : Scope!Inode(o) = o
           /\ Scope!Objects = Scope!Folders \cup Scope!Parents \cup Scope!Leaves
           /\ "grant" \in Scope!Folders
           /\ "leaf" \in Scope!Leaves /\ "recreated leaf" \in Scope!Leaves
           /\ \A o \in Scope!Folders \cup Scope!Parents \cup Scope!Leaves : o \in Scope!Objects
           /\ \A o \in Scope!Folders \cup Scope!Parents : o # "leaf" /\ o # "recreated leaf"
           /\ \A o, p \in Scope!Objects : Scope!Inode(o) = Scope!Inode(p) =>
                 o = p \/ {o, p} = {"leaf", "recreated leaf"}
BY DEF ScopeAssumption, Scope!Objects, Scope!Folders, Scope!Parents, Scope!Leaves, Scope!Inode

\* Of three versions.
LEMMA StillNewer ==
    ASSUME NEW a \in Nat, NEW b \in Nat, NEW c \in Nat, a < b, b <= c PROVE a < c
OBVIOUS
\* A new version is newer than any.
LEMMA NewIsNewer ==
    ASSUME NEW a \in Nat, NEW b \in Nat, a <= b PROVE a < b + 1
OBVIOUS

\* What a description says.
LEMMA ScopeMeta ==
    ASSUME ScopeAssumption, VolumeIsSound, NEW o \in Scope!Objects
    PROVE  /\ Scope!Meta(o) \in Described /\ Scope!Meta(o) # None
           /\ Scope!Meta(o).inode = Scope!Inode(o) /\ Scope!Meta(o).version = version[o]
           /\ version[o] \in Nat /\ version[o] <= now
<1>1. version[o] \in Nat /\ version[o] <= now  BY DEF VolumeIsSound
<1>2. Scope!Inode(o) \in Scope!Objects  BY ScopeNames
<1>3. Scope!Meta(o) \in Described  BY <1>1, <1>2 DEF Scope!Meta, Described
<1> QED  BY <1>1, <1>3 DEF Scope!Meta, ScopeAssumption

\* What other programs leave: an object whose version is not new is as it was.
VolumeMoves ==
    /\ VolumeIsSound' /\ now' = now + 1
    /\ UNCHANGED <<at, want, bound, fds, opened, expected, observed, attempt, read, answer,
                   whose, first, witness>>
    /\ \A o \in Scope!Objects :
          /\ version[o] <= version'[o]
          /\ version'[o] <= now => version'[o] = version[o]
          /\ version'[o] <= now /\ o \in Scope!Folders \cup Scope!Parents => holds'[o] = holds[o]
    /\ dead \subseteq dead'

\* What a touch does to the versions.
LEMMA VolumeTouched ==
    ASSUME ScopeAssumption, VolumeIsSound, NEW S, Scope!Touch(S)
    PROVE  /\ now' = now + 1 /\ now' \in Nat
           /\ UNCHANGED <<at, want, bound, fds, opened, expected, observed, attempt, read, answer,
                          whose, first, witness>>
           /\ version' \in [Scope!Objects -> Nat]
           /\ \A o \in Scope!Objects : version'[o] = IF o \in S THEN now + 1 ELSE version[o]
           /\ \A o \in Scope!Objects : version'[o] <= now' /\ version[o] <= version'[o]
           /\ \A o \in Scope!Objects : version'[o] <= now => o \notin S /\ version'[o] = version[o]
<1>1. now \in Nat /\ version \in [Scope!Objects -> Nat] /\ \A o \in Scope!Objects : version[o] <= now
  BY DEF VolumeIsSound
<1>2. now' = now + 1 /\ version' = [o \in Scope!Objects |-> IF o \in S THEN now' ELSE version[o]]
  BY DEF Scope!Touch
<1>3. UNCHANGED <<at, want, bound, fds, opened, expected, observed, attempt, read, answer,
                  whose, first, witness>>
  BY DEF Scope!Touch, Scope!proof
<1>4. \A o \in Scope!Objects : version'[o] = IF o \in S THEN now + 1 ELSE version[o]
  BY <1>2
<1>5. \A o \in Scope!Objects : version[o] \in Nat /\ version'[o] \in Nat
  BY <1>1, <1>4
<1>6. version' \in [Scope!Objects -> Nat]
  BY <1>2, <1>4, <1>5
<1>7. \A o \in Scope!Objects : version'[o] <= now + 1 /\ version[o] <= version'[o]
  BY <1>1, <1>4, <1>5
<1>8. \A o \in Scope!Objects : version'[o] <= now => o \notin S /\ version'[o] = version[o]
  BY <1>1, <1>4
<1> QED  BY <1>1, <1>2, <1>3, <1>4, <1>6, <1>7, <1>8

\* A file is written, or something above the directories is moved.
LEMMA LeafIsWritten ==
    ASSUME ScopeAssumption, VolumeIsSound,
           Scope!Write \/ Scope!MoveAbove \/ \E o \in Scope!Folders \cup {None} : Scope!MoveGrant(o)
    PROVE  VolumeMoves
<1>1. /\ UNCHANGED <<holds, dead>> /\ granted' \in Scope!Folders \cup {None}
  BY DEF Scope!Write, Scope!MoveAbove, Scope!MoveGrant, VolumeIsSound
<1>2. PICK S : Scope!Touch(S) /\ ("leaf" \in S => "leaf" \notin dead)
  <2>1. CASE Scope!Write  BY <2>1 DEF Scope!Write
  <2>2. CASE Scope!MoveAbove  BY <2>2 DEF Scope!MoveAbove
  <2>3. CASE \E o \in Scope!Folders \cup {None} : Scope!MoveGrant(o)
    <3>1. PICK o \in Scope!Folders \cup {None} : Scope!MoveGrant(o)  BY <2>3
    <3>2. Scope!Touch({o, granted} \cap Scope!Objects)  BY <3>1 DEF Scope!MoveGrant
    <3>3. "leaf" \notin {o, granted} \cap Scope!Objects
      <4>1. o \in Scope!Folders \cup {None} /\ granted \in Scope!Folders \cup {None}
        BY DEF VolumeIsSound
      <4>2. None \notin Scope!Objects  BY ScopeNames
      <4>3. \A f \in Scope!Folders : f # "leaf"  BY ScopeNames
      <4> QED  BY <4>1, <4>2, <4>3
    <3> QED  BY <3>2, <3>3
  <2> QED  BY <2>1, <2>2, <2>3
<1>3. VolumeIsSound'
  <2>1. \A p \in Scope!Parents : holds[p] = "recreated leaf" =>
           "leaf" \in dead /\ version'["leaf"] < version'["recreated leaf"]
    <3> SUFFICES ASSUME NEW p \in Scope!Parents, holds[p] = "recreated leaf"
                 PROVE  "leaf" \in dead /\ version'["leaf"] < version'["recreated leaf"]
      OBVIOUS
    <3>1. "leaf" \in dead /\ version["leaf"] < version["recreated leaf"]  BY DEF VolumeIsSound
    <3>2. "leaf" \in Scope!Objects /\ "recreated leaf" \in Scope!Objects  BY ScopeNames
    <3>3. version'["leaf"] = version["leaf"]  BY <1>2, <3>1, <3>2, VolumeTouched
    <3>4. /\ version["recreated leaf"] <= version'["recreated leaf"]
          /\ version["recreated leaf"] \in Nat /\ version["leaf"] \in Nat
      BY <1>2, <3>2, VolumeTouched DEF VolumeIsSound
    <3>5. version'["recreated leaf"] \in Nat  BY <1>2, <3>2, VolumeTouched
    <3>6. version["leaf"] < version'["recreated leaf"]
      BY <3>1, <3>4, <3>5, StillNewer
    <3> QED  BY <3>1, <3>3, <3>6
  <2> QED  BY <1>1, <1>2, <2>1, VolumeTouched DEF VolumeIsSound
<1> QED  BY <1>1, <1>2, <1>3, VolumeTouched DEF VolumeMoves

\* A folder is put in the grant, or a leaf in a folder, or taken away.
LEMMA ObjectIsPlaced ==
    ASSUME ScopeAssumption, VolumeIsSound,
           NEW d \in Scope!Folders \cup Scope!Parents, NEW o \in Scope!Parents \cup Scope!Leaves \cup {None},
           o \in Scope!Parents => d \in Scope!Folders, o \in Scope!Leaves => d \in Scope!Parents,
           Scope!Place(d, o),
           o = "recreated leaf" => "leaf" \in dead,
           dead' = dead \cup {l \in Scope!Leaves : l = holds[d] /\ \A p \in Scope!Parents : holds'[p] # l}
    PROVE  VolumeMoves
<1>1. /\ o # holds[d] /\ o \notin dead /\ granted' = granted
      /\ Scope!Touch({d, o, holds[d]} \cap Scope!Objects)
      /\ holds' = [holds EXCEPT ![d] = o]
  BY DEF Scope!Place
<1>2. DOMAIN holds = Scope!Folders \cup Scope!Parents  BY DEF VolumeIsSound
<1>3. DOMAIN holds' = DOMAIN holds /\ holds'[d] = o
      /\ \A e \in Scope!Folders \cup Scope!Parents : e # d => holds'[e] = holds[e]
  BY <1>1, <1>2
<1>4. dead \subseteq dead'  OBVIOUS
<1>5. VolumeIsSound'
  <2>1. \A e \in Scope!Folders : holds'[e] \in Scope!Parents \cup {None}
    <3>1. d \in Scope!Folders => o \in Scope!Parents \cup {None}  BY ScopeNames
    <3>2. \A e \in Scope!Folders : holds[e] \in Scope!Parents \cup {None}  BY DEF VolumeIsSound
    <3> QED  BY <1>3, <3>1, <3>2
  <2>2. \A p \in Scope!Parents : holds'[p] \in Scope!Leaves \cup {None}
    <3>1. d \in Scope!Parents => o \in Scope!Leaves \cup {None}  BY ScopeNames
    <3>2. \A p \in Scope!Parents : holds[p] \in Scope!Leaves \cup {None}  BY DEF VolumeIsSound
    <3> QED  BY <1>3, <3>1, <3>2
  <2>3. \A p \in Scope!Parents : holds'[p] \notin dead'
    <3>1. \A p \in Scope!Parents : holds'[p] \notin dead  BY <1>1, <1>3 DEF VolumeIsSound
    <3> QED  BY <3>1
  <2>4. ASSUME NEW p \in Scope!Parents, holds'[p] = "recreated leaf"
        PROVE  "leaf" \in dead' /\ version'["leaf"] < version'["recreated leaf"]
    <3> DEFINE S == {d, o, holds[d]} \cap Scope!Objects
    <3>1. "leaf" \in dead /\ (p = d \/ holds[p] = "recreated leaf")
      BY <1>3, <2>4 DEF VolumeIsSound
    <3>2. "leaf" \in Scope!Objects /\ "recreated leaf" \in Scope!Objects  BY ScopeNames
    <3>3. "leaf" \notin S
      <4>1. holds[d] # "leaf"
        <5>1. CASE d \in Scope!Folders
          <6>1. holds[d] \in Scope!Parents \cup {None}  BY <5>1 DEF VolumeIsSound
          <6>2. None # "leaf" /\ \A p2 \in Scope!Parents : p2 # "leaf"  BY <3>2, ScopeNames
          <6> QED  BY <6>1, <6>2
        <5>2. CASE d \in Scope!Parents  BY <3>1, <5>2 DEF VolumeIsSound
        <5> QED  BY <5>1, <5>2
      <4> QED  BY <1>1, <3>1, <4>1, ScopeNames
    <3>4. version'["leaf"] = version["leaf"]  BY <1>1, <3>2, <3>3, VolumeTouched
    <3>5. version["leaf"] \in Nat /\ version["leaf"] <= now /\ version["recreated leaf"] \in Nat /\ now \in Nat
      BY <3>2 DEF VolumeIsSound
    <3>6. CASE p = d
      <4>1. "recreated leaf" \in S  BY <1>3, <2>4, <3>2, <3>6
      <4>2. version'["recreated leaf"] = now + 1  BY <1>1, <3>2, <4>1, VolumeTouched
      <4>3. version["leaf"] < now + 1  BY <3>5, NewIsNewer
      <4>4. "leaf" \in dead'  BY <1>4, <3>1
      <4> QED  BY <3>4, <4>2, <4>3, <4>4
    <3>7. CASE holds[p] = "recreated leaf"
      <4>1. version["leaf"] < version["recreated leaf"]  BY <3>7 DEF VolumeIsSound
      <4>2. version["recreated leaf"] <= version'["recreated leaf"] /\ version'["recreated leaf"] \in Nat
        BY <1>1, <3>2, VolumeTouched
      <4>3. version["leaf"] < version'["recreated leaf"]
        BY <3>5, <4>1, <4>2, StillNewer
      <4>4. "leaf" \in dead'  BY <1>4, <3>1
      <4> QED  BY <3>4, <4>3, <4>4
    <3> QED  BY <3>1, <3>6, <3>7
  <2>5. granted' \in Scope!Folders \cup {None}  BY <1>1 DEF VolumeIsSound
  <2> QED  BY <1>1, <1>2, <1>3, <2>1, <2>2, <2>3, <2>4, <2>5, VolumeTouched DEF VolumeIsSound
<1>6. \A e \in Scope!Folders \cup Scope!Parents : version'[e] <= now => holds'[e] = holds[e]
  <2>1. \A e \in Scope!Folders \cup Scope!Parents : e \in Scope!Objects  BY ScopeNames
  <2>2. version'[d] <= now => FALSE
    <3>1. d \in Scope!Objects /\ d \in {d, o, holds[d]} \cap Scope!Objects  BY <2>1
    <3> QED  BY <1>1, <3>1, VolumeTouched
  <2> QED  BY <1>3, <2>2
<1> QED  BY <1>1, <1>4, <1>5, <1>6, VolumeTouched DEF VolumeMoves

\* Whatever the other programs do.
LEMMA VolumeChanges ==
    ASSUME ScopeAssumption, VolumeIsSound, Scope!Change PROVE VolumeMoves
<1>1. ASSUME NEW o \in Scope!Parents \cup {None}, Scope!MoveFolder("grant", o) PROVE VolumeMoves
  <2>1. Scope!Place("grant", o) /\ dead' = dead  BY <1>1 DEF Scope!MoveFolder
  <2>2. "grant" \in Scope!Folders /\ o \notin Scope!Leaves /\ holds["grant"] \notin Scope!Leaves
    BY ScopeNames DEF VolumeIsSound, ScopeAssumption
  <2>3. dead' = dead \cup {l \in Scope!Leaves : l = holds["grant"] /\ \A p \in Scope!Parents : holds'[p] # l}
    BY <2>1, <2>2
  <2>4. o # "recreated leaf"  BY <2>2, ScopeNames
  <2> QED  BY <2>1, <2>2, <2>3, <2>4, ObjectIsPlaced
<1>2. ASSUME NEW d \in Scope!Parents, NEW o \in Scope!Leaves \cup {None}, Scope!MoveLeaf(d, o) PROVE VolumeMoves
  <2>1. /\ Scope!Place(d, o) /\ (o = "recreated leaf" => "leaf" \in dead)
        /\ dead' = dead \cup {l \in Scope!Leaves : l = holds[d] /\ \A p \in Scope!Parents : holds'[p] # l}
    BY <1>2 DEF Scope!MoveLeaf
  <2>2. o \notin Scope!Parents  BY ScopeNames DEF ScopeAssumption
  <2> QED  BY <2>1, <2>2, ObjectIsPlaced
<1> QED  BY <1>1, <1>2, LeafIsWritten DEF Scope!Change

\* The directories that are open.
LEMMA DirectoriesAre ==
    ASSUME ScopeAssumption, OpenedFits, at \in {"child", "open"} \cup Confirming
    PROVE  /\ Len(fds) \in {1, 2} /\ fds[1] = "grant" /\ (Len(fds) = 2 => want = 2 /\ fds[2] \in Scope!Parents)
           /\ \A k \in 1..Len(fds) : fds[k] \in Scope!Folders \cup Scope!Parents /\ fds[k] \in Scope!Objects
           /\ Innermost \in Scope!Folders \cup Scope!Parents /\ Innermost \in Scope!Objects
           /\ Len(fds) = 1 => Innermost = "grant"
           /\ Len(fds) = 2 => Innermost = fds[2]
           /\ opened[Len(fds)].version \in Nat /\ opened[Len(fds)].version <= now
<1>1. fds = <<"grant">> \/ (want = 2 /\ \E p \in Scope!Parents : fds = <<"grant", p>>)
  BY DEF OpenedFits
<1>2. "grant" \in Scope!Folders  BY ScopeNames
<1>3. /\ Len(fds) \in {1, 2} /\ fds[1] = "grant"
      /\ (Len(fds) = 2 => want = 2 /\ fds[2] \in Scope!Parents)
  <2>1. CASE fds = <<"grant">>  BY <2>1
  <2>2. CASE want = 2 /\ \E p \in Scope!Parents : fds = <<"grant", p>>  BY <2>2
  <2> QED  BY <1>1, <2>1, <2>2
<1>4. \A k \in 1..Len(fds) : k = 1 \/ (k = 2 /\ Len(fds) = 2)
  <2>1. Len(fds) = 1 \/ Len(fds) = 2  BY <1>3
  <2> QED  BY <2>1, Z3
<1>5. \A k \in 1..Len(fds) : fds[k] \in Scope!Folders \cup Scope!Parents
  BY <1>2, <1>3, <1>4
<1>6. \A o \in Scope!Folders \cup Scope!Parents : o \in Scope!Objects  BY ScopeNames
<1>7. Len(fds) \in 1..Len(fds)  BY <1>3
<1>8. opened[Len(fds)] \in Described /\ opened[Len(fds)].version <= now
  <2>1. opened \in Seq(Described) /\ Len(opened) = Len(fds) /\ opened[Len(fds)].version <= now
    BY DEF OpenedFits
  <2> QED  BY <1>3, <2>1
<1>9. opened[Len(fds)].version \in Nat  BY <1>8 DEF Described
<1> QED  BY <1>3, <1>5, <1>6, <1>7, <1>8, <1>9 DEF Innermost

\* Nothing is looked at.
LEMMA ScopeStart ==
    ASSUME ScopeAssumption, Scope!Init PROVE ScopeInv
<1>1. VolumeIsSound
  <2>1. /\ granted = "grant" /\ now = 0 /\ dead = {} /\ version = [o \in Scope!Objects |-> 0]
    BY DEF Scope!Init
  <2>2. holds = [d \in Scope!Folders \cup Scope!Parents |->
                   CASE d = "grant" -> "folder" [] d = "folder" -> "leaf" [] OTHER -> None]
    BY DEF Scope!Init
  <2>3. /\ DOMAIN holds = Scope!Folders \cup Scope!Parents
        /\ holds["grant"] = "folder" /\ holds["other grant"] = None
        /\ holds["folder"] = "leaf" /\ holds["other folder"] = None
    BY <2>2 DEF Scope!Folders, Scope!Parents
  <2>4. None # "recreated leaf"
    BY DEF ScopeAssumption, Scope!Objects, Scope!Leaves
  <2>5. \A d \in Scope!Folders : holds[d] \in Scope!Parents \cup {None}
    BY <2>3 DEF Scope!Folders, Scope!Parents
  <2>6. \A p \in Scope!Parents : holds[p] \in Scope!Leaves \cup {None} /\ holds[p] # "recreated leaf"
    BY <2>3, <2>4 DEF Scope!Parents, Scope!Leaves
  <2>7. granted \in Scope!Folders \cup {None}  BY <2>1, ScopeNames
  <2>8. now \in Nat /\ version \in [Scope!Objects -> Nat] /\ \A o \in Scope!Objects : version[o] <= now
    BY <2>1
  <2>9. \A p \in Scope!Parents : holds[p] \notin dead  BY <2>1
  <2> QED  BY <2>3, <2>5, <2>6, <2>7, <2>8, <2>9 DEF VolumeIsSound
<1>2. at = "idle" /\ want = 0 /\ bound = None  BY DEF Scope!Init
<1> QED  BY <1>1, <1>2 DEF ScopeInv, OpenedFits, FirstIsThere, ObservedFits, FoundFits, WitnessFits,
           AnswerFits, Confirming, Found

\* What the observer knows of an object stays true until it is touched.
LEMMA OthersLeave ==
    ASSUME ScopeAssumption, ScopeInv, VolumeMoves PROVE ScopeInv'
<1>1. /\ VolumeIsSound /\ OpenedFits /\ FirstIsThere /\ ObservedFits /\ FoundFits /\ WitnessFits /\ AnswerFits
  BY DEF ScopeInv
<1>2. /\ VolumeIsSound' /\ now' = now + 1 /\ dead \subseteq dead'
      /\ UNCHANGED <<at, want, bound, fds, opened, expected, observed, attempt, read, answer,
                     whose, first, witness>>
      /\ \A o \in Scope!Objects : version[o] <= version'[o]
  BY DEF VolumeMoves
<1>3. now \in Nat  BY <1>1 DEF VolumeIsSound
<1>4. \A n \in Nat : n <= now => n <= now + 1  BY <1>3
<1>5. \A o \in Scope!Objects : version[o] \in Nat /\ version'[o] \in Nat
  BY <1>1, <1>2 DEF VolumeIsSound
<1>6. ASSUME NEW o \in Scope!Objects, NEW n \in Nat, n <= now, Untouched(o, n)'
      PROVE  Untouched(o, n) /\ (o \in Scope!Folders \cup Scope!Parents => holds'[o] = holds[o])
  BY <1>6 DEF VolumeMoves, Untouched
<1>7. OpenedFits'
  <2>1. at \in {"child", "open"} \cup Confirming => opened[Len(fds)].version <= now + 1
    BY <1>1, <1>4, DirectoriesAre
  <2>2. at = "open" => read.version <= now + 1
    <3>1. at = "open" => read \in Described /\ read.version <= now  BY <1>1 DEF OpenedFits
    <3>2. read \in Described => read.version \in Nat  BY DEF Described
    <3> QED  BY <1>4, <3>1, <3>2
  <2> QED  BY <1>1, <1>2, <2>1, <2>2 DEF OpenedFits
<1>8. FirstIsThere'
  <2> SUFFICES ASSUME at \in Confirming PROVE FirstIsThere'
    BY <1>2 DEF FirstIsThere
  <2>1. Innermost' = Innermost /\ Len(fds)' = Len(fds)  BY <1>2 DEF Innermost
  <2>2. Untouched(Innermost, opened[Len(fds)].version)' => holds'[Innermost] = holds[Innermost] /\ Untouched(Innermost, opened[Len(fds)].version)
    <3> DEFINE v == opened[Len(fds)].version
    <3>1. /\ Innermost \in Scope!Objects /\ Innermost \in Scope!Folders \cup Scope!Parents
          /\ v \in Nat /\ v <= now
      BY <1>1, DirectoriesAre
    <3>2. v' = v  BY <1>2
    <3> HIDE DEF v
    <3>3. Untouched(Innermost, v)' <=> version'[Innermost] = v  BY <2>1, <3>2 DEF Untouched
    <3>4. version'[Innermost] = v => version[Innermost] = v /\ holds'[Innermost] = holds[Innermost]
      BY <3>1 DEF VolumeMoves
    <3>5. Untouched(Innermost, v)' => Untouched(Innermost, v) /\ holds'[Innermost] = holds[Innermost]
      BY <3>3, <3>4 DEF Untouched
    <3> QED  BY <3>5 DEF v
  <2>3. expected # None => expected.version <= version'[first]
    <3> SUFFICES ASSUME expected # None PROVE expected.version <= version'[first]
      OBVIOUS
    <3>1. first \in Scope!Objects /\ expected \in Described /\ expected.version <= version[first]
      BY <1>1 DEF FirstIsThere
    <3>2. expected.version \in Nat  BY <3>1 DEF Described
    <3>3. \A a, b, c \in Nat : a <= b /\ b <= c => a <= c  OBVIOUS
    <3> QED  BY <1>2, <1>5, <3>1, <3>2, <3>3
  <2> QED  BY <1>1, <1>2, <2>1, <2>2, <2>3 DEF FirstIsThere
<1>9. ObservedFits'
  <2> SUFFICES ASSUME at \in Confirming PROVE ObservedFits'
    BY <1>2 DEF ObservedFits
  <2>1. \A k \in 1..Len(observed) : observed[k].version \in Nat /\ observed[k].version <= now
    <3>1. observed \in Seq(Described)  BY <1>1 DEF ObservedFits
    <3>2. \A k \in 1..Len(observed) : observed[k] \in Described  BY <3>1
    <3> QED  BY <1>1, <3>2 DEF ObservedFits, Described
  <2>2. at \in Found \cup {"current"} => Len(observed) = Len(fds) /\ 1 \in 1..Len(observed)
    BY <1>1, DirectoriesAre DEF ObservedFits, Confirming, Found
  <2>3. at \in Found \cup {"current"} /\ Untouched("grant", observed[1].version)' =>
           Untouched("grant", observed[1].version) /\ holds'["grant"] = holds["grant"]
    <3>1. "grant" \in Scope!Objects /\ "grant" \in Scope!Folders  BY ScopeNames
    <3>2. at \in Found \cup {"current"} => observed[1].version \in Nat /\ observed[1].version <= now
      BY <2>1, <2>2
    <3>3. Untouched("grant", observed[1].version)' <=> version'["grant"] = observed[1].version
      BY <1>2 DEF Untouched
    <3> QED  BY <3>1, <3>2, <3>3 DEF VolumeMoves, Untouched
  <2> QED  BY <1>1, <1>2, <1>4, <2>1, <2>3 DEF ObservedFits
<1>10. FoundFits'
  <2> SUFFICES ASSUME at \in Found PROVE FoundFits'
    BY <1>2 DEF FoundFits
  <2>1. at \in Confirming /\ Innermost' = Innermost /\ Len(fds)' = Len(fds)  BY <1>2 DEF Innermost, Confirming, Found
  <2>2. Untouched(Innermost, observed[Len(fds)].version)' => holds'[Innermost] = holds[Innermost] /\ Untouched(Innermost, observed[Len(fds)].version)
    <3> DEFINE v == observed[Len(fds)].version
    <3>1. Innermost \in Scope!Objects /\ Innermost \in Scope!Folders \cup Scope!Parents /\ Len(fds) \in {1, 2}
      BY <1>1, <2>1, DirectoriesAre
    <3>2. v \in Nat /\ v <= now
      <4>1. observed \in Seq(Described) /\ Len(observed) = Len(fds)
        BY <1>1, <2>1 DEF ObservedFits, Found
      <4>2. Len(fds) \in 1..Len(observed) /\ observed[Len(fds)] \in Described  BY <3>1, <4>1
      <4> QED  BY <1>1, <2>1, <4>2 DEF ObservedFits, Described
    <3>3. v' = v  BY <1>2
    <3> HIDE DEF v
    <3>4. Untouched(Innermost, v)' <=> version'[Innermost] = v  BY <2>1, <3>3 DEF Untouched
    <3>5. version'[Innermost] = v => version[Innermost] = v /\ holds'[Innermost] = holds[Innermost]
      BY <3>1, <3>2 DEF VolumeMoves
    <3>6. Untouched(Innermost, v)' => Untouched(Innermost, v) /\ holds'[Innermost] = holds[Innermost]
      BY <3>4, <3>5 DEF Untouched
    <3> QED  BY <3>6 DEF v
  <2>3. read # None => read.version <= version'[whose]
    <3> SUFFICES ASSUME read # None PROVE read.version <= version'[whose]
      OBVIOUS
    <3>1. whose \in Scope!Objects /\ read \in Described /\ read.version <= version[whose]
      BY <1>1 DEF FoundFits
    <3>2. read.version \in Nat  BY <3>1 DEF Described
    <3>3. \A a, b, c \in Nat : a <= b /\ b <= c => a <= c  OBVIOUS
    <3> QED  BY <1>2, <1>5, <3>1, <3>2, <3>3
  <2> QED  BY <1>1, <1>2, <2>1, <2>2, <2>3 DEF FoundFits
<1>11. WitnessFits'
  <2> SUFFICES ASSUME at = "recheck", AllUntouched' PROVE WitnessFits'
    BY <1>2 DEF WitnessFits
  <2>1. at \in Confirming /\ at \in Found  BY DEF Confirming, Found
  <2>2. AllUntouched
    <3>1. observed \in Seq(Described) /\ Len(observed) = Len(fds)
      BY <1>1, <2>1 DEF ObservedFits
    <3>2. \A k \in 1..Len(fds) : observed[k] \in Described /\ observed[k].version <= now
      BY <1>1, <2>1, <3>1 DEF ObservedFits
    <3>3. \A k \in 1..Len(fds) : observed[k].version \in Nat /\ fds[k] \in Scope!Objects
      BY <1>1, <2>1, <3>2, DirectoriesAre DEF Described
    <3>4. \A k \in 1..Len(fds) : version'[fds[k]] = observed[k].version
      BY <1>2 DEF AllUntouched, Untouched
    <3>5. \A k \in 1..Len(fds) : version[fds[k]] = observed[k].version
      BY <3>2, <3>3, <3>4 DEF VolumeMoves
    <3> QED  BY <3>5 DEF AllUntouched, Untouched
  <2> QED  BY <1>1, <1>2, <2>2 DEF WitnessFits
<1>12. AnswerFits'
  BY <1>1, <1>2 DEF AnswerFits
<1> QED  BY <1>2, <1>7, <1>8, <1>9, <1>10, <1>11, <1>12 DEF ScopeInv

\* What a directory holds.
LEMMA HeldIs ==
    ASSUME ScopeAssumption, VolumeIsSound, NEW d \in Scope!Folders \cup Scope!Parents
    PROVE  /\ holds[d] # None => holds[d] \in Scope!Objects
           /\ d \in Scope!Folders /\ holds[d] # None => holds[d] \in Scope!Parents
           /\ holds[d] = "leaf" => "leaf" \notin dead
           /\ holds[d] = "recreated leaf" =>
                 "leaf" \in dead /\ version["leaf"] < version["recreated leaf"]
<1>1. CASE d \in Scope!Folders
  <2>1. holds[d] \in Scope!Parents \cup {None}  BY <1>1 DEF VolumeIsSound
  <2>2. \A p \in Scope!Parents : p \in Scope!Objects /\ p # "leaf" /\ p # "recreated leaf"  BY ScopeNames
  <2>3. None # "leaf" /\ None # "recreated leaf"  BY ScopeNames
  <2> QED  BY <2>1, <2>2, <2>3
<1>2. CASE d \in Scope!Parents
  <2>1. holds[d] \in Scope!Leaves \cup {None} /\ holds[d] \notin dead  BY <1>2 DEF VolumeIsSound
  <2>2. \A l \in Scope!Leaves : l \in Scope!Objects  BY ScopeNames
  <2>3. d \notin Scope!Folders  BY <1>2, ScopeNames
  <2>4. holds[d] = "recreated leaf" => "leaf" \in dead /\ version["leaf"] < version["recreated leaf"]
    BY <1>2 DEF VolumeIsSound
  <2> QED  BY <2>1, <2>2, <2>3, <2>4
<1> QED  BY <1>1, <1>2

\* Where nothing is claimed.
LEMMA NothingIsClaimed ==
    ASSUME VolumeIsSound', want' \in 0..2, bound' # None => bound'.depth \in Nat,
           at' \in {"idle", "validate", "open grant", "failed"}
    PROVE  ScopeInv'
BY DEF ScopeInv, OpenedFits, FirstIsThere, ObservedFits, FoundFits, WitnessFits, AnswerFits,
       Confirming, Found
\* A confirmation begins with nothing observed.
LEMMA ConfirmationBegins ==
    ASSUME VolumeIsSound', OpenedFits', FirstIsThere', at' = "observe", observed' = <<>>
    PROVE  ScopeInv'
<1>1. at' \notin Found' /\ at' # "links" /\ at' # "current" /\ at' # "recheck" /\ at' # "done"
      /\ at' \in Confirming'
  BY DEF Found, Confirming
<1>2. Len(fds') > 0
  <2>1. fds' = <<"grant">> \/ \E p \in Scope!Parents : fds' = <<"grant", p>>
    BY <1>1 DEF OpenedFits
  <2>2. CASE fds' = <<"grant">>  BY <2>2
  <2>3. CASE \E p \in Scope!Parents : fds' = <<"grant", p>>  BY <2>3
  <2> QED  BY <2>1, <2>2, <2>3
<1>3. observed' \in Seq(Described) /\ Len(observed') = 0  OBVIOUS
<1>4. ObservedFits'  BY <1>1, <1>2, <1>3 DEF ObservedFits
<1> QED  BY <1>1, <1>4 DEF ScopeInv, FoundFits, WitnessFits, AnswerFits

\* The world is not the observer's.
LEMMA VolumeStays ==
    ASSUME VolumeIsSound, UNCHANGED Scope!world
    PROVE  VolumeIsSound' /\ UNCHANGED <<reaches, granted, holds, version, dead, now>>
BY DEF VolumeIsSound, Scope!world

\* A call begins.
LEMMA CallBegins ==
    ASSUME ScopeAssumption, ScopeInv,
           \/ \E n \in 0..2 : \E ancestor \in {None} \cup Scope!Ancestors(n) : Scope!Ask(n, ancestor)
           \/ Scope!Validate
    PROVE  ScopeInv'
<1>1. VolumeIsSound /\ UNCHANGED Scope!world
  BY DEF ScopeInv, Scope!Ask, Scope!Validate
<1>2. CASE \E n \in 0..2 : \E ancestor \in {None} \cup Scope!Ancestors(n) : Scope!Ask(n, ancestor)
  <2>1. PICK n \in 0..2 : \E ancestor \in {None} \cup Scope!Ancestors(n) : Scope!Ask(n, ancestor)
    BY <1>2
  <2>2. PICK ancestor \in {None} \cup Scope!Ancestors(n) : Scope!Ask(n, ancestor)  BY <2>1
  <2>3. want' = n /\ bound' = ancestor /\ at' = "validate"  BY <2>2 DEF Scope!Ask, Scope!Goto
  <2>4. ancestor # None => ancestor.depth \in Nat  BY DEF Scope!Ancestors
  <2> QED  BY <1>1, <2>3, <2>4, VolumeStays, NothingIsClaimed
<1>3. CASE Scope!Validate
  <2>1. want' = want /\ bound' = bound /\ at' \in {"open grant", "failed"}
    BY <1>3 DEF Scope!Validate, Scope!Goto, Scope!Fail
  <2>2. want \in 0..2 /\ (bound # None => bound.depth \in Nat)  BY DEF ScopeInv, OpenedFits
  <2> QED  BY <1>1, <2>1, <2>2, VolumeStays, NothingIsClaimed
<1> QED  BY <1>2, <1>3

\* A step that fails.
LEMMA CallFails ==
    ASSUME ScopeAssumption, ScopeInv, UNCHANGED Scope!world, want' = want, bound' = bound, at' = "failed"
    PROVE  ScopeInv'
<1>1. VolumeIsSound /\ want \in 0..2 /\ (bound # None => bound.depth \in Nat)  BY DEF ScopeInv, OpenedFits
<1> QED  BY <1>1, VolumeStays, NothingIsClaimed

\* validate_root and the grant's folder.
LEMMA GrantIsOpened ==
    ASSUME ScopeAssumption, ScopeInv, Scope!OpenGrant PROVE ScopeInv'
<1>1. VolumeIsSound /\ UNCHANGED Scope!world /\ want' = want /\ bound' = bound
      /\ want \in 0..2 /\ (bound # None => bound.depth \in Nat)
  BY DEF ScopeInv, Scope!OpenGrant, OpenedFits
<1>2. VolumeIsSound' /\ UNCHANGED <<reaches, granted, holds, version, dead, now>>  BY <1>1, VolumeStays
<1>3. CASE ~(Scope!Valid /\ Scope!Bound(0, Scope!Meta("grant")))
  BY <1>1, <1>3, CallFails DEF Scope!OpenGrant, Scope!Fail
<1>4. CASE Scope!Valid /\ Scope!Bound(0, Scope!Meta("grant"))
  <2>1. "grant" \in Scope!Objects /\ "grant" \in Scope!Folders /\ "grant" # "recreated leaf"
    BY ScopeNames
  <2> DEFINE m == Scope!Meta("grant")
  <2>2. m \in Described /\ m # None /\ m.inode = Scope!Inode("grant") /\ m.version = version["grant"]
        /\ version["grant"] \in Nat /\ version["grant"] <= now
    BY <1>1, <2>1, ScopeMeta
  <2>3. /\ fds' = <<"grant">> /\ opened' = <<m>>
        /\ want = 0 => expected' = m /\ observed' = <<>> /\ at' = "observe" /\ first' = "grant"
        /\ want # 0 => at' = "child"
    BY <1>4 DEF Scope!OpenGrant, Scope!Confirm, Scope!Goto
  <2> HIDE DEF m
  <2>4. opened' \in Seq(Described) /\ Len(opened') = 1 /\ Len(fds') = 1 /\ opened'[1] = m
    BY <2>2, <2>3
  <2>5. at' \in {"child", "observe"}  BY <2>3
  <2>6. OpenedFits'
    <3>1. opened'[Len(fds')].version <= now'  BY <1>2, <2>2, <2>4
    <3>2. at' = "child" => want' > 0  BY <1>1, <2>3, <2>5
    <3> QED  BY <1>1, <2>3, <2>4, <2>5, <3>1, <3>2 DEF OpenedFits, Confirming
  <2>7. CASE want # 0
    <3>1. at' = "child" /\ at' \notin Confirming' /\ at' \notin Found'
      BY <2>3, <2>7 DEF Confirming, Found
    <3> QED  BY <1>2, <2>6, <3>1 DEF ScopeInv, FirstIsThere, ObservedFits, FoundFits, WitnessFits, AnswerFits
  <2>8. CASE want = 0
    <3>1. /\ expected' = m /\ first' = "grant" /\ observed' = <<>> /\ at' = "observe"
      BY <2>3, <2>8
    <3>2. version["grant"] <= version["grant"]  BY <2>2
    <3>3. FirstIsThere'
      <4>1. expected'.version <= version'[first']  BY <1>2, <2>2, <3>1, <3>2
      <4>2. expected'.inode = Scope!Inode(first')  BY <2>2, <3>1
      <4>3. first' \in Scope!Objects /\ first' # None /\ first' # "recreated leaf" /\ expected' \in Described
        BY <2>1, <2>2, <3>1, ScopeNames
      <4>4. want' = 0 /\ ~(want' > 0)  BY <1>1, <2>8
      <4> QED  BY <3>1, <4>1, <4>2, <4>3, <4>4 DEF FirstIsThere
    <3> QED  BY <1>2, <2>6, <3>1, <3>3, ConfirmationBegins
  <2> QED  BY <2>7, <2>8
<1> QED  BY <1>3, <1>4

\* A sequence with one more at its end.
LEMMA OneMore == ASSUME NEW a, NEW b PROVE Append(<<a>>, b) = <<a, b>> /\ Len(<<a, b>>) = 2
<1>1. <<a>> \in Seq({a, b}) /\ b \in {a, b} /\ Len(<<a>>) = 1 /\ <<a>>[1] = a  OBVIOUS
<1>2. <<a, b>> \in Seq({a, b}) /\ Len(<<a, b>>) = 2 /\ <<a, b>>[1] = a /\ <<a, b>>[2] = b  OBVIOUS
<1> DEFINE s == Append(<<a>>, b)
<1>3. s \in Seq({a, b}) /\ Len(s) = 2 /\ s[1] = a /\ s[2] = b
  <2>1. s \in Seq({a, b}) /\ Len(s) = 1 + 1 /\ (\A i \in 1..1 : s[i] = <<a>>[i]) /\ s[1 + 1] = b
    BY <1>1, AppendProperties
  <2>2. 1 + 1 = 2 /\ 1 \in 1..1  OBVIOUS
  <2> QED  BY <1>1, <2>1, <2>2
<1> HIDE DEF s
<1>4. \A i \in 1..2 : i = 1 \/ i = 2  OBVIOUS
<1>5. \A i \in 1..Len(s) : s[i] = <<a, b>>[i]  BY <1>2, <1>3, <1>4
<1>6. s = <<a, b>>  BY <1>2, <1>3, <1>5, SeqEqual
<1> QED  BY <1>2, <1>6 DEF s

\* What opened directories are is known as long as they stay.
LEMMA OpenedStay ==
    ASSUME OpenedFits, at \in {"child", "open"} \cup Confirming, at' \in Confirming,
           UNCHANGED <<want, bound, fds, opened, now>>
    PROVE  OpenedFits'
BY DEF OpenedFits, Confirming

\* Nothing is found below the directory opened last.
LEMMA NothingIsFound ==
    ASSUME ScopeAssumption, ScopeInv, at \in {"child", "open"}, UNCHANGED Scope!world,
           UNCHANGED <<want, bound, fds, opened>>, Scope!Confirm(None, None), holds[Innermost] = None
    PROVE  ScopeInv'
<1>1. VolumeIsSound /\ OpenedFits /\ want > 0  BY DEF ScopeInv, OpenedFits
<1>2. VolumeIsSound' /\ UNCHANGED <<reaches, granted, holds, version, dead, now>>  BY <1>1, VolumeStays
<1>3. expected' = None /\ observed' = <<>> /\ at' = "observe" /\ first' = None
  BY DEF Scope!Confirm, Scope!Goto
<1>4. OpenedFits'  BY <1>1, <1>2, <1>3, OpenedStay DEF Confirming
<1>5. holds'[Innermost'] = None  BY <1>2 DEF Innermost
<1>6. want' # 0
  <2>1. want' = want /\ want > 0 /\ want \in 0..2  BY <1>1 DEF OpenedFits
  <2> QED  BY <2>1
<1>7. None # "recreated leaf"  BY ScopeNames
<1>8. FirstIsThere'  BY <1>3, <1>5, <1>6, <1>7 DEF FirstIsThere
<1> QED  BY <1>2, <1>3, <1>4, <1>8, ConfirmationBegins

\* fstatat of the next name.
LEMMA ChildIsLookedUp ==
    ASSUME ScopeAssumption, ScopeInv, Scope!Child PROVE ScopeInv'
<1>1. /\ VolumeIsSound /\ OpenedFits /\ at = "child" /\ want > 0 /\ want \in 0..2
      /\ UNCHANGED Scope!world /\ UNCHANGED <<want, bound, fds, opened>>
      /\ bound # None => bound.depth \in Nat
  BY DEF ScopeInv, OpenedFits, Scope!Child
<1>2. VolumeIsSound' /\ UNCHANGED <<reaches, granted, holds, version, dead, now>>  BY <1>1, VolumeStays
<1> DEFINE o == holds[Innermost]
<1>3. /\ Len(fds) \in {1, 2} /\ fds[1] = "grant" /\ (Len(fds) = 2 => want = 2)
      /\ Innermost \in Scope!Folders \cup Scope!Parents
  BY <1>1, DirectoriesAre
<1>4. CASE o = None
  <2>1. Scope!Confirm(None, None)  BY <1>4 DEF Scope!Child, Innermost
  <2> QED  BY <1>1, <1>4, <2>1, NothingIsFound
<1>5. CASE o # None /\ ~Scope!Bound(Len(fds), Scope!Meta(o))
  <2>1. Scope!Fail  BY <1>5 DEF Scope!Child, Innermost
  <2> QED  BY <1>1, <2>1, CallFails DEF Scope!Fail
<1>6. CASE o # None /\ Scope!Bound(Len(fds), Scope!Meta(o))
  <2>1. o \in Scope!Objects /\ (o = "recreated leaf" => "leaf" \in dead)
    BY <1>1, <1>3, <1>6, HeldIs
  <2> DEFINE m == Scope!Meta(o)
  <2>2. m \in Described /\ m # None /\ m.inode = Scope!Inode(o) /\ m.version = version[o]
        /\ version[o] \in Nat /\ version[o] <= now
    BY <1>1, <2>1, ScopeMeta
  <2>3. /\ Len(fds) = want => Scope!Confirm(m, o)
        /\ Len(fds) # want => read' = m /\ at' = "open"
    BY <1>6 DEF Scope!Child, Scope!Goto, Innermost
  <2>4. o = holds'[Innermost']  BY <1>1, <1>2 DEF Innermost
  <2> HIDE DEF m, o
  <2>5. CASE Len(fds) # want
    <3>1. at' = "open" /\ at' \notin Confirming' /\ at' \notin Found'
      BY <2>3, <2>5 DEF Confirming, Found
    <3>2. want = 2 /\ Len(fds) = 1
      <4>1. want > 0 /\ want \in 0..2  BY <1>1
      <4>2. (Len(fds) = 1 \/ Len(fds) = 2) /\ (Len(fds) = 2 => want = 2)  BY <1>3
      <4>3. want = 1 \/ want = 2  BY <4>1
      <4>4. 1 # 2  OBVIOUS
      <4>5. CASE Len(fds) = 1
        <5>1. want # 1  BY <2>5, <4>5
        <5> QED  BY <4>3, <4>5, <5>1
      <4>6. CASE Len(fds) = 2
        <5>1. want = 2  BY <4>2, <4>6, <4>4
        <5> QED  BY <2>5, <4>6, <5>1
      <4> QED  BY <4>2, <4>5, <4>6
    <3>3. fds = <<"grant">>
      <4>1. fds = <<"grant">> \/ \E p \in Scope!Parents : fds = <<"grant", p>>
        BY <1>1 DEF OpenedFits
      <4> QED  BY <3>2, <4>1
    <3>4. read' \in Described /\ read'.version <= now'  BY <1>2, <2>2, <2>3, <2>5
    <3>5. opened \in Seq(Described) /\ Len(opened) = Len(fds) /\ opened[Len(fds)].version <= now
      BY <1>1 DEF OpenedFits
    <3>6. OpenedFits'
      BY <1>1, <1>2, <3>1, <3>2, <3>3, <3>4, <3>5 DEF OpenedFits
    <3> QED  BY <1>2, <3>1, <3>6 DEF ScopeInv, FirstIsThere, ObservedFits, FoundFits, WitnessFits, AnswerFits
  <2>6. CASE Len(fds) = want
    <3>1. expected' = m /\ first' = o /\ observed' = <<>> /\ at' = "observe"
      BY <2>3, <2>6 DEF Scope!Confirm, Scope!Goto
    <3>2. OpenedFits'  BY <1>1, <1>2, <3>1, OpenedStay DEF Confirming
    <3>3. version[o] <= version[o]  BY <2>2
    <3>4. expected'.version <= version'[first']  BY <1>2, <2>2, <3>1, <3>3
    <3>5. expected'.inode = Scope!Inode(first')  BY <2>2, <3>1
    <3>6. want' > 0 /\ want' # 0 /\ want' = Len(fds')  BY <1>1, <2>6
    <3>7. first' \in Scope!Objects /\ first' # None /\ expected' \in Described
          /\ (first' = "recreated leaf" => "leaf" \in dead')
      BY <1>2, <2>1, <2>2, <3>1, ScopeNames
    <3>8. FirstIsThere'  BY <2>4, <3>1, <3>4, <3>5, <3>6, <3>7 DEF FirstIsThere
    <3> QED  BY <1>2, <3>1, <3>2, <3>8, ConfirmationBegins
  <2> QED  BY <2>5, <2>6
<1> QED  BY <1>4, <1>5, <1>6

\* openat, and fstat of what it opened.
LEMMA ChildIsOpened ==
    ASSUME ScopeAssumption, ScopeInv, Scope!Open PROVE ScopeInv'
<1>1. /\ VolumeIsSound /\ OpenedFits /\ at = "open" /\ want = 2 /\ fds = <<"grant">>
      /\ UNCHANGED Scope!world /\ UNCHANGED <<want, bound>>
      /\ bound # None => bound.depth \in Nat
      /\ read \in Described /\ read.version <= now
      /\ opened \in Seq(Described) /\ Len(opened) = 1
  BY DEF ScopeInv, OpenedFits, Scope!Open
<1>2. VolumeIsSound' /\ UNCHANGED <<reaches, granted, holds, version, dead, now>>  BY <1>1, VolumeStays
<1> DEFINE o == holds["grant"]
<1>3. Innermost = "grant" /\ "grant" \in Scope!Folders  BY <1>1, ScopeNames DEF Innermost
<1>4. fds[Len(fds)] = "grant"  BY <1>1
<1>5. CASE o = None
  <2>1. Scope!Confirm(None, None) /\ UNCHANGED <<fds, opened>>  BY <1>4, <1>5 DEF Scope!Open
  <2> QED  BY <1>1, <1>3, <1>5, <2>1, NothingIsFound
<1>6. CASE o # None /\ Scope!Meta(o) # read
  <2>1. Scope!Fail  BY <1>4, <1>6 DEF Scope!Open
  <2> QED  BY <1>1, <2>1, CallFails DEF Scope!Fail
<1>7. CASE o # None /\ Scope!Meta(o) = read
  <2>1. o \in Scope!Parents  BY <1>1, <1>3, <1>7, HeldIs
  <2>2. fds' = Append(fds, o) /\ opened' = Append(opened, read) /\ at' = "child"
    BY <1>4, <1>7 DEF Scope!Open, Scope!Goto
  <2> HIDE DEF o
  <2>3. fds' = <<"grant", o>> /\ Len(fds') = 2
    <3>1. fds = <<"grant">>  BY <1>1
    <3> QED  BY <2>2, <3>1, OneMore
  <2>4. opened' \in Seq(Described) /\ Len(opened') = 2 /\ opened'[2] = read
    <3>1. opened \in Seq(Described) /\ Len(opened) = 1 /\ read \in Described  BY <1>1
    <3>2. /\ opened' \in Seq(Described) /\ Len(opened') = Len(opened) + 1
          /\ opened'[Len(opened) + 1] = read
      BY <2>2, <3>1, AppendProperties
    <3>3. 1 + 1 = 2  OBVIOUS
    <3> QED  BY <3>1, <3>2, <3>3
  <2>5. at' = "child" /\ at' \notin Confirming' /\ at' \notin Found'  BY <2>2 DEF Confirming, Found
  <2>6. OpenedFits'
    <3>1. opened'[Len(fds')].version <= now'  BY <1>1, <1>2, <2>3, <2>4
    <3> QED  BY <1>1, <2>1, <2>3, <2>4, <2>5, <3>1 DEF OpenedFits
  <2> QED  BY <1>2, <2>5, <2>6 DEF ScopeInv, FirstIsThere, ObservedFits, FoundFits, WitnessFits, AnswerFits
<1> QED  BY <1>5, <1>6, <1>7

\* What was first seen is known as long as it stays.
LEMMA FirstStays ==
    ASSUME FirstIsThere, at \in Confirming, at' \in Confirming,
           UNCHANGED <<want, fds, opened, expected, first, holds, version, dead>>
    PROVE  FirstIsThere'
<1>1. Innermost' = Innermost  BY DEF Innermost
<1>2. Untouched(Innermost, opened[Len(fds)].version)' <=> Untouched(Innermost, opened[Len(fds)].version)
  BY <1>1 DEF Untouched
<1> QED  BY <1>1, <1>2 DEF FirstIsThere

\* fstat of each pinned directory.
LEMMA DirectoryIsObserved ==
    ASSUME ScopeAssumption, ScopeInv, Scope!Observe PROVE ScopeInv'
<1>1. /\ VolumeIsSound /\ OpenedFits /\ FirstIsThere /\ ObservedFits /\ at = "observe" /\ at \in Confirming
      /\ UNCHANGED Scope!world
      /\ UNCHANGED <<want, bound, fds, opened, expected, attempt, read, whose, first, witness>>
  BY DEF ScopeInv, Confirming, Scope!Observe, Scope!history
<1>2. VolumeIsSound' /\ UNCHANGED <<reaches, granted, holds, version, dead, now>>  BY <1>1, VolumeStays
<1> DEFINE k == Len(observed) + 1
           m == Scope!Meta(fds[k])
<1>3. observed \in Seq(Described) /\ Len(observed) < Len(fds)  BY <1>1 DEF ObservedFits
<1>4. Len(fds) \in {1, 2} /\ \A n \in 1..Len(fds) : fds[n] \in Scope!Objects  BY <1>1, DirectoriesAre
<1>5. Len(observed) \in Nat  BY <1>3
<1>6. k \in 1..Len(fds) /\ k \in Nat  BY <1>3, <1>4, <1>5
<1>7. m \in Described /\ m.inode = Scope!Inode(fds[k]) /\ m.version <= now
  BY <1>1, <1>4, <1>6, ScopeMeta
<1>8. CASE ~Scope!Bound(k - 1, m)
  <2>1. Scope!Fail  BY <1>8 DEF Scope!Observe
  <2> QED  BY <1>1, <2>1, CallFails DEF Scope!Fail
<1>9. CASE Scope!Bound(k - 1, m)
  <2>1. /\ observed' = Append(observed, m)
        /\ at' = IF k < Len(fds) THEN "observe" ELSE IF k = 1 THEN "current" ELSE "links"
    BY <1>9 DEF Scope!Observe, Scope!Goto
  <2>2. bound # None /\ bound.depth = k - 1 => m = bound.meta  BY <1>9 DEF Scope!Bound
  <2> HIDE DEF m
  <2>3. observed' \in Seq(Described) /\ Len(observed') = k /\ observed'[k] = m
        /\ \A n \in 1..Len(observed) : observed'[n] = observed[n]
    BY <1>3, <1>7, <2>1
  <2>4. \A n \in 1..Len(observed') : n = k \/ n \in 1..Len(observed)
    BY <1>5, <2>3
  <2>5. at' \in Confirming /\ at' \notin Found /\ at' # "recheck" /\ at' # "done"
    BY <2>1 DEF Confirming, Found
  <2>6. \A n \in 1..Len(observed) :
              /\ observed[n].inode = Scope!Inode(fds[n]) /\ observed[n].version <= now
              /\ bound # None /\ bound.depth = n - 1 => observed[n] = bound.meta
    BY <1>1 DEF ObservedFits
  <2>7. ASSUME NEW n \in 1..Len(observed')
        PROVE  /\ observed'[n].inode = Scope!Inode(fds'[n]) /\ observed'[n].version <= now'
               /\ bound' # None /\ bound'.depth = n - 1 => observed'[n] = bound'.meta
    <3>1. CASE n = k
      <4>1. observed'[n] = m /\ fds'[n] = fds[k] /\ now' = now /\ bound' = bound
        BY <1>1, <1>2, <2>3, <3>1
      <4> HIDE DEF k
      <4> QED  BY <1>7, <2>2, <3>1, <4>1
    <3>2. CASE n \in 1..Len(observed)  BY <1>1, <1>2, <2>3, <2>6, <3>2
    <3> QED  BY <2>4, <3>1, <3>2
  <2>8. /\ IF at' = "observe" THEN Len(observed') < Len(fds') ELSE Len(observed') = Len(fds')
        /\ at' = "links" => Len(fds') = 2
        /\ at' = "current" => Len(fds') # 2
    <3>1. k < Len(fds) \/ k = Len(fds)  BY <1>4, <1>6
    <3>2. fds' = fds  BY <1>1
    <3>3. CASE k < Len(fds)
      <4>1. at' = "observe"  BY <2>1, <3>3
      <4> QED  BY <2>3, <3>2, <3>3, <4>1
    <3>4. CASE k = Len(fds)
      <4>1. ~(k < Len(fds))  BY <1>4, <3>4
      <4>2. at' = IF k = 1 THEN "current" ELSE "links"  BY <2>1, <4>1
      <4>3. k = 1 \/ k = 2  BY <1>4, <3>4
      <4>4. at' # "observe" /\ (at' = "links" => k # 1) /\ (at' = "current" => k = 1)  BY <4>2
      <4> HIDE DEF k
      <4>5. Len(observed') = Len(fds')  BY <2>3, <3>2, <3>4
      <4>6. Len(fds') = k  BY <3>2, <3>4
      <4> QED  BY <4>3, <4>4, <4>5, <4>6
    <3> QED  BY <3>1, <3>3, <3>4
  <2>9. ObservedFits'
    <3>1. at' \in Found \cup {"current"} => at' = "current"  BY <2>5
    <3> QED  BY <2>3, <2>7, <2>8, <3>1 DEF ObservedFits, Found
  <2>10. OpenedFits'  BY <1>1, <1>2, <2>5, OpenedStay
  <2>11. FirstIsThere'  BY <1>1, <1>2, <2>5, FirstStays
  <2> QED  BY <1>2, <2>5, <2>9, <2>10, <2>11 DEF ScopeInv, FoundFits, WitnessFits, AnswerFits, Found
<1> QED  BY <1>8, <1>9

\* Each directory still holds the next.
LEMMA LinksAreCompared ==
    ASSUME ScopeAssumption, ScopeInv, Scope!Links PROVE ScopeInv'
<1>1. /\ VolumeIsSound /\ OpenedFits /\ FirstIsThere /\ ObservedFits /\ at = "links" /\ at \in Confirming
      /\ UNCHANGED Scope!world
      /\ UNCHANGED <<want, bound, fds, opened, expected, observed, attempt, read, whose, first, witness>>
  BY DEF ScopeInv, Confirming, Scope!Links, Scope!history
<1>2. VolumeIsSound' /\ UNCHANGED <<reaches, granted, holds, version, dead, now>>  BY <1>1, VolumeStays
<1>3. Len(fds) = 2 /\ fds[1] = "grant" /\ fds[2] \in Scope!Parents
  BY <1>1, DirectoriesAre DEF ObservedFits
<1> DEFINE o == holds["grant"]
<1>4. CASE ~(o # None /\ Scope!Meta(o) = observed[2])
  <2>1. Scope!Fail  BY <1>3, <1>4 DEF Scope!Links
  <2> QED  BY <1>1, <2>1, CallFails DEF Scope!Fail
<1>5. CASE o # None /\ Scope!Meta(o) = observed[2]
  <2>1. at' = "current"  BY <1>3, <1>5 DEF Scope!Links, Scope!Goto
  <2>2. "grant" \in Scope!Folders  BY ScopeNames
  <2>3. o \in Scope!Parents /\ o \in Scope!Objects  BY <1>1, <1>5, <2>2, HeldIs
  <2>4. Scope!Inode(o) = o /\ Scope!Inode(fds[2]) = fds[2]  BY <1>3, <2>3, ScopeNames
  <2>5. Len(observed) = Len(fds)  BY <1>1 DEF ObservedFits
  <2>6. observed[2].inode = Scope!Inode(fds[2])
    <3>1. 2 \in 1..Len(observed)  BY <1>3, <2>5
    <3> QED  BY <1>1, <3>1 DEF ObservedFits
  <2>7. Scope!Meta(o).inode = Scope!Inode(o)  BY <1>1, <2>3, ScopeMeta
  <2>8. holds'["grant"] = fds'[2]  BY <1>1, <1>2, <1>5, <2>4, <2>6, <2>7
  <2>9. at' \in Confirming /\ at' \notin Found /\ at' # "links" /\ at' # "observe"
    BY <2>1 DEF Confirming, Found
  <2>10. ObservedFits'
    <3>1. observed' = observed /\ fds' = fds /\ bound' = bound /\ now' = now  BY <1>1, <1>2
    <3>2. observed' \in Seq(Described) /\ Len(observed') = Len(fds')  BY <1>1, <2>5, <3>1 DEF ObservedFits
    <3>3. \A k \in 1..Len(observed') :
              /\ observed'[k].inode = Scope!Inode(fds'[k]) /\ observed'[k].version <= now'
              /\ bound' # None /\ bound'.depth = k - 1 => observed'[k] = bound'.meta
      BY <1>1, <3>1 DEF ObservedFits
    <3> QED  BY <2>8, <2>9, <3>2, <3>3 DEF ObservedFits, Found
  <2>11. OpenedFits'  BY <1>1, <1>2, <2>9, OpenedStay
  <2>12. FirstIsThere'  BY <1>1, <1>2, <2>9, FirstStays
  <2> QED  BY <1>2, <2>1, <2>9, <2>10, <2>11, <2>12 DEF ScopeInv, FoundFits, WitnessFits, AnswerFits, Found
<1> QED  BY <1>4, <1>5

\* Two objects with one number, of which one is there and the other was seen before.
LEMMA NumbersTellApart ==
    ASSUME ScopeAssumption, VolumeIsSound, FirstIsThere, at \in Confirming, expected # None,
           NEW d \in Scope!Folders \cup Scope!Parents, holds[d] # None, Scope!Meta(holds[d]) = expected
    PROVE  holds[d] = first
<1> DEFINE o == holds[d]
<1>1. o \in Scope!Objects /\ (o = "leaf" => "leaf" \notin dead)
      /\ (o = "recreated leaf" => version["leaf"] < version["recreated leaf"])
  BY HeldIs
<1>2. /\ first \in Scope!Objects /\ (first = "recreated leaf" => "leaf" \in dead)
      /\ expected.inode = Scope!Inode(first) /\ expected.version <= version[first]
  BY DEF FirstIsThere
<1>3. Scope!Meta(o).inode = Scope!Inode(o) /\ Scope!Meta(o).version = version[o]
  BY <1>1, ScopeMeta
<1> HIDE DEF o
<1>4. Scope!Meta(o) = expected  BY DEF o
<1>5. Scope!Inode(o) = Scope!Inode(first) /\ version[o] <= version[first]
  BY <1>2, <1>3, <1>4
<1>6. o = first \/ {o, first} = {"leaf", "recreated leaf"}  BY <1>1, <1>2, <1>5, ScopeNames
<1>7. CASE o = "leaf" /\ first = "recreated leaf"  BY <1>1, <1>2, <1>7
<1>8. CASE o = "recreated leaf" /\ first = "leaf"
  <2>1. version["leaf"] < version["recreated leaf"] /\ version["recreated leaf"] <= version["leaf"]
    BY <1>1, <1>5, <1>8
  <2>2. version["leaf"] \in Nat /\ version["recreated leaf"] \in Nat
    <3>1. "leaf" \in Scope!Objects /\ "recreated leaf" \in Scope!Objects  BY ScopeNames
    <3> QED  BY <3>1 DEF VolumeIsSound
  <2>3. \A a, b \in Nat : ~(a < b /\ b <= a)  OBVIOUS
  <2> QED  BY <2>1, <2>2, <2>3
<1>9. o = first \/ (o = "leaf" /\ first = "recreated leaf") \/ (o = "recreated leaf" /\ first = "leaf")
  BY <1>6
<1> QED  BY <1>7, <1>8, <1>9 DEF o

\* The leaf once more.
LEMMA LeafIsFound ==
    ASSUME ScopeAssumption, ScopeInv, Scope!Current PROVE ScopeInv'
<1>1. /\ VolumeIsSound /\ OpenedFits /\ FirstIsThere /\ ObservedFits /\ at = "current" /\ at \in Confirming
      /\ UNCHANGED Scope!world
      /\ UNCHANGED <<want, bound, fds, opened, attempt, first, witness>>
      /\ want \in 0..2
  BY DEF ScopeInv, Confirming, Scope!Current, OpenedFits
<1>2. VolumeIsSound' /\ UNCHANGED <<reaches, granted, holds, version, dead, now>>  BY <1>1, VolumeStays
<1> DEFINE o == IF want = 0 THEN "grant" ELSE holds[Innermost]
           m == IF o = None THEN None ELSE Scope!Meta(o)
<1>3. read' = m /\ whose' = o
  BY DEF Scope!Current, Innermost
<1>4. Innermost \in Scope!Folders \cup Scope!Parents  BY <1>1, DirectoriesAre
<1>5. (o # None => o \in Scope!Objects) /\ (o = "recreated leaf" => "leaf" \in dead)
  <2>1. "grant" \in Scope!Objects /\ "grant" # "recreated leaf"  BY ScopeNames
  <2> QED  BY <1>1, <1>4, <2>1, HeldIs
<1>6. o # None => m \in Described /\ m # None /\ m.inode = Scope!Inode(o) /\ m.version = version[o]
                  /\ version[o] \in Nat /\ version[o] <= now
  BY <1>1, <1>5, ScopeMeta
<1>7. CASE expected # None /\ m = None
  <2>1. expected' = None /\ observed' = <<>> /\ at' = "observe"
    BY <1>7 DEF Scope!Current, Scope!Goto, Innermost
  <2>2. OpenedFits'  BY <1>1, <1>2, <2>1, OpenedStay DEF Confirming
  <2>3. FirstIsThere'
    <3>1. Innermost' = Innermost /\ at' \in Confirming  BY <1>1, <2>1 DEF Innermost, Confirming
    <3>2. Untouched(Innermost, opened[Len(fds)].version)' <=> Untouched(Innermost, opened[Len(fds)].version)
      BY <1>1, <1>2, <3>1 DEF Untouched
    <3> QED  BY <1>1, <1>2, <2>1, <3>1, <3>2 DEF FirstIsThere
  <2> QED  BY <1>2, <2>1, <2>2, <2>3, ConfirmationBegins
<1>8. CASE ~(expected # None /\ m = None) /\ (m = expected \/ Scope!ContentsChanged(expected, m))
  <2>1. at' = "revalidate" /\ UNCHANGED <<expected, observed>>
    BY <1>8 DEF Scope!Current, Scope!Goto, Innermost
  <2>2. at' \in Confirming /\ at' \in Found /\ at' # "recheck" /\ at' # "done" /\ at' # "observe" /\ at' # "links"
    BY <2>1 DEF Confirming, Found
  <2>3. OpenedFits'  BY <1>1, <1>2, <2>2, OpenedStay
  <2>4. FirstIsThere'  BY <1>1, <1>2, <2>1, <2>2, FirstStays
  <2>5. ObservedFits'
    <3>1. Untouched("grant", observed[1].version)' <=> Untouched("grant", observed[1].version)
      BY <1>2, <2>1 DEF Untouched
    <3> QED  BY <1>1, <1>2, <2>1, <2>2, <3>1 DEF ObservedFits
  <2>6. m = expected /\ m # None => o = first
    <3> SUFFICES ASSUME m = expected, m # None PROVE o = first
      OBVIOUS
    <3>1. CASE want = 0  BY <1>1, <3>1 DEF FirstIsThere
    <3>2. CASE want # 0
      <4>1. o = holds[Innermost] /\ o # None /\ m = Scope!Meta(o)  BY <3>2
      <4> HIDE DEF m
      <4>2. expected # None /\ Scope!Meta(holds[Innermost]) = expected /\ holds[Innermost] # None  BY <4>1
      <4> QED  BY <1>1, <1>4, <4>1, <4>2, NumbersTellApart
    <3> QED  BY <3>1, <3>2
  <2>7. m # expected =>
           /\ m # None /\ expected # None
           /\ want = 0 \/ observed[Len(fds)] = opened[Len(fds)]
    <3> HIDE DEF m
    <3> QED  BY <1>8 DEF Scope!ContentsChanged
  <2>8. want > 0 => holds[Innermost] = o
    <3>1. want > 0 => want # 0  BY <1>1
    <3> QED  BY <3>1
  <2>9. want = 0 => o = "grant"  OBVIOUS
  <2>10. m = None <=> o = None  BY <1>6
  <2> HIDE DEF m, o
  <2>11. FoundFits'
    <3>1. Innermost' = Innermost /\ version' = version /\ holds' = holds /\ dead' = dead
          /\ UNCHANGED <<want, fds, opened, observed, expected, first>>
      BY <1>1, <1>2, <2>1 DEF Innermost
    <3>2. whose' \in Scope!Objects \cup {None} /\ (whose' = "recreated leaf" => "leaf" \in dead')
      BY <1>3, <1>5, <3>1
    <3>3. (want' = 0 => whose' = "grant") /\ (want' > 0 => holds'[Innermost'] = whose')
      BY <1>3, <2>8, <2>9, <3>1
    <3>4. read' \in Described \cup {None} /\ (read' = None <=> whose' = None)
      BY <1>3, <1>6, <2>10
    <3>5. read' # None => read'.inode = Scope!Inode(whose') /\ read'.version <= version'[whose']
      <4> SUFFICES ASSUME read' # None PROVE read'.inode = Scope!Inode(whose') /\ read'.version <= version'[whose']
        OBVIOUS
      <4>1. o # None  BY <1>3, <2>10
      <4>2. m.inode = Scope!Inode(o) /\ m.version = version[o] /\ version[o] \in Nat  BY <1>6, <4>1
      <4>3. version[o] <= version[o]  BY <4>2
      <4> QED  BY <1>3, <3>1, <4>2, <4>3
    <3>6. (read' = expected' /\ read' # None => whose' = first')
      BY <1>3, <2>6, <3>1
    <3>7. read' # expected' =>
              /\ read' # None /\ expected' # None
              /\ want' = 0 \/ observed'[Len(fds')] = opened'[Len(fds')]
      BY <1>3, <2>7, <3>1
    <3> QED  BY <3>2, <3>3, <3>4, <3>5, <3>6, <3>7 DEF FoundFits
  <2> QED  BY <1>2, <2>2, <2>3, <2>4, <2>5, <2>11 DEF ScopeInv, WitnessFits, AnswerFits
<1>9. CASE ~(expected # None /\ m = None) /\ ~(m = expected \/ Scope!ContentsChanged(expected, m))
  <2>1. Scope!Fail  BY <1>9 DEF Scope!Current, Innermost
  <2> QED  BY <1>1, <2>1, CallFails DEF Scope!Fail
<1> QED  BY <1>7, <1>8, <1>9

\* What is at the path, if nobody touched the directories and the grant is where it was.
LEMMA PathIsAsObserved ==
    ASSUME ScopeAssumption, VolumeIsSound, OpenedFits, FirstIsThere, ObservedFits, FoundFits,
           at = "revalidate", AllUntouched, Scope!Valid
    PROVE  /\ Scope!Lookup[want] = whose
           /\ \A k \in 1..Len(fds) : Scope!Lookup[k - 1] = fds[k] /\ Scope!Meta(fds[k]) = observed[k]
<1>1. at \in Confirming /\ at \in Found  BY DEF Confirming, Found
<1>2. /\ Len(fds) \in {1, 2} /\ fds[1] = "grant" /\ (Len(fds) = 2 => want = 2 /\ fds[2] \in Scope!Parents)
      /\ \A k \in 1..Len(fds) : fds[k] \in Scope!Folders \cup Scope!Parents /\ fds[k] \in Scope!Objects
      /\ Len(fds) = 1 => Innermost = "grant"
      /\ Len(fds) = 2 => Innermost = fds[2]
  BY <1>1, DirectoriesAre
<1>3. observed \in Seq(Described) /\ Len(observed) = Len(fds)  BY <1>1 DEF ObservedFits, Found
<1>4. want \in 0..2 /\ "grant" # None /\ \A p \in Scope!Parents : p # None
  <2>1. want \in 0..2  BY DEF OpenedFits
  <2>2. \A p \in Scope!Parents \cup Scope!Folders : p \in Scope!Objects  BY ScopeNames
  <2> QED  BY <2>1, <2>2, ScopeNames
<1>5. Scope!Lookup[0] = "grant"  BY DEF Scope!Valid
<1>6. reaches /\ granted = "grant"
  <2>1. Scope!Lookup[0] = IF reaches THEN granted ELSE None  BY DEF Scope!Lookup
  <2> QED  BY <1>4, <1>5, <2>1
<1>7. Scope!Lookup[1] = holds["grant"]
  <2>1. Scope!Lookup[1] = LET g == IF reaches THEN granted ELSE None IN IF g = None THEN None ELSE holds[g]
    BY DEF Scope!Lookup
  <2> QED  BY <1>4, <1>6, <2>1
<1>8. Scope!Lookup[2] = IF holds["grant"] = None THEN None ELSE holds[holds["grant"]]
  <2>1. Scope!Lookup[2] = LET g == IF reaches THEN granted ELSE None
                              p == IF g = None THEN None ELSE holds[g]
                          IN  IF p = None THEN None ELSE holds[p]
    BY DEF Scope!Lookup
  <2> QED  BY <1>4, <1>6, <2>1
<1>9. \A k \in 1..Len(fds) : Untouched(fds[k], observed[k].version)  BY DEF AllUntouched
<1>10. 1 \in 1..Len(fds) /\ (Len(fds) = 2 => 2 \in 1..Len(fds))
  <2>1. CASE Len(fds) = 1  BY <2>1
  <2>2. CASE Len(fds) = 2  BY <2>2
  <2> QED  BY <1>2, <2>1, <2>2
<1>11. Len(fds) = 2 => holds["grant"] = fds[2]
  <2>1. Untouched("grant", observed[1].version)  BY <1>2, <1>9, <1>10
  <2> QED  BY <1>1, <2>1 DEF ObservedFits
<1>12. Untouched(Innermost, observed[Len(fds)].version)
  <2>1. Len(fds) \in 1..Len(fds)  BY <1>2, <1>10
  <2> QED  BY <1>9, <2>1 DEF Innermost
<1>13. want > 0 => holds[Innermost] = whose  BY <1>1, <1>12 DEF FoundFits
<1>14. Scope!Lookup[want] = whose
  <2>1. CASE want = 0
    <3>1. whose = "grant"  BY <1>1, <2>1 DEF FoundFits
    <3> QED  BY <1>5, <2>1, <3>1
  <2>2. CASE want = 1
    <3>1. Len(fds) = 1  BY <1>2, <2>2
    <3>2. Innermost = "grant" /\ want > 0  BY <1>2, <2>2, <3>1
    <3> QED  BY <1>7, <1>13, <2>2, <3>2
  <2>3. CASE want = 2 /\ Len(fds) = 2
    <3>1. Innermost = fds[2] /\ want > 0 /\ fds[2] # None  BY <1>2, <1>4, <2>3
    <3> QED  BY <1>8, <1>11, <1>13, <2>3, <3>1
  <2>4. CASE want = 2 /\ Len(fds) = 1
    <3>1. Innermost = "grant" /\ want > 0  BY <1>2, <2>4
    <3>2. expected = None
      <4>1. want \notin {0, Len(fds)}  BY <2>4
      <4> QED  BY <1>1, <4>1 DEF FirstIsThere
    <3>3. read = None  BY <1>1, <3>2 DEF FoundFits
    <3>4. whose = None  BY <1>1, <3>3 DEF FoundFits
    <3>5. holds["grant"] = None  BY <1>13, <3>1, <3>4
    <3> QED  BY <1>8, <2>4, <3>4, <3>5
  <2> QED  BY <1>2, <1>4, <2>1, <2>2, <2>3, <2>4
<1>15. ASSUME NEW k \in 1..Len(fds)
       PROVE  Scope!Lookup[k - 1] = fds[k] /\ Scope!Meta(fds[k]) = observed[k]
  <2>1. fds[k] \in Scope!Objects  BY <1>2
  <2>2. Scope!Meta(fds[k]) = observed[k]
    <3>1. observed[k].inode = Scope!Inode(fds[k]) /\ observed[k] \in Described
      BY <1>1, <1>3 DEF ObservedFits
    <3>2. observed[k].version = version[fds[k]]  BY <1>9 DEF Untouched
    <3>3. observed[k] = [inode |-> observed[k].inode, version |-> observed[k].version]
      BY <3>1 DEF Described
    <3> QED  BY <3>1, <3>2, <3>3 DEF Scope!Meta
  <2>3. k = 1 \/ (k = 2 /\ Len(fds) = 2)
    <3>1. CASE Len(fds) = 1  BY <3>1
    <3>2. CASE Len(fds) = 2  BY <3>2
    <3> QED  BY <1>2, <3>1, <3>2
  <2>4. CASE k = 1
    <3>1. k - 1 = 0  BY <2>4
    <3> QED  BY <1>2, <1>5, <2>2, <2>4, <3>1
  <2>5. CASE k = 2 /\ Len(fds) = 2
    <3>1. k - 1 = 1  BY <2>5
    <3> QED  BY <1>7, <1>11, <2>2, <2>5, <3>1
  <2> QED  BY <2>3, <2>4, <2>5
<1> QED  BY <1>14, <1>15

\* validate_root once more, and what is at the path at that moment.
LEMMA PathIsValidated ==
    ASSUME ScopeAssumption, ScopeInv, Scope!Revalidate PROVE ScopeInv'
<1>1. /\ VolumeIsSound /\ OpenedFits /\ FirstIsThere /\ ObservedFits /\ FoundFits
      /\ at = "revalidate" /\ at \in Confirming /\ at \in Found
      /\ UNCHANGED Scope!world
      /\ UNCHANGED <<want, bound, fds, opened, expected, observed, attempt, read, whose, first>>
  BY DEF ScopeInv, Confirming, Found, Scope!Revalidate
<1>2. VolumeIsSound' /\ UNCHANGED <<reaches, granted, holds, version, dead, now>>  BY <1>1, VolumeStays
<1>3. CASE ~Scope!Valid
  <2>1. Scope!Fail  BY <1>3 DEF Scope!Revalidate
  <2> QED  BY <1>1, <2>1, CallFails DEF Scope!Fail
<1>4. CASE Scope!Valid
  <2>1. at' = "recheck"  BY <1>4 DEF Scope!Revalidate, Scope!Goto
  <2>2. witness' = [leaf |-> Scope!Lookup[want],
                    ancestor |-> IF bound = None \/ Scope!Lookup[bound.depth] = None THEN None
                                 ELSE Scope!Meta(Scope!Lookup[bound.depth])]
    BY DEF Scope!Revalidate
  <2>3. at' \in Confirming /\ at' \in Found /\ at' # "done" /\ at' # "observe" /\ at' # "links"
    BY <2>1 DEF Confirming, Found
  <2>4. OpenedFits'  BY <1>1, <1>2, <2>3, OpenedStay
  <2>5. FirstIsThere'  BY <1>1, <1>2, <2>3, FirstStays
  <2>6. ObservedFits'
    <3>1. Untouched("grant", observed[1].version)' <=> Untouched("grant", observed[1].version)
      BY <1>1, <1>2 DEF Untouched
    <3> QED  BY <1>1, <1>2, <2>1, <2>3, <3>1 DEF ObservedFits
  <2>7. FoundFits'
    <3>1. Innermost' = Innermost  BY <1>1 DEF Innermost
    <3>2. Untouched(Innermost, observed[Len(fds)].version)' <=> Untouched(Innermost, observed[Len(fds)].version)
      BY <1>1, <1>2, <3>1 DEF Untouched
    <3> QED  BY <1>1, <1>2, <3>1, <3>2 DEF FoundFits
  <2>8. WitnessFits'
    <3> SUFFICES ASSUME AllUntouched' PROVE WitnessFits'
      BY DEF WitnessFits
    <3>1. AllUntouched  BY <1>1, <1>2 DEF AllUntouched, Untouched
    <3>2. /\ Scope!Lookup[want] = whose
          /\ \A k \in 1..Len(fds) : Scope!Lookup[k - 1] = fds[k] /\ Scope!Meta(fds[k]) = observed[k]
      BY <1>1, <1>4, <3>1, PathIsAsObserved
    <3>3. ASSUME bound # None, bound.depth < Len(fds) PROVE witness'.ancestor = bound.meta
      <4> DEFINE k == bound.depth + 1
      <4>1. bound.depth \in Nat /\ Len(fds) \in {1, 2}  BY <1>1, <3>3, DirectoriesAre DEF OpenedFits
      <4>2. k \in 1..Len(fds) /\ k - 1 = bound.depth  BY <3>3, <4>1
      <4>3. fds[k] \in Scope!Objects /\ fds[k] # None  BY <1>1, <4>2, DirectoriesAre, ScopeNames
      <4>4. observed[k] = bound.meta
        <5>1. k \in 1..Len(observed)  BY <1>1, <4>2 DEF ObservedFits
        <5> QED  BY <1>1, <3>3, <4>2, <5>1 DEF ObservedFits
      <4>5. Scope!Lookup[bound.depth] = fds[k] /\ Scope!Meta(fds[k]) = observed[k]  BY <3>2, <4>2
      <4> HIDE DEF k
      <4> QED  BY <2>2, <3>3, <4>3, <4>4, <4>5
    <3>4. witness'.leaf = whose  BY <2>2, <3>2
    <3> QED  BY <1>1, <3>3, <3>4 DEF WitnessFits
  <2> QED  BY <1>2, <2>3, <2>4, <2>5, <2>6, <2>7, <2>8 DEF ScopeInv, AnswerFits
<1> QED  BY <1>3, <1>4

\* The pinned directories are as they were observed: the answer, or another attempt.
LEMMA PathIsConfirmed ==
    ASSUME ScopeAssumption, ScopeInv, Scope!Recheck PROVE ScopeInv'
<1>1. /\ VolumeIsSound /\ OpenedFits /\ FirstIsThere /\ ObservedFits /\ FoundFits /\ WitnessFits
      /\ at = "recheck" /\ at \in Confirming /\ at \in Found
      /\ UNCHANGED Scope!world
      /\ UNCHANGED <<want, bound, fds, opened, read, whose, first, witness>>
      /\ want \in 0..2
  BY DEF ScopeInv, Confirming, Found, Scope!Recheck, Scope!history, OpenedFits
<1>2. VolumeIsSound' /\ UNCHANGED <<reaches, granted, holds, version, dead, now>>  BY <1>1, VolumeStays
<1> DEFINE Moved == \E k \in 1..Len(fds) : Scope!Meta(fds[k]) # observed[k]
<1>3. ASSUME Scope!Fail PROVE ScopeInv'
  BY <1>1, <1>3, CallFails DEF Scope!Fail
<1>4. CASE Moved
  BY <1>3, <1>4 DEF Scope!Recheck
<1>5. ASSUME ~Moved PROVE AllUntouched
  <2>1. \A k \in 1..Len(fds) : fds[k] \in Scope!Objects /\ Scope!Meta(fds[k]) = observed[k]
    BY <1>1, <1>5, DirectoriesAre
  <2>2. \A k \in 1..Len(fds) : version[fds[k]] = observed[k].version
    BY <1>1, <2>1, ScopeMeta
  <2> QED  BY <2>2 DEF AllUntouched, Untouched
<1>6. CASE ~Moved /\ read = expected
  <2>1. at' = "done" /\ answer' = expected  BY <1>6 DEF Scope!Recheck, Scope!Goto
  <2>2. /\ witness.leaf = whose
        /\ bound # None /\ bound.depth < Len(fds) => witness.ancestor = bound.meta
    BY <1>1, <1>5, <1>6 DEF WitnessFits
  <2>3. (read = None <=> whose = None) /\ (read # None => whose = first)
    BY <1>1, <1>6 DEF FoundFits
  <2>4. AnswerFits'
    <3>1. answer' = read  BY <1>6, <2>1
    <3> QED  BY <1>1, <2>2, <2>3, <3>1 DEF AnswerFits
  <2>5. at' \notin {"child", "open"} \cup Confirming /\ at' \notin Found /\ at' # "recheck" /\ at' # "open"
        /\ at' # "child"
    BY <2>1 DEF Confirming, Found
  <2>6. want' \in 0..2 /\ (bound' # None => bound'.depth \in Nat)  BY <1>1 DEF OpenedFits
  <2> QED  BY <1>2, <2>4, <2>5, <2>6 DEF ScopeInv, OpenedFits, FirstIsThere, ObservedFits, FoundFits, WitnessFits,
             Confirming, Found
<1>7. CASE ~Moved /\ read # expected /\ attempt + 1 < Attempts
  <2>1. expected' = read /\ observed' = <<>> /\ at' = "observe"
    BY <1>7 DEF Scope!Recheck, Scope!Goto
  <2>2. OpenedFits'  BY <1>1, <1>2, <2>1, OpenedStay DEF Confirming
  <2>3. /\ read # None /\ expected # None /\ read \in Described
        /\ want = 0 \/ observed[Len(fds)] = opened[Len(fds)]
        /\ read.inode = Scope!Inode(whose) /\ read.version <= version[whose]
    BY <1>1, <1>7 DEF FoundFits
  <2>4. first # None /\ want \in {0, Len(fds)}  BY <1>1, <2>3 DEF FirstIsThere
  <2>5. whose = first
    <3>1. CASE want = 0  BY <1>1, <3>1 DEF FoundFits, FirstIsThere
    <3>2. CASE want # 0
      <4>1. want > 0  BY <1>1, <3>2
      <4>2. observed[Len(fds)] = opened[Len(fds)]  BY <2>3, <3>2
      <4>3. Untouched(Innermost, observed[Len(fds)].version)
        <5>1. Len(fds) \in {1, 2}  BY <1>1, DirectoriesAre
        <5>2. Len(fds) \in 1..Len(fds)  BY <5>1
        <5> QED  BY <1>5, <1>7, <5>2 DEF AllUntouched, Innermost
      <4>4. holds[Innermost] = whose  BY <1>1, <4>1, <4>3 DEF FoundFits
      <4>5. holds[Innermost] = first  BY <1>1, <4>1, <4>2, <4>3 DEF FirstIsThere
      <4> QED  BY <4>4, <4>5
    <3> QED  BY <3>1, <3>2
  <2>6. FirstIsThere'
    <3>1. Innermost' = Innermost /\ at' \in Confirming /\ UNCHANGED <<want, fds, opened, first, version, holds, dead>>
      BY <1>1, <1>2, <2>1 DEF Innermost, Confirming
    <3>2. Untouched(Innermost, opened[Len(fds)].version)' <=> Untouched(Innermost, opened[Len(fds)].version)
      BY <3>1 DEF Untouched
    <3>3. expected'.inode = Scope!Inode(first') /\ expected'.version <= version'[first']
      BY <2>1, <2>3, <2>5, <3>1
    <3>4. expected' \in Described /\ first' # None /\ want' \in {0, Len(fds')}
      BY <2>1, <2>3, <2>4, <3>1
    <3>5. first' \in Scope!Objects \cup {None} /\ (first' = "recreated leaf" => "leaf" \in dead')
          /\ (want' = 0 => first' = "grant")
      BY <1>1, <3>1 DEF FirstIsThere
    <3>6. want' > 0 /\ Untouched(Innermost, opened[Len(fds)].version)' => holds'[Innermost'] = first'
      BY <1>1, <3>1, <3>2 DEF FirstIsThere
    <3> QED  BY <3>3, <3>4, <3>5, <3>6 DEF FirstIsThere
  <2> QED  BY <1>2, <2>1, <2>2, <2>6, ConfirmationBegins
<1>8. CASE ~Moved /\ read # expected /\ ~(attempt + 1 < Attempts)
  BY <1>3, <1>8 DEF Scope!Recheck
<1> QED  BY <1>4, <1>6, <1>7, <1>8

\* Every step keeps it.
LEMMA ScopeHolds == ASSUME ScopeAssumption PROVE Scope!Spec => []ScopeInv
<1>1. Scope!Init => ScopeInv  BY ScopeStart
<1>2. ScopeInv /\ [Scope!Next]_Scope!vars => ScopeInv'
  <2> SUFFICES ASSUME ScopeInv, [Scope!Next]_Scope!vars PROVE ScopeInv'
    OBVIOUS
  <2>1. CASE UNCHANGED Scope!vars
    <3>1. UNCHANGED <<reaches, granted, holds, version, dead, now, at, want, bound, fds, opened, expected,
                      observed, attempt, read, answer, whose, first, witness>>
      BY <2>1 DEF Scope!vars, Scope!world, Scope!proof
    <3>2. Innermost' = Innermost /\ (AllUntouched' <=> AllUntouched)  BY <3>1 DEF Innermost, AllUntouched, Untouched
    <3>3. VolumeIsSound'  BY <3>1 DEF ScopeInv, VolumeIsSound
    <3>4. OpenedFits'  BY <3>1 DEF ScopeInv, OpenedFits
    <3>5. FirstIsThere'
      <4>1. Untouched(Innermost, opened[Len(fds)].version)' <=> Untouched(Innermost, opened[Len(fds)].version)
        BY <3>1, <3>2 DEF Untouched
      <4> QED  BY <3>1, <3>2, <4>1 DEF ScopeInv, FirstIsThere
    <3>6. ObservedFits'
      <4>1. Untouched("grant", observed[1].version)' <=> Untouched("grant", observed[1].version)
        BY <3>1 DEF Untouched
      <4> QED  BY <3>1, <4>1 DEF ScopeInv, ObservedFits
    <3>7. FoundFits'
      <4>1. Untouched(Innermost, observed[Len(fds)].version)' <=> Untouched(Innermost, observed[Len(fds)].version)
        BY <3>1, <3>2 DEF Untouched
      <4> QED  BY <3>1, <3>2, <4>1 DEF ScopeInv, FoundFits
    <3>8. WitnessFits' /\ AnswerFits'  BY <3>1, <3>2 DEF ScopeInv, WitnessFits, AnswerFits
    <3> QED  BY <3>3, <3>4, <3>5, <3>6, <3>7, <3>8 DEF ScopeInv
  <2>2. CASE Scope!Change
    <3>1. VolumeIsSound  BY DEF ScopeInv
    <3> QED  BY <2>2, <3>1, VolumeChanges, OthersLeave
  <2>3. CASE Scope!Next /\ ~Scope!Change
    BY <2>3, CallBegins, GrantIsOpened, ChildIsLookedUp, ChildIsOpened, DirectoryIsObserved,
       LinksAreCompared, LeafIsFound, PathIsValidated, PathIsConfirmed DEF Scope!Next
  <2> QED  BY <2>1, <2>2, <2>3
<1> QED  BY <1>1, <1>2, PTL DEF Scope!Spec

\* What scope_metadata (safety.rs) answers, or that there is nothing, was at the path at a
\* moment of the call, whatever other programs move, replace or create meanwhile.
THEOREM AnswersStayTrue == ASSUME ScopeAssumption PROVE Scope!Spec => []Scope!AnswerWasThere
<1>1. ScopeInv => Scope!AnswerWasThere  BY DEF ScopeInv, AnswerFits, Scope!AnswerWasThere, Scope!Answered
<1> QED  BY <1>1, ScopeHolds, PTL

\* Metadata that confirm_scope_observation gives as that of a file under change is of the
\* file that was first seen, not of one with its recycled inode number.
THEOREM RecycledStaysApart == ASSUME ScopeAssumption PROVE Scope!Spec => []Scope!WrittenNotReplaced
<1>1. ScopeInv => Scope!WrittenNotReplaced
  BY DEF ScopeInv, AnswerFits, Scope!WrittenNotReplaced, Scope!Answered
<1> QED  BY <1>1, ScopeHolds, PTL

\* The ancestor that scope_metadata_with_ancestor was given was, at a moment of the call, on
\* the path with all the metadata it was selected with.
THEOREM AncestorStaysBound == ASSUME ScopeAssumption PROVE Scope!Spec => []Scope!AncestorIsBound
<1>1. ScopeInv => Scope!AncestorIsBound  BY DEF ScopeInv, AnswerFits, Scope!AncestorIsBound, Scope!Answered
<1> QED  BY <1>1, ScopeHolds, PTL

=============================================================================
