---------------------------- MODULE EventDelivery ----------------------------
(***************************************************************************)
(* How changes of the file system reach the engine's journal: the watcher's *)
(* queue (NativeServices.swift), the bounded mailbox, the drain and the      *)
(* first scan on the main actor (EngineBridge.swift), and the engine's       *)
(* requests "dirty", "reconcile_events", "scan" and "cursor" (lib.rs).       *)
(*                                                                         *)
(* Change n is the n-th of the system; its event id is n.  Ids do not wrap. *)
(* Every await is two steps: the engine's, and that of the continuation.    *)
(***************************************************************************)
EXTENDS Naturals, Sequences, FiniteSets, FiniteSetsExt, SequencesExt

CONSTANTS
    None, Roots,
    MaxBatchEvents, MaxQueuedBatches,       \* FolderEventIngressLimits
    MaxChanges, MaxRestarts, MaxFaults      \* bounds: changes; restarts of the
                                            \* watcher and the app; failed requests

VARIABLES
    \* The file system and its events (external)
    changes,          \* where each change is: a root, or chippytea's own files
    restarts, faults,
    \* The watcher's queue
    stream,           \* what the stream has delivered, or None
    callback,         \* a callback that runs
    delayed,          \* pendingCursor of FolderEventDelivery
    \* FolderEventMailbox
    pending, active, scheduled,
    \* The main actor
    revision, cursor, firstCursor, receiptFailed,
    drain, todo,      \* processEventWork, and the roots it has not submitted yet
    asking, saving,   \* refresh(), and the cursor it saves
    reply,            \* of the drain's request; and of refresh's
    \* The engine's store
    durable,          \* event_cursor
    told,             \* the changes whose scopes have been queued since
    looked,           \* a whole scan has been queued
    early             \* history: since the last whole scan the watcher was started
                      \* from the present, for there was no cursor yet

system == <<changes, restarts, faults>>
producer == <<stream, callback, delayed>>
mailbox == <<pending, active, scheduled>>
bridge == <<revision, cursor, firstCursor, receiptFailed, drain, todo, asking, saving, reply>>
journal == <<durable, told, looked>>
vars == <<system, producer, mailbox, bridge, journal, early>>

Now == Len(changes)
Ids == 1..Now
Batch == [events : SUBSET Nat, last : Nat, lost : BOOLEAN, revision : Nat]
Work(events, last, lost) == [events |-> events, last |-> last, lost |-> lost, revision |-> revision]

\* The limits are clamped as FolderEventIngressLimits does.
DeliveryAssumption ==
    /\ MaxBatchEvents \in Nat \ {0} /\ MaxQueuedBatches \in Nat \ {0, 1}
    /\ Roots \cap {"own", "idle", "start", "reconcile", "cursor"} = {}
    /\ None \notin Nat \cup BOOLEAN \cup Batch

TypeOK ==
    /\ changes \in Seq(Roots \cup {"own"})
    /\ stream \in (0..Now) \cup {None} /\ delayed \in 0..Now
    /\ callback \in Batch \cup {None} /\ active \in Batch \cup {None}
    /\ pending \in Seq(Batch) /\ scheduled \in BOOLEAN
    /\ revision \in Nat /\ cursor \in 0..Now /\ firstCursor \in 0..Now
    /\ receiptFailed \in BOOLEAN
    /\ drain \in Roots \cup {"idle", "start", "reconcile", "cursor"} /\ todo \subseteq Roots
    /\ asking \in {"idle", "scan", "cursor"} /\ saving \in 0..Now
    /\ reply \in [drain : BOOLEAN \cup {None}, ask : BOOLEAN \cup {None}]
    /\ durable \in 0..Now /\ looked \in BOOLEAN /\ early \in BOOLEAN

\* The folders are authorized and one change lies behind.
Init ==
    /\ changes = <<"own">> /\ restarts = 0 /\ faults = 0
    /\ stream = None /\ callback = None /\ delayed = 0
    /\ pending = <<>> /\ active = None /\ scheduled = FALSE
    /\ revision = 0 /\ cursor = 0 /\ firstCursor = 0 /\ receiptFailed = FALSE
    /\ drain = "idle" /\ todo = {} /\ asking = "idle" /\ saving = 0 /\ reply = [drain |-> None, ask |-> None]
    /\ durable = 0 /\ told = {} /\ looked = FALSE /\ early = FALSE

Change(where) ==
    /\ Now < MaxChanges
    /\ changes' = Append(changes, where)
    /\ UNCHANGED <<restarts, faults, producer, mailbox, bridge, journal, early>>

-----------------------------------------------------------------------------
(* The watcher's queue                                                     *)

\* FolderEventDecoder.decode of the changes up to n: own files are left out, and
\* more events than a batch holds, or that the system dropped, are a loss.
Callback(n, dropped) ==
    LET events == {i \in stream + 1..n : changes[i] \in Roots}
    IN  /\ stream # None /\ callback = None
        /\ n \in stream + 1..Now
        /\ stream' = n
        /\ callback' = IF dropped \/ Cardinality(events) > MaxBatchEvents
                       THEN Work({}, n, TRUE) ELSE Work(events, n, FALSE)
        /\ UNCHANGED <<system, delayed, mailbox, bridge, journal, early>>

\* Faulty on purpose: a full mailbox only drops what it holds.
PutDropping(work) ==
    IF work.lost THEN <<work>>
    ELSE IF pending # <<>> /\ Last(pending).revision = work.revision /\ ~Last(pending).lost
         /\ Cardinality(Last(pending).events \cup work.events) <= MaxBatchEvents
    THEN [pending EXCEPT ![Len(pending)] =
            [work EXCEPT !.events = @ \cup Last(pending).events,
                         !.last = Max({@, Last(pending).last})]]
    ELSE IF Len(pending) + (IF active = None THEN 0 ELSE 1) < MaxQueuedBatches
    THEN Append(pending, work)
    ELSE <<work>>

\* Faulty on purpose: the work at hand is not counted.
PutBesideActive(work) ==
    IF work.lost \/ (Len(pending) < MaxQueuedBatches /\ Cardinality(work.events) > 0)
    THEN Append(pending, work) ELSE <<[work EXCEPT !.events = {}, !.lost = TRUE]>>

\* BoundedFolderEventIngress.enqueue: a loss, or what does not fit, takes the
\* place of all that waits.
Put(work) ==
    IF work.lost THEN <<work>>
    ELSE IF pending # <<>> /\ Last(pending).revision = work.revision /\ ~Last(pending).lost
         /\ Cardinality(Last(pending).events \cup work.events) <= MaxBatchEvents
    THEN [pending EXCEPT ![Len(pending)] =
            [work EXCEPT !.events = @ \cup Last(pending).events,
                         !.last = Max({@, Last(pending).last})]]
    ELSE IF Len(pending) + (IF active = None THEN 0 ELSE 1) < MaxQueuedBatches
    THEN Append(pending, work)
    ELSE <<[work EXCEPT !.events = {}, !.lost = TRUE]>>

\* FolderEventMailbox.enqueue: what comes from an earlier watcher is refused.
Enqueue(work) ==
    IF work.revision = revision
    THEN pending' = Put(work) /\ scheduled' = TRUE
    ELSE UNCHANGED <<pending, scheduled>>

\* FolderEventDelivery.receive: a bare cursor waits for a timer.
Receive ==
    /\ callback # None
    /\ IF callback.revision # revision THEN UNCHANGED <<delayed, pending, scheduled>>
       ELSE IF callback.lost \/ callback.events # {}
       THEN /\ delayed' = 0
            /\ Enqueue([callback EXCEPT !.last = IF callback.lost THEN @ ELSE Max({@, delayed})])
       ELSE /\ delayed' = Max({callback.last, delayed})
            /\ UNCHANGED <<pending, scheduled>>
    /\ callback' = None
    /\ UNCHANGED <<system, stream, active, bridge, journal, early>>

Flush ==
    /\ delayed # 0 /\ callback = None
    /\ Enqueue(Work({}, delayed, FALSE))
    /\ delayed' = 0
    /\ UNCHANGED <<system, stream, callback, active, bridge, journal, early>>

-----------------------------------------------------------------------------
(* The engine                                                              *)

\* A request commits, or not, and may fail either way.
Outcomes == {[commit |-> TRUE, ok |-> TRUE]}
            \cup (IF faults < MaxFaults THEN [commit : BOOLEAN, ok : {FALSE}] ELSE {})
Answer(who, outcome) ==
    /\ reply' = [reply EXCEPT ![who] = outcome.ok]
    /\ faults' = IF outcome.ok THEN faults ELSE faults + 1
    /\ UNCHANGED <<changes, restarts, producer, mailbox, revision, cursor, firstCursor,
                   receiptFailed, drain, todo, asking, saving>>

Dirty(r, outcome) ==
    /\ drain = r /\ reply.drain = None
    /\ told' = IF outcome.commit THEN told \cup {n \in active.events : changes[n] = r} ELSE told
    /\ UNCHANGED <<durable, looked, early>>
    /\ Answer("drain", outcome)

ReconcileEvents(outcome) ==
    /\ drain = "reconcile" /\ reply.drain = None
    /\ IF outcome.commit
       THEN durable' = active.last /\ told' = Ids /\ looked' = TRUE /\ early' = FALSE
       ELSE UNCHANGED <<journal, early>>
    /\ Answer("drain", outcome)

Cursor(who, last, outcome) ==
    /\ durable' = IF outcome.commit THEN Max({durable, last}) ELSE durable
    /\ UNCHANGED <<told, looked, early>>
    /\ Answer(who, outcome)

Scan(outcome) ==
    /\ asking = "scan" /\ reply.ask = None
    /\ IF outcome.commit THEN told' = Ids /\ looked' = TRUE /\ early' = FALSE
       ELSE UNCHANGED <<told, looked, early>>
    /\ UNCHANGED durable
    /\ Answer("ask", outcome)

Engine ==
    \E outcome \in Outcomes :
        \/ \E r \in Roots : Dirty(r, outcome)
        \/ ReconcileEvents(outcome) \/ Scan(outcome)
        \/ drain = "cursor" /\ reply.drain = None /\ Cursor("drain", active.last, outcome)
        \/ asking = "cursor" /\ reply.ask = None /\ Cursor("ask", saving, outcome)

-----------------------------------------------------------------------------
(* drainEventIngress and processEventWork                                  *)

still == <<system, producer, revision, firstCursor, asking, saving, journal, early>>
Finish == drain' = "idle" /\ active' = None /\ todo' = {} /\ reply' = [reply EXCEPT !.drain = None]

\* Faulty on purpose: the cursor is sent although a batch before has failed.
ThenCursorAnyway(failed, c) == ~active.lost /\ active.last > c
\* "A failed submission keeps the earlier cursor".
ThenCursor(failed, c) == ~active.lost /\ ~failed /\ active.last > c

\* The next request for the work at hand, or its end.
Submit(work, left) ==
    IF left # {} THEN \E r \in left : drain' = r /\ todo' = left \ {r} /\ active' = work
                                      /\ reply' = [reply EXCEPT !.drain = None]
    ELSE IF ThenCursor(receiptFailed, cursor)
    THEN drain' = "cursor" /\ todo' = {} /\ active' = work
         /\ reply' = [reply EXCEPT !.drain = None]
    ELSE Finish

\* Work that has been taken, and that it is worth while to go on with.
StartNext ==
    /\ scheduled /\ active = None /\ pending # <<>>
    /\ active' = Head(pending) /\ pending' = Tail(pending)
    /\ drain' = "start"
    /\ UNCHANGED <<still, scheduled, cursor, receiptFailed, todo, reply>>

EndDrain ==
    /\ scheduled /\ active = None /\ pending = <<>>
    /\ scheduled' = FALSE
    /\ UNCHANGED <<still, pending, active, cursor, receiptFailed, drain, todo, reply>>

Process ==
    /\ drain = "start"
    /\ IF active.revision # revision THEN Finish
       ELSE IF active.lost
       THEN drain' = "reconcile" /\ UNCHANGED <<active, todo, reply>>
       ELSE Submit(active, {changes[n] : n \in active.events})
    /\ UNCHANGED <<still, pending, scheduled, cursor, receiptFailed>>

\* The continuation of a request: nothing is done for an earlier watcher.
Continue ==
    /\ drain \notin {"idle", "start"} /\ reply.drain # None
    /\ CASE active.revision # revision ->
              Finish /\ UNCHANGED <<cursor, receiptFailed>>
         [] active.revision = revision /\ ~reply.drain ->
              Finish /\ receiptFailed' = TRUE /\ UNCHANGED cursor
         [] active.revision = revision /\ reply.drain /\ drain = "reconcile" ->
              Finish /\ cursor' = active.last /\ receiptFailed' = FALSE
         [] active.revision = revision /\ reply.drain /\ drain = "cursor" ->
              Finish /\ cursor' = durable /\ UNCHANGED receiptFailed
         [] active.revision = revision /\ reply.drain /\ drain \in Roots ->
              Submit(active, todo) /\ UNCHANGED <<cursor, receiptFailed>>
    /\ UNCHANGED <<still, pending, scheduled>>

-----------------------------------------------------------------------------
(* start, restartWatcher and refresh                                       *)

\* restartWatcher, with the cursor c.  Without access nothing is watched.
Restarted(c, access) ==
    /\ revision' = revision + 1 /\ receiptFailed' = FALSE
    /\ IF access
       THEN /\ firstCursor' = IF c = 0 THEN Now ELSE firstCursor
            /\ stream' = IF c = 0 THEN Now ELSE c
       ELSE stream' = None /\ UNCHANGED firstCursor
    /\ delayed' = 0 /\ UNCHANGED callback

RestartWatcher(access) ==
    /\ revision # 0 /\ restarts < MaxRestarts /\ restarts' = restarts + 1
    /\ Restarted(cursor, access)
    /\ early' = (early \/ (looked /\ cursor = 0))
    /\ UNCHANGED <<changes, faults, mailbox, cursor, drain, todo, asking, saving,
                   reply, journal>>

\* start(): a cursor that was kept means that the journal says what is left.
Start ==
    /\ revision = 0
    /\ cursor' = durable
    /\ Restarted(durable, TRUE)
    /\ asking' = IF durable = 0 THEN "scan" ELSE "idle"
    /\ early' = (early \/ (looked /\ durable = 0))
    /\ UNCHANGED <<system, mailbox, drain, todo, saving, reply, journal>>

Refresh ==
    /\ asking = "idle" /\ stream # None /\ restarts < MaxRestarts
    /\ restarts' = restarts + 1 /\ asking' = "scan"
    /\ UNCHANGED <<changes, faults, producer, mailbox, revision, cursor, firstCursor,
                   receiptFailed, drain, todo, saving, reply, journal, early>>

\* The first scan also saves where the watcher started.
Accepted ==
    /\ asking # "idle" /\ reply.ask # None
    /\ reply' = [reply EXCEPT !.ask = None]
    /\ IF reply.ask /\ asking = "scan" /\ cursor = 0 /\ firstCursor > 0
       THEN asking' = "cursor" /\ saving' = firstCursor /\ UNCHANGED cursor
       ELSE /\ asking' = "idle" /\ saving' = 0
            /\ cursor' = IF reply.ask /\ asking = "cursor" THEN firstCursor ELSE cursor
    /\ UNCHANGED <<system, producer, mailbox, revision, firstCursor, receiptFailed, drain,
                   todo, journal, early>>

\* The app ends at any moment; the journal stays.
Quit ==
    /\ revision # 0 /\ restarts < MaxRestarts /\ restarts' = restarts + 1
    /\ stream' = None /\ callback' = None /\ delayed' = 0
    /\ pending' = <<>> /\ active' = None /\ scheduled' = FALSE
    /\ revision' = 0 /\ cursor' = 0 /\ firstCursor' = 0 /\ receiptFailed' = FALSE
    /\ drain' = "idle" /\ todo' = {} /\ asking' = "idle" /\ saving' = 0
    /\ reply' = [drain |-> None, ask |-> None]
    /\ UNCHANGED <<changes, faults, journal, early>>

Watching ==
    \/ \E n \in Ids, dropped \in BOOLEAN : Callback(n, dropped)
    \/ Receive \/ Flush
Draining == StartNext \/ EndDrain \/ Process \/ Continue

Next ==
    \/ \E where \in Roots \cup {"own"} : Change(where)
    \/ Watching \/ Engine \/ Draining \/ Start \/ Refresh \/ Accepted \/ Quit
    \/ \E access \in BOOLEAN : RestartWatcher(access)

Spec == Init /\ [][Next]_vars

-----------------------------------------------------------------------------
(* Properties                                                              *)

\* "Receipt of events is durable before Swift acknowledges them": once the folders have been
\* looked at, the cursor that a relaunch starts from lies before every change
\* that the journal has not been told of, whatever was full, late, restarted or
\* refused.  (A watcher that is started anew before the first cursor is saved is
\* set apart: it starts from the present.)
NothingIsSkipped ==
    looked /\ ~early => \A n \in Ids : n <= durable /\ changes[n] \in Roots => n \in told

\* What the journal has not been told of is on its way to it, still to be
\* delivered by the stream, or replayed from the cursor by the next watcher.
Reachable(n) ==
    \/ n \in told \/ stream = None \/ receiptFailed \/ n > stream
    \/ \E w \in {callback, active} \cup ToSet(pending) :
        w # None /\ w.revision = revision /\ (n \in w.events \/ w.lost)
NothingIsForgotten ==
    looked /\ ~early => \A n \in Ids : changes[n] \in Roots => Reachable(n)

\* The mailbox is bounded, with the work at hand, and whatever is in it will be drained.
MailboxIsBounded ==
    /\ Len(pending) + (IF active = None THEN 0 ELSE 1) <= MaxQueuedBatches
    /\ \A w \in ToSet(pending) : Cardinality(w.events) <= MaxBatchEvents
    /\ pending # <<>> => scheduled

=============================================================================
