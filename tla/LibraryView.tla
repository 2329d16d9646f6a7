----------------------------- MODULE LibraryView -----------------------------
(***************************************************************************)
(* What the main actor shows of the engine (EngineBridge.swift): snapshots  *)
(* that are asked for from many places and applied in any order, the queue  *)
(* of cleanups, and the balance while chips are earned and collected.       *)
(*                                                                         *)
(* Requests run one after the other on the engine's queue; the continuations*)
(* of their answers run in any order.  A cleanup request is of one item, is *)
(* permanent, and earns one chip; the window stays open on the chips.       *)
(***************************************************************************)
EXTENDS Naturals, Sequences, FiniteSets, FiniteSetsExt, SequencesExt

CONSTANTS
    None, Items,
    MaxEvents, MaxFaults,     \* bounds: jobs, acts of the user and lost answers, and
                              \* how many of them are lost answers
    MaxReads                  \* bounds the reads while a job runs

VARIABLES
    \* The engine (EngineGate, CleanupLedger): only what a snapshot shows
    present, scanning, pending, collected, version, faults,
    events,        \* what has come from outside
    \* EngineClient's queue, and the answers whose continuations have not run
    queue, answers,
    \* Snapshots
    snapshotRequest, applied, shown, demand, poll, demanded,
    \* Cleanups
    active, queued, executing, running, cancelled,
    \* Chips
    preview, wanted, collecting, confirmed,
    cleaned                            \* history: the items that were removed

engine == <<present, scanning, pending, collected, version, faults>>
client == <<queue, answers>>
snapshots == <<snapshotRequest, applied, shown, demand, poll, demanded>>
cleanups == <<active, queued, executing, running, cancelled>>
chips == <<preview, wanted, collecting, confirmed>>
vars == <<engine, events, client, snapshots, cleanups, chips, cleaned>>

Snapshot == [present |-> present, scanning |-> scanning, cleaning |-> FALSE,
             pending |-> pending, collected |-> collected, version |-> version]

Init ==
    /\ present = Items /\ scanning = FALSE /\ pending = 0 /\ collected = 0
    /\ version = 0 /\ events = 0 /\ faults = 0
    /\ queue = <<>> /\ answers = {}
    /\ snapshotRequest = 0 /\ applied = 0 /\ shown = Snapshot
    /\ demand = 0 /\ poll = "none" /\ demanded = 0
    /\ active = None /\ queued = <<>> /\ executing = FALSE /\ running = FALSE
    /\ cancelled = FALSE
    /\ preview = None /\ wanted = FALSE /\ collecting = FALSE /\ confirmed = 0
    /\ cleaned = {}

-----------------------------------------------------------------------------
(* The engine                                                              *)

Stimulus == events + faults < MaxEvents /\ events' = events + 1

\* A background job starts, with an event that asks for a poll, or ends.
Begin ==
    /\ ~scanning /\ Stimulus
    /\ scanning' = TRUE /\ version' = version + 1
    /\ answers' = answers \cup {[kind |-> "event", id |-> version', ok |-> TRUE, data |-> None]}
    /\ UNCHANGED <<present, pending, collected, faults, queue, snapshots, cleanups, chips, cleaned>>

End ==
    /\ scanning
    /\ scanning' = FALSE /\ version' = version + 1
    /\ UNCHANGED <<present, pending, collected, events, faults, client, snapshots, cleanups,
                   chips, cleaned>>

\* The request at the head of the queue.  An answer may be an error although the
\* engine did what it was asked.
Serve(ok) ==
    LET request == Head(queue)
    IN  /\ queue # <<>>
        /\ ok \/ (faults < MaxFaults /\ events + faults < MaxEvents)
        /\ faults' = IF ok THEN faults ELSE faults + 1
        /\ queue' = Tail(queue)
        /\ \/ /\ request.kind = "read"
              /\ answers' = answers \cup {[kind |-> request.by, id |-> request.id, ok |-> ok,
                                           data |-> Snapshot]}
              /\ UNCHANGED <<present, pending, collected, version, cleaned>>
           \/ /\ request.kind = "execute"
              /\ \/ /\ present' = present \ {request.id} /\ cleaned' = cleaned \cup {request.id}
                    /\ pending' = pending + 1 /\ version' = version + 1
                 \/ UNCHANGED <<present, pending, version, cleaned>>
              /\ answers' = answers \cup {[kind |-> "execute", id |-> request.id, ok |-> ok,
                                           data |-> None]}
              /\ UNCHANGED collected
           \/ /\ request.kind = "collect"
              /\ collected' = collected + pending /\ pending' = 0 /\ version' = version + 1
              /\ answers' = answers \cup {[kind |-> "collect", id |-> 0, ok |-> ok,
                                           data |-> collected']}
              /\ UNCHANGED <<present, cleaned>>
    /\ UNCHANGED <<scanning, events, snapshots, cleanups, chips>>

-----------------------------------------------------------------------------
(* The main actor's state, as one continuation sees and changes it          *)

Actor == [request |-> snapshotRequest, applied |-> applied, shown |-> shown,
          demand |-> demand, poll |-> poll, demanded |-> demanded,
          active |-> active, queued |-> queued, executing |-> executing,
          running |-> running, cancelled |-> cancelled, preview |-> preview,
          wanted |-> wanted, collecting |-> collecting, confirmed |-> confirmed,
          send |-> <<>>]

Becomes(a) ==
    /\ snapshotRequest' = a.request /\ applied' = a.applied /\ shown' = a.shown
    /\ demand' = a.demand /\ poll' = a.poll /\ demanded' = a.demanded
    /\ active' = a.active /\ queued' = a.queued /\ executing' = a.executing
    /\ running' = a.running /\ cancelled' = a.cancelled /\ preview' = a.preview
    /\ wanted' = a.wanted /\ collecting' = a.collecting /\ confirmed' = a.confirmed
    /\ queue' = queue \o a.send
    /\ UNCHANGED <<engine, cleaned>>

\* reload(), up to its await.
Reading(a, by) ==
    IF a.executing THEN a
    ELSE [a EXCEPT !.request = @ + 1,
                   !.send = Append(@, [kind |-> "read", id |-> a.request + 1, by |-> by])]

\* poll(): a running loop takes the demand up.
Polled(a) ==
    IF a.executing THEN a
    ELSE IF a.poll # "none" THEN [a EXCEPT !.demand = @ + 1]
    ELSE Reading([a EXCEPT !.demand = @ + 1, !.poll = "reading", !.demanded = a.demand + 1],
                 "poll")

Outstanding(a) == (IF a.active = None THEN {} ELSE {a.active}) \cup ToSet(a.queued)
HasWork(a) == Outstanding(a) # {} \/ a.executing \/ a.shown.cleaning
Earned(a) == Max({a.confirmed, a.shown.collected + a.shown.pending})
Balance(a) == IF a.preview # None THEN a.preview.target
              ELSE Max({a.confirmed, a.shown.collected})

\* Faulty on purpose: the preview goes as soon as it is resolved.
RetiredAtOnce(a) ==
    IF a.preview # None /\ a.preview.resolved /\ a.preview.finished
    THEN [a EXCEPT !.preview = None] ELSE a
\* retireFinishedCleanupPreview: not before the wallet shows as much.
Retired(a) ==
    IF a.preview # None /\ a.preview.resolved /\ a.preview.finished
       /\ Max({a.confirmed, a.shown.collected}) >= a.preview.target
    THEN [a EXCEPT !.preview = None] ELSE a

\* reconcileCleanupEstimate
Reconciled(a) ==
    IF a.preview = None \/ a.preview.resolved THEN a
    ELSE [a EXCEPT !.preview.target = Earned(a) + Cardinality(Outstanding(a)),
                   !.preview.resolved = Outstanding(a) = {}]

\* Faulty on purpose: reads that were asked for before may still be applied.
StartedWithOldReads(a) ==
    IF a.active # None \/ a.queued = <<>> \/ a.cancelled THEN a
    ELSE [a EXCEPT !.active = Head(a.queued), !.queued = Tail(@),
                   !.executing = TRUE, !.running = TRUE, !.shown.cleaning = TRUE,
                   !.send = Append(@, [kind |-> "execute", id |-> Head(a.queued)])]

\* startNextCleanupIfPossible: "invalidate reads already queued before confirmation".
Started(a) ==
    IF a.active # None \/ a.queued = <<>> \/ a.cancelled THEN a
    ELSE [a EXCEPT !.active = Head(a.queued), !.queued = Tail(@),
                   !.executing = TRUE, !.running = TRUE, !.shown.cleaning = TRUE,
                   !.request = @ + 1, !.applied = a.request + 1,
                   !.send = Append(@, [kind |-> "execute", id |-> Head(a.queued)])]

\* startCollectionIfPossible
Collecting(a) ==
    IF a.wanted /\ ~a.collecting /\ ~HasWork(a) /\ (a.preview = None \/ a.preview.resolved)
    THEN [a EXCEPT !.wanted = FALSE, !.collecting = TRUE,
                   !.send = Append(@, [kind |-> "collect", id |-> 0])]
    ELSE a
\* collect()
Collect(a) ==
    LET b == [a EXCEPT !.wanted = TRUE]
    IN  Collecting(IF b.preview # None /\ ~b.preview.resolved /\ ~b.executing
                   THEN Polled(b) ELSE b)

\* watchCleanupEdge: an authoritative read ends the cleanup.
Edge(a) ==
    IF a.shown.cleaning THEN [a EXCEPT !.running = TRUE]
    ELSE IF ~a.running THEN Retired(a)
    ELSE LET b == Reconciled([a EXCEPT !.running = FALSE, !.active = None])
         IN  IF b.queued # <<>> THEN Started(b)
             ELSE LET c == Retired([b EXCEPT !.cancelled = FALSE])
                  IN  IF c.shown.pending > 0 THEN Collect(c) ELSE c

\* Faulty on purpose: whichever read comes last is shown.
AppliedAnyway(a, answer) ==
    IF a.executing THEN a
    ELSE Collecting(Edge([a EXCEPT !.applied = answer.id, !.shown = answer.data]))
\* reload(), after its await.
Applied(a, answer) ==
    IF a.executing \/ answer.id < a.applied \/ ~answer.ok THEN a
    ELSE Collecting(Edge([a EXCEPT !.applied = answer.id, !.shown = answer.data]))

-----------------------------------------------------------------------------
(* Continuations                                                           *)

\* Faulty on purpose: an idle engine ends the loop, whoever asked meanwhile.
NextPollAtOnce(a) ==
    IF a.executing \/ (~a.shown.scanning /\ ~a.shown.cleaning) THEN [a EXCEPT !.poll = "none"]
    ELSE [a EXCEPT !.poll = "sleeping"]
\* The loop of poll(), after a read.
NextPoll(a) ==
    IF a.executing THEN [a EXCEPT !.poll = "none"]
    ELSE IF a.shown.scanning \/ a.shown.cleaning THEN [a EXCEPT !.poll = "sleeping"]
    ELSE IF a.demanded = a.demand THEN [a EXCEPT !.poll = "none"]
    ELSE Reading([a EXCEPT !.demanded = a.demand], "poll")

Continue(answer) ==
    /\ answers' = answers \ {answer} /\ UNCHANGED events
    /\ Becomes(
         CASE answer.kind = "event" -> Polled(Actor)
           [] answer.kind = "poll" -> NextPoll(Applied(Actor, answer))
           [] answer.kind = "settle" -> Polled(Collecting(Applied(Actor, answer)))
           [] answer.kind = "other" -> Applied(Actor, answer)
           [] answer.kind = "collected" ->
                Collecting([Applied(Actor, answer) EXCEPT !.collecting = FALSE])
           [] answer.kind = "execute" ->
                \* What was removed is settled by a read that is asked for now.
                Reading([Actor EXCEPT !.running = TRUE, !.executing = FALSE,
                                      !.shown.cleaning = FALSE], "settle")
           [] answer.kind = "collect" ->
                IF ~answer.ok THEN Collecting([Actor EXCEPT !.collecting = FALSE])
                ELSE LET a == Retired([Actor EXCEPT !.confirmed = Max({@, answer.data})])
                     IN  IF a.executing THEN Collecting([a EXCEPT !.collecting = FALSE])
                         ELSE Reading(a, "collected"))

\* The sleep of poll() ends.
Wake ==
    /\ poll = "sleeping" /\ (scanning => snapshotRequest < MaxReads)
    /\ Becomes(IF executing THEN [Actor EXCEPT !.poll = "none"]
               ELSE Reading([Actor EXCEPT !.poll = "reading", !.demanded = demand], "poll"))
    /\ UNCHANGED <<answers, events>>

-----------------------------------------------------------------------------
(* The user                                                                *)

Displayed == shown.present \ Outstanding(Actor)

\* clean(permanently: true), of an item that is shown.
Clean(i) ==
    /\ i \in Displayed /\ Stimulus
    /\ IF active # None THEN ~cancelled ELSE ~executing /\ ~shown.cleaning
    /\ LET a == [Actor EXCEPT !.cancelled = @ /\ (active # None \/ queued # <<>>),
                              !.queued = Append(@, i)]
           b == Started([a EXCEPT !.preview =
                           [target |-> Earned(a) + Cardinality(Outstanding(a)),
                            resolved |-> FALSE, finished |-> FALSE]])
       IN  Becomes(Polled(b))
    /\ UNCHANGED answers

\* cancel() while cleanups wait or run.
Cancel ==
    /\ active # None \/ queued # <<>>
    /\ ~cancelled /\ Stimulus
    /\ Becomes(Reconciled([Actor EXCEPT !.cancelled = TRUE, !.queued = <<>>]))
    /\ UNCHANGED answers

\* finishCleanupPreview: the chips have been shown falling.
FinishPreview ==
    /\ preview # None /\ ~preview.finished
    /\ Becomes(Retired([Actor EXCEPT !.preview.finished = TRUE]))
    /\ UNCHANGED <<answers, events>>

\* Any other action ends with a reload.
Reload ==
    /\ ~executing /\ Stimulus
    /\ Becomes(Reading(Actor, "other"))
    /\ UNCHANGED answers

Next ==
    \/ Begin \/ End
    \/ \E ok \in BOOLEAN : Serve(ok)
    \/ \E answer \in answers : Continue(answer)
    \/ Wake
    \/ \E i \in Items : Clean(i)
    \/ Cancel \/ FinishPreview \/ Reload

Spec == Init /\ [][Next]_vars

-----------------------------------------------------------------------------
(* Properties                                                              *)

ReadKinds == {"poll", "settle", "other", "collected"}
Snapshots == [present : SUBSET Items, scanning : BOOLEAN, cleaning : BOOLEAN,
              pending : Nat, collected : Nat, version : Nat]
Previews == [target : Nat, resolved : BOOLEAN, finished : BOOLEAN]
Requests == [kind : {"read"}, id : Nat, by : ReadKinds]
            \cup [kind : {"execute"}, id : Items] \cup [kind : {"collect"}, id : {0}]
Answers == [kind : ReadKinds, id : Nat, ok : BOOLEAN, data : Snapshots]
           \cup [kind : {"event"}, id : Nat, ok : {TRUE}, data : {None}]
           \cup [kind : {"execute"}, id : Items, ok : BOOLEAN, data : {None}]
           \cup [kind : {"collect"}, id : {0}, ok : BOOLEAN, data : Nat]

TypeOK ==
    /\ present \in SUBSET Items /\ cleaned \in SUBSET Items
    /\ {scanning, executing, running, cancelled, wanted, collecting} \subseteq BOOLEAN
    /\ {pending, collected, version, faults, events, snapshotRequest, applied, demand, demanded,
        confirmed} \subseteq Nat
    /\ queue \in Seq(Requests) /\ answers \in SUBSET Answers
    /\ shown \in Snapshots /\ poll \in {"none", "reading", "sleeping"}
    /\ active \in Items \cup {None} /\ queued \in Seq(Items)
    /\ preview \in Previews \cup {None}

\* What the proofs need of the constants.
ViewAssumption == None \notin Items \cup Previews

\* "None may replace the in-flight presentation": an item that was removed is never offered
\* again, although reads asked for before, during and after its cleanup are
\* answered in any order, and their answers fail.
NoGhosts == Displayed \cap cleaned = {}

NoStepBack == shown'.version >= shown.version

\* "their MainActor continuations may resume in a different order": what is shown never
\* goes back to an earlier state of the engine.
ViewMovesForward == [][NoStepBack]_vars

FallsOnlyEstimated ==
    Balance(Actor)' >= Balance(Actor) \/ (preview # None /\ ~preview.resolved)

\* "It briefly falling back to the old balance" does not happen: the balance only falls
\* while a cleanup is estimated, never when chips are collected.
BalanceStands == [][FallsOnlyEstimated]_vars

\* "Its demand must survive": when nothing is under way any more, what is shown is what
\* there is and every queued cleanup has run or was cancelled, unless an answer was
\* an error.
ViewSettles ==
    queue = <<>> /\ answers = {} /\ poll = "none" /\ faults = 0 =>
        shown.version = version /\ ~scanning /\ active = None /\ queued = <<>>

=============================================================================
