------------------------------ MODULE Traversal ------------------------------
(***************************************************************************)
(* One scan of a scope (ScanSession::scan in core/src/scanner.rs): the     *)
(* breadth-first walk that looks for artifacts, the measurements it takes  *)
(* turns with, the artifacts it defers, and the rows it reports.           *)
(*                                                                         *)
(* What an entry is, is given: whether its name or its evidence makes it an *)
(* artifact, whether that is quiet, and what a measurement of it comes to   *)
(* (MeasurementCursor).  Other programs may change an artifact between its  *)
(* discovery and its last look, and reading a folder may fail.  The look at *)
(* the processes is used again for as long as it is young enough, and what  *)
(* a measurement has walked it does not walk again.                         *)
(***************************************************************************)
EXTENDS Naturals, Sequences, FiniteSets, TLC

CONSTANTS
    Above,        \* Above[e] is the folder that entry e is in, 0 for the root
    Worlds,       \* what the entries are: each world has the traits of every entry
    Keeps,        \* the sets of kept paths
    Scopes,       \* what is asked for: the lanes, and whether they are logical
    Frontier,     \* MAX_SHALLOW_FRONTIER
    ActiveMax,    \* MAX_ACTIVE_MEASUREMENTS
    DeferMax,     \* MAX_DEFERRED_ARTIFACTS
    MaxDepth,     \* MAX_DEPTH
    MaxFaults     \* bounds the changes and the failures

VARIABLES
    \* External: what the entries are, the paths to keep, and what has changed
    is, kept, changed,
    scope, mode,
    next, frontier, deferred, measuring, turn, laneTurn,
    hints,        \* the artifacts for which a recently modified file is known
    look,         \* the look at the processes that is kept: what it saw in use, or none
    rows, errors, outcome,
    faults,
    \* History: the folders that were opened and the artifacts that were measured,
    \* how often each entry was counted, how long each lane has waited, and the
    \* artifacts with a change that what is still to be looked at will show
    opened, tallied, waited, noted

world == <<is, kept, changed, scope, mode>>
queues == <<next, frontier, deferred, measuring, turn, laneTurn>>
history == <<opened, tallied, waited, noted>>
vars == <<world, queues, hints, look, rows, errors, outcome, faults, history>>

Entries == DOMAIN Above
Root == 1
Children(d) == {e \in Entries : Above[e] = d}
\* The entries are numbered from above, so a folder comes before what is in it.
UpTo[e \in Entries \cup {0}] == IF e = 0 THEN {} ELSE {e} \cup UpTo[Above[e]]
Below(e) == {f \in Entries : e \in UpTo[f]}
KeptAround(e) == UpTo[e] \cap kept # {}
KeptInside(e) == Below(e) \cap kept # {}
Lanes == 1..Len(scope.starts)

-----------------------------------------------------------------------------
(* What an entry is                                                        *)

\* Nothing is looked for behind a link, on another volume or in an excluded place.
Barred(e) == is[e].barred
IsDir(e) == is[e].dir
Named(e) == is[e].name # "plain"              \* is_artifact_name
Conditional(e) == is[e].name = "conditional"  \* is_conditional_artifact_name
\* quiet_for of the entry alone, and with its evidence
OldByItself(e) == is[e].age # "touched"
Quiet(e) == is[e].age = "old"
InUse == {e \in Entries : is[e].busy \/ changed[e] = "busy"}
EvidenceHolds(e) == changed[e] # "evidence"
Content(e) == IF changed[e] = "content" THEN "recent" ELSE is[e].content

Init ==
    /\ is = <<>> /\ kept = {} /\ changed = [e \in Entries |-> "no"]
    /\ scope = [starts |-> <<>>, logical |-> FALSE, exact |-> FALSE, gone |-> {}] /\ mode = "suggestions"
    /\ next = <<>> /\ frontier = <<>> /\ deferred = <<>> /\ measuring = <<>>
    /\ turn = FALSE /\ laneTurn = 1
    /\ hints = {} /\ look = <<>> /\ rows = [e \in Entries |-> "none"] /\ errors = FALSE
    /\ outcome = "idle" /\ faults = 0 /\ opened = {}
    /\ tallied = [e \in Entries |-> 0] /\ waited = <<>> /\ noted = {}

Found(e) == is[e].evidence = "found" /\ e # Root

\* The starts are looked at one after the other.  Each lane can be kept, gone or
\* out of reach; only where there is a single one is that the end of it.
Begin(i, k, s, m, h, gone, bad) ==
    /\ outcome = "idle"
    /\ is' = i /\ kept' = k /\ scope' = s @@ [gone |-> gone] /\ mode' = m /\ hints' = h
    /\ LET lanes == DOMAIN s.starts
           skipped == {l \in lanes : UpTo[s.starts[l]] \cap k # {}}
           lost == gone \ skipped
           failed == bad \ skipped
           going == SelectSeq([l \in lanes |-> l], LAMBDA l : l \notin skipped \cup gone \cup bad)
       IN  /\ next' = [n \in DOMAIN going |-> [e |-> s.starts[going[n]], lane |-> going[n]]]
           /\ errors' = (s.logical /\ failed # {})
           /\ outcome' = IF s.logical THEN "scanning"
                         ELSE IF failed # {} \/ (lost # {} /\ s.exact) THEN "refused"
                         ELSE IF lost # {} THEN "complete" ELSE "scanning"
           /\ waited' = [l \in lanes |-> 0]
    /\ faults' = Cardinality(bad)
    /\ UNCHANGED <<changed, frontier, deferred, measuring, turn, laneTurn, look, rows, opened,
                   tallied, noted>>

-----------------------------------------------------------------------------
(* The look at the processes                                               *)

\* capture_with_max_age: a look is used again as long as it is kept, one that failed
\* too.  A failed look withholds everything.
Failed == <<Entries>>
Fails(l) == look = <<>> /\ l = Failed
One(b) == IF b THEN 1 ELSE 0
Looks(able) ==
    IF look # <<>> THEN {look}
    ELSE {<<InUse>>} \cup {l \in {Failed} : faults + One(~able) < MaxFaults}

\* activity_reason
Reason(e, l) ==
    IF l = Failed THEN "withheld" ELSE IF e \in l[1] THEN "blocked" ELSE "no"

-----------------------------------------------------------------------------
(* The outcome of a measurement                                            *)

\* finish_artifact_review: after the measurement git, the look at the processes, which
\* may be the one of the discovery, and the evidence, which is read again.
LooksAgain(job, measured) == job.blocked = "no" /\ measured = "good" /\ ~is[job.e].tracked
Verdict(job, measured, l) ==
    IF measured = "failed" THEN "blocked"
    ELSE IF job.blocked # "no" THEN job.blocked
    ELSE IF measured \in {"unsafe", "broken"} THEN "blocked"
    ELSE IF measured \in {"small", "recent"} THEN "unfit"
    ELSE IF is[job.e].tracked THEN "blocked"
    ELSE IF Reason(job.e, l) # "no" THEN Reason(job.e, l)
    ELSE IF ~EvidenceHolds(job.e) THEN "blocked"
    ELSE IF job.cursor = "metadata" THEN "unfit"
    ELSE "eligible"

Finish(job, measured, faulted, l) ==
    /\ rows' = [rows EXCEPT ![job.e] = Verdict(job, measured, l)]
    /\ errors' = (errors \/ measured \in {"failed", "broken"})
    /\ faults' = faults + One(faulted) + One(Fails(l))

DiscoveryDone == next = <<>> /\ frontier = <<>> /\ deferred = <<>>
MeasurementIsNext ==
    /\ outcome = "scanning" /\ measuring # <<>>
    /\ turn \/ Len(measuring) >= ActiveMax \/ DiscoveryDone

\* advance_artifact_measurement: a quantum after which there is more to measure, and
\* which may have walked what decides, or the last one.  What was walked is not walked
\* again; a suggestion's measurement ends early at something recent.
Measure ==
    /\ MeasurementIsNext
    /\ turn' = FALSE
    /\ LET job == Head(measuring)
           measured == IF job.seen # "nothing" THEN job.seen ELSE Content(job.e)
       IN  \/ \E s \in {job.seen, measured} :
                 /\ job.cursor = "suggestion" => s # "recent"
                 /\ measuring' = Append(Tail(measuring), [job EXCEPT !.seen = s])
                 /\ UNCHANGED <<rows, errors, faults, tallied, hints, look>>
           \/ \E l \in IF LooksAgain(job, measured) THEN Looks(TRUE) ELSE {look} :
                 /\ measuring' = Tail(measuring)
                 /\ Finish(job, measured, FALSE, l) /\ look' = l
                 /\ tallied' = [e \in Entries |->
                       tallied[e] + One(e \in Below(job.e) \ {job.e})]
                 /\ hints' = IF job.learns /\ measured = "recent"
                             THEN hints \cup {job.e} ELSE hints
           \/ /\ faults < MaxFaults
              /\ measuring' = Tail(measuring)
              /\ Finish(job, "failed", TRUE, look)
              /\ UNCHANGED <<tallied, hints, look>>
    /\ UNCHANGED <<world, next, frontier, deferred, laneTurn, outcome, opened, waited, noted>>

-----------------------------------------------------------------------------
(* A look at an entry                                                      *)

Skip == UNCHANGED <<deferred, measuring, hints, look, rows, opened>>
Count(e) == tallied' = [tallied EXCEPT ![e] = @ + 1]

\* The review of an artifact gets a cursor, or ends for want of one.
Review(e, blocked, quiet, wasDeferred, able, l) ==
    LET fit == ~wasDeferred /\ quiet /\ blocked = "no"
        job == [e |-> e, blocked |-> blocked, seen |-> "nothing",
                cursor |-> CASE ~fit -> "metadata"
                             [] mode = "suggestions" -> "suggestion"
                             [] OTHER -> "full",
                learns |-> mode = "suggestions" /\ fit /\ IsDir(e)]
    IN  IF able
        THEN /\ measuring' = Append(measuring, job)
             /\ rows' = [rows EXCEPT ![e] = "provisional"]
             /\ opened' = opened \cup {e} /\ faults' = faults + One(Fails(l))
             /\ UNCHANGED errors
        ELSE /\ Finish(job, "failed", TRUE, l)
             /\ UNCHANGED <<measuring, opened>>

\* A file that its own metadata rules out is not opened.
FileIsUnfit(e) == ~IsDir(e) /\ (~Quiet(e) \/ Content(e) = "small")
Row(e, row) == rows' = [rows EXCEPT ![e] = row]

\* The processes are looked at for what is quiet.
Artifact(e, able) ==
    LET interactive == mode = "suggestions"
    IN  IF KeptInside(e) \/ (interactive /\ IsDir(e) /\ Conditional(e) /\ ~OldByItself(e))
        THEN Skip /\ UNCHANGED <<errors, faults>>
        ELSE IF interactive /\ FileIsUnfit(e)
        THEN /\ Row(e, "blocked")
             /\ UNCHANGED <<deferred, measuring, hints, look, opened, errors, faults>>
        ELSE \E l \in IF Quiet(e) THEN Looks(able) ELSE {look} :
             LET blocked == IF Quiet(e) THEN Reason(e, l) ELSE "no"
                 spent == faults' = faults + One(Fails(l))
             IN  /\ look' = l
                 /\ IF IsDir(e) /\ (~Quiet(e) \/ blocked # "no")
                    THEN /\ IF interactive
                            THEN /\ Row(e, IF Quiet(e) THEN blocked ELSE "blocked")
                                 /\ UNCHANGED deferred
                            ELSE /\ Row(e, "provisional")
                                 /\ deferred' = Append(deferred,
                                        [e |-> e, quiet |-> Quiet(e), blocked |-> blocked])
                         /\ spent /\ UNCHANGED <<measuring, hints, opened, errors>>
                    ELSE IF interactive /\ IsDir(e) /\ e \in hints /\ Content(e) = "recent"
                    THEN /\ Row(e, "blocked") /\ spent
                         /\ UNCHANGED <<deferred, measuring, hints, opened, errors>>
                    ELSE /\ hints' = IF interactive /\ IsDir(e) THEN hints \ {e} ELSE hints
                         /\ Review(e, blocked, Quiet(e), FALSE, able, l)
                         /\ UNCHANGED deferred

\* Artifacts whose name says so are boundaries without evidence of their owner too.
Boundary(e, classify) ==
    /\ classify /\ e # Root
    /\ \/ is[e].evidence = "error" /\ Named(e)
       \/ is[e].evidence = "none" /\ Named(e) /\ ~Conditional(e)
RecentBoundary(e, classify) ==
    classify /\ IsDir(e) /\ e # Root /\ Named(e) /\ ~Conditional(e) /\ ~OldByItself(e)

\* Faulty on purpose: a frontier that is full takes no more.
DescendWhileRoom(e, lane, depth, classify, f, able) ==
    IF ~IsDir(e) \/ Len(f) >= Frontier THEN frontier' = f /\ UNCHANGED <<errors, faults, opened>>
    ELSE IF depth >= MaxDepth \/ ~able
    THEN /\ frontier' = f /\ errors' = TRUE
         /\ faults' = faults + (IF able THEN 0 ELSE 1)
         /\ UNCHANGED opened
    ELSE /\ frontier' = Append(f, [e |-> e, lane |-> lane, depth |-> depth,
                                   unread |-> Children(e), classify |-> classify])
         /\ opened' = opened \cup {e} /\ UNCHANGED <<errors, faults>>

\* A folder that is no artifact joins the frontier, at the front once it is wide.
\* f is the frontier without what was read.
Descend(e, lane, depth, classify, f, able) ==
    IF ~IsDir(e) THEN frontier' = f /\ UNCHANGED <<errors, faults, opened>>
    ELSE IF depth >= MaxDepth \/ ~able
    THEN /\ frontier' = f /\ errors' = TRUE
         /\ faults' = faults + (IF able THEN 0 ELSE 1)
         /\ UNCHANGED opened
    ELSE LET folder == [e |-> e, lane |-> lane, depth |-> depth, unread |-> Children(e),
                        classify |-> classify /\ ~(e # Root /\ is[e].evidence = "error")
                                              /\ ~Boundary(e, classify)]
         IN  /\ frontier' = IF Len(f) < Frontier THEN Append(f, folder) ELSE <<folder>> \o f
             /\ opened' = opened \cup {e}
             /\ UNCHANGED <<errors, faults>>

\* The body of the loop from the tally on, for an entry that was not deferred.
Visit(e, lane, depth, classify, f, able) ==
    /\ Count(e)
    /\ LET skipped == KeptAround(e) \/ Barred(e)
           bounded == mode = "suggestions"
                      /\ (RecentBoundary(e, classify) \/ Boundary(e, classify))
       IN  IF skipped \/ bounded
           THEN frontier' = f /\ Skip /\ UNCHANGED <<errors, faults>>
           ELSE IF classify /\ Found(e)
           THEN frontier' = f /\ Artifact(e, able)
           ELSE Descend(e, lane, depth, classify, f, able)
                /\ UNCHANGED <<deferred, measuring, hints, look, rows>>

-----------------------------------------------------------------------------
(* A step of the discovery                                                 *)

Ables == IF faults < MaxFaults THEN BOOLEAN ELSE {TRUE}
DiscoveryIsNext == outcome = "scanning" /\ ~MeasurementIsNext
TakesDeferred == deferred # <<>> /\ (Len(deferred) = DeferMax \/ (next = <<>> /\ frontier = <<>>))

\* A deferred artifact is looked at again, and measured though it cannot be suggested.
VisitDeferred ==
    /\ DiscoveryIsNext /\ TakesDeferred
    /\ deferred' = Tail(deferred) /\ turn' = TRUE
    /\ LET job == Head(deferred)
       IN  IF ~EvidenceHolds(job.e)
           THEN /\ Row(job.e, "blocked") /\ errors' = TRUE
                /\ UNCHANGED <<measuring, opened, faults>>
           ELSE \E able \in Ables : Review(job.e, job.blocked, job.quiet, TRUE, able, look)
    /\ UNCHANGED <<world, next, frontier, laneTurn, hints, look, outcome, tallied, waited, noted>>

VisitStart ==
    /\ DiscoveryIsNext /\ ~TakesDeferred /\ next # <<>>
    /\ next' = Tail(next) /\ turn' = TRUE
    /\ \E able \in Ables : Visit(Head(next).e, Head(next).lane, 0, TRUE, frontier, able)
    /\ UNCHANGED <<world, laneTurn, outcome, waited, noted>>

\* The lane whose turn it is, of those that have a folder open.
Ready == {frontier[i].lane : i \in DOMAIN frontier}
Behind(l) == (l + Len(scope.starts) - laneTurn) % Len(scope.starts)
LaneInTurn == CHOOSE l \in Ready : \A o \in Ready : Behind(l) <= Behind(o)
\* Faulty on purpose: the lane in front goes on.
LaneInFront == frontier[1].lane
Rotated ==
    LET i == CHOOSE j \in DOMAIN frontier :
                frontier[j].lane = LaneInTurn /\ \A k \in 1..(j - 1) : frontier[k].lane # LaneInTurn
    IN  IF scope.logical
        THEN SubSeq(frontier, i, Len(frontier)) \o SubSeq(frontier, 1, i - 1) ELSE frontier
TakeTurns ==
    IF scope.logical
    THEN LET lane == Head(Rotated).lane
         IN  /\ laneTurn' = (lane % Len(scope.starts)) + 1
             /\ waited' = [l \in Lanes |->
                   IF l = lane \/ l \notin Ready THEN 0 ELSE waited[l] + 1]
    ELSE UNCHANGED <<laneTurn, waited>>

FolderIsNext == DiscoveryIsNext /\ ~TakesDeferred /\ next = <<>> /\ frontier # <<>>

\* The next entry of the folder in front; what is kept is not opened for it.
VisitEntry ==
    /\ FolderIsNext /\ TakeTurns
    /\ LET here == Head(Rotated)
       IN  \E e \in here.unread, able \in Ables :
             Visit(e, here.lane, here.depth + 1, here.classify,
                   <<[here EXCEPT !.unread = @ \ {e}]>> \o Tail(Rotated), able)
    /\ turn' = TRUE
    /\ UNCHANGED <<world, next, outcome, noted>>

\* A folder that cannot be opened from the one it is in.
MissEntry ==
    /\ FolderIsNext /\ TakeTurns /\ faults < MaxFaults
    /\ LET here == Head(Rotated)
       IN  \E e \in here.unread :
             /\ IsDir(e) /\ ~KeptAround(e) /\ Count(e)
             /\ frontier' = <<[here EXCEPT !.unread = @ \ {e}]>> \o Tail(Rotated)
    /\ errors' = TRUE /\ faults' = faults + 1 /\ turn' = TRUE
    /\ UNCHANGED <<world, next, deferred, measuring, hints, look, rows, outcome, opened, noted>>

\* The folder has been listed to its end, or cannot be.
LeaveFolder(intact) ==
    /\ FolderIsNext /\ TakeTurns
    /\ intact => Head(Rotated).unread = {}
    /\ ~intact => faults < MaxFaults
    /\ frontier' = Tail(Rotated)
    /\ errors' = (errors \/ ~intact)
    /\ faults' = faults + (IF intact THEN 0 ELSE 1)
    /\ turn' = TRUE
    /\ UNCHANGED <<world, next, deferred, measuring, hints, look, rows, outcome, opened, tallied,
                   noted>>

\* The loop ends when nothing is left, or when it is cancelled, which can also end
\* the measurement at hand.
End ==
    /\ DiscoveryIsNext /\ DiscoveryDone
    /\ outcome' = IF errors THEN "partial" ELSE "complete"
    /\ UNCHANGED <<world, queues, hints, look, rows, errors, faults, history>>
Cancel ==
    /\ outcome = "scanning"
    /\ outcome' = "cancelled"
    /\ \/ UNCHANGED rows
       \/ MeasurementIsNext /\ Row(Head(measuring).e, "blocked")
    /\ UNCHANGED <<world, queues, hints, look, errors, faults, history>>

\* Another program touches an artifact that waits for its last look.  The evidence is
\* read at the end; work in it shows when no older look is kept, and what is written
\* in it when the measurement has not been there yet.
Waiting == {deferred[i].e : i \in DOMAIN deferred} \cup {measuring[i].e : i \in DOMAIN measuring}
Shows(e, how) ==
    \/ how = "evidence"
    \/ how = "busy" /\ look = <<>>
    \/ how = "content"
       /\ \A i \in DOMAIN measuring : measuring[i].e = e => measuring[i].seen = "nothing"
Change(e, how) ==
    /\ outcome = "scanning" /\ faults < MaxFaults
    /\ changed[e] = "no"
    /\ changed' = [changed EXCEPT ![e] = how] /\ faults' = faults + 1
    /\ noted' = noted \cup {x \in {e} : Shows(e, how)}
    /\ UNCHANGED <<is, kept, scope, mode, queues, hints, look, rows, errors, outcome, opened,
                   tallied, waited>>

\* SCAN_ACTIVITY_MAX_AGE has passed since the look: the next one sees who has come.
Expire ==
    /\ outcome = "scanning" /\ look # <<>>
    /\ look' = <<>>
    /\ noted' = noted \cup {e \in Waiting : changed[e] = "busy"}
    /\ UNCHANGED <<world, queues, hints, rows, errors, outcome, faults, opened, tallied, waited>>

BeginSomewhere ==
    /\ outcome = "idle"
    /\ \E i \in Worlds, s \in Scopes, m \in {"suggestions", "metadata"}, k \in Keeps :
          \E gone, bad \in SUBSET DOMAIN s.starts, h \in {{}, Entries} :
             /\ h # {} => m = "suggestions" /\ ~s.exact
             /\ gone \cap bad = {} /\ Cardinality(gone \cup bad) <= MaxFaults
             /\ Begin(i, k, s, m, h, gone, bad)

Next ==
    \/ BeginSomewhere
    \/ Measure \/ VisitDeferred \/ VisitStart \/ VisitEntry \/ MissEntry
    \/ \E intact \in BOOLEAN : LeaveFolder(intact)
    \/ End \/ Cancel
    \/ \E e \in Waiting, how \in {"evidence", "busy", "content"} : Change(e, how)
    \/ Expire

Spec == Init /\ [][Next]_vars

-----------------------------------------------------------------------------
(* Properties                                                              *)

\* What a scan should find, whatever the order of its steps: a quiet artifact that
\* nobody uses, under one of the starts and in nothing but ordinary folders.
Ordinary(d) ==
    /\ IsDir(d) /\ ~Barred(d)
    /\ d = Root \/ (is[d].evidence = "none" /\ (Named(d) => Conditional(d)))
    /\ ~(d # Root /\ is[d].evidence = "error")
Due(e, start) ==
    /\ start \in UpTo[e] /\ Found(e) /\ ~Barred(e)
    /\ \A d \in UpTo[e] \ {e} : d \in UpTo[start] \ {start} \/ Ordinary(d)
    /\ ~KeptAround(e) /\ ~KeptInside(e)
    /\ Quiet(e) /\ ~is[e].busy /\ ~is[e].tracked /\ is[e].content = "good"

\* A scan that says it is complete has offered every artifact that is due and was left
\* alone, unless a look at the processes failed; no scan offers one that was not due
\* when it was found.
CompleteIsAll ==
    /\ outcome = "complete" => \A l \in Lanes \ scope.gone, e \in Entries :
          Due(e, scope.starts[l]) /\ changed[e] = "no" => rows[e] \in {"eligible", "withheld"}
    /\ \A e \in Entries : rows[e] = "eligible" =>
          (\E l \in Lanes : Due(e, scope.starts[l]))

\* An artifact is not offered after its evidence has changed, after it came into use
\* and the look at the processes grew too old, or after something was written where
\* its measurement had not been.
OfferedAsFound == \A e \in noted : rows[e] # "eligible"

\* Unless a scan is cancelled, no row stays provisional, and in a scan of everything
\* each entry was counted once.
NothingLeftOpen ==
    /\ outcome \in {"complete", "partial"} => \A e \in Entries : rows[e] # "provisional"
    /\ \A e \in Entries : tallied[e] <= 1

\* Nothing that is kept is opened, and no artifact is measured around it.
KeptIsLeftAlone ==
    \A e \in opened : ~KeptAround(e) /\ (rows[e] # "none" => ~KeptInside(e))

\* A lane with a folder open is not passed over for more than a round.
LanesTakeTurns == scope.logical => \A l \in DOMAIN waited : waited[l] < Len(scope.starts)

\* Two measurements and so many deferred artifacts at most.
QueuesAreBounded == Len(measuring) <= ActiveMax /\ Len(deferred) <= DeferMax

=============================================================================
