------------------------------ MODULE ManagedReview ------------------------------
(***************************************************************************)
(* What the tools that own a cache say of it (core/src/managed_providers.rs,  *)
(* core/src/editor_review.rs, the managed_review requests of core/src/lib.rs, *)
(* native/Chippytea/ManagedStorageView.swift and EngineBridge.swift): the     *)
(* user asks for one review at a time and may stop it or leave; the engine   *)
(* runs the tool's commands and judges their output.  The review of an       *)
(* editor is a process of this program's own that reads, while extensions    *)
(* come and go, the list of those to be removed and each one's package.      *)
(*                                                                         *)
(* Requests are numbered.  What probe.rs and docker_read.rs do is one step.   *)
(***************************************************************************)
EXTENDS Naturals, Sequences, FiniteSets, SequencesExt

CONSTANTS
    None,
    Wanted,            \* Wanted[n]: the providers that the n-th request may be for, bounds
                       \* how often the user asks
    Outputs,           \* Outputs[p][n]: what the n-th command of p may print
    Worlds, Lists,     \* what may be installed, and lists that may be written
    MaxObservations,   \* MAX_OBSERVATIONS
    MaxRecords,        \* MAX_RECORDS
    Word,              \* the largest number of a word
    MaxChanges         \* bounds what the editor does during a review

VARIABLES
    view,              \* ManagedStorageView
    asked,             \* the provider of each request that was made
    tasks,             \* requests that the bridge was not asked for yet
    bridge,            \* if it dispatched a request that has not ended, and which one waits
    controls,          \* its queue of cancellations
    replies,           \* what the view was not told yet
    slot,              \* ManagedReviewState
    flags,             \* requests whose flag is set
    pc, said,          \* the review that runs, and what its commands printed
    review,            \* the one that ended
    installed,         \* external: the candidates of the tool, and the environment
    root, list, folder, changes,   \* external: the editor's folder
    helper,            \* the process that reads it
    stopped, heard     \* what the user stopped, and the cancellations as they came

native == <<view, asked, tasks, bridge, controls, replies, stopped, heard>>
editor == <<root, list, folder, changes>>
world == <<installed, editor>>
vars == <<native, slot, flags, pc, said, review, installed, editor, helper>>

-----------------------------------------------------------------------------
(* The view and the bridge                                                 *)

NoView == [token |-> None, loading |-> FALSE, cancelling |-> None, shown |-> None]
Init ==
    /\ view = NoView /\ asked = <<>> /\ tasks = {} /\ bridge = [running |-> FALSE, queued |-> None]
    /\ controls = <<>> /\ replies = {} /\ stopped = {} /\ heard = <<>>
    /\ slot = [active |-> None, cancelled |-> None] /\ flags = {}
    /\ pc = "idle" /\ said = <<>> /\ review = None /\ helper = None
    /\ changes = 0
    /\ \E w \in Worlds :
          installed = w.installed /\ root = w.root /\ list = w.list /\ folder = w.folder

engine == <<slot, flags, pc, said, review, helper, world>>
\* requestReview: its identifier is a fresh one.
Ask(p) ==
    /\ ~view.loading /\ view.cancelling = None /\ Len(asked) < Len(Wanted)
    /\ p \in Wanted[Len(asked) + 1]
    /\ asked' = Append(asked, p) /\ tasks' = tasks \cup {Len(asked')}
    /\ view' = [NoView EXCEPT !.token = Len(asked'), !.loading = TRUE]
    /\ UNCHANGED <<bridge, controls, replies, stopped, heard, engine>>

Cancelling == view.loading /\ view.cancelling = None
CancelReview ==
    /\ controls' = Append(controls, view.token) /\ stopped' = stopped \cup {view.token}
Stop ==
    /\ Cancelling /\ CancelReview
    /\ view' = [view EXCEPT !.token = None, !.cancelling = view.token]
    /\ UNCHANGED <<asked, tasks, bridge, replies, heard, engine>>
\* The view goes, and another one comes.
Leave ==
    /\ view # NoView /\ view' = NoView
    /\ IF Cancelling THEN CancelReview ELSE UNCHANGED <<controls, stopped>>
    /\ UNCHANGED <<asked, tasks, bridge, replies, heard, engine>>
Stopped ==
    /\ view.cancelling \in Range(heard)
    /\ view' = [view EXCEPT !.loading = FALSE, !.cancelling = None]
    /\ UNCHANGED <<asked, tasks, bridge, controls, replies, stopped, heard, engine>>

Reply(r, what) == replies' = replies \cup {[of |-> r, provider |-> what]}
\* reviewManagedProvider: one request is dispatched at a time.
Admit(r) ==
    /\ tasks' = tasks \ {r}
    /\ IF bridge.running THEN Reply(r, None) /\ UNCHANGED bridge
       ELSE bridge' = [running |-> TRUE, queued |-> r] /\ UNCHANGED replies
    /\ UNCHANGED <<view, asked, controls, stopped, heard, engine>>
Release ==
    /\ pc = "release" /\ pc' = "idle" /\ bridge' = [bridge EXCEPT !.running = FALSE]
    /\ review' = None
    /\ UNCHANGED <<view, asked, tasks, controls, replies, stopped, heard, slot, flags, said,
                   helper, world>>
\* Faulty on purpose: whatever comes is shown.
ShowAny(reply) == view' = [view EXCEPT !.loading = FALSE, !.shown = reply]
Show(reply) ==
    IF view.token = reply.of
    THEN view' = [view EXCEPT !.loading = FALSE, !.shown = reply]
    ELSE UNCHANGED view
Deliver ==
    /\ \E reply \in replies : replies' = replies \ {reply} /\ Show(reply)
    /\ UNCHANGED <<asked, tasks, bridge, controls, stopped, heard, engine>>

-----------------------------------------------------------------------------
(* The requests                                                            *)

\* cancel_managed_review
Control ==
    /\ controls # <<>> /\ controls' = Tail(controls) /\ heard' = Append(heard, Head(controls))
    /\ slot' = [slot EXCEPT !.cancelled = Head(controls)]
    /\ flags' = IF slot.active = Head(controls) THEN flags \cup {Head(controls)} ELSE flags
    /\ UNCHANGED <<view, asked, tasks, bridge, replies, stopped, pc, said, review,
                   helper, world>>
\* managed_review
Arrive ==
    /\ bridge.queued # None /\ bridge' = [bridge EXCEPT !.queued = None]
    /\ IF slot.active # None \/ slot.cancelled = bridge.queued
       THEN Reply(bridge.queued, None) /\ pc' = "release" /\ UNCHANGED slot
       ELSE /\ slot' = [slot EXCEPT !.active = bridge.queued] /\ pc' = "resolve"
            /\ UNCHANGED replies
    /\ UNCHANGED <<view, asked, tasks, controls, stopped, heard, flags, said, review,
                   helper, world>>

Provider == asked[slot.active]
\* ManagedReviewGuard, and what the bridge is told.
End(result) ==
    /\ review' = result /\ said' = <<>> /\ pc' = "release"
    /\ slot' = [slot EXCEPT !.active = None]
    /\ Reply(slot.active, result.provider)
    /\ UNCHANGED <<view, asked, tasks, bridge, controls, stopped, heard, flags, world>>
Go(to) ==
    /\ pc' = to /\ UNCHANGED <<native, slot, flags, said, review, world>>

Result(state, all, bytes, records) ==
    [provider |-> Provider, state |-> state, said |-> all, bytes |-> bytes, records |-> records]
Unknown(all) == Result("unknown", all, 0, <<>>)

\* resolve_candidate
Trusted(c) == c.inside /\ c.named /\ c.executable /\ ~c.writable /\ c.owner # "other"
\* resolve_installed takes the first one that may be trusted; storage_environment takes all
\* settings as they are, or none of them.
Preserved ==
    LET lower == installed.lower
        upper == installed.upper
    IN  /\ "bad" \notin {lower, upper}
        /\ (Provider = "pnpm" /\ "unset" \notin {lower, upper}) => lower = upper
Resolve ==
    /\ pc = "resolve" /\ UNCHANGED helper
    /\ IF (\E n \in DOMAIN installed.tool : Trusted(installed.tool[n])) /\ Preserved THEN Go("run")
       ELSE End(Unknown(<<>>))

-----------------------------------------------------------------------------
(* The commands and what they mean                                         *)

Output(ok, says) == [ok |-> ok, says |-> says]
Failure == Output(FALSE, None)

\* parse_homebrew: the lines it takes, and the sum of those that name a size.
Lines(says) == SubSeq(says, 1, IF Len(says) < MaxObservations THEN Len(says) ELSE MaxObservations)
Sized(says) == SelectSeq(Lines(says), LAMBDA l : l.remove /\ l.size # None)
Add(total, l) == IF total + l.size <= Word THEN total + l.size ELSE total
Total(says) == FoldLeft(Add, 0, Sized(says))
Overflows(says) ==
    \E n \in DOMAIN Sized(says) :
        FoldLeft(Add, 0, SubSeq(Sized(says), 1, n - 1)) + Sized(says)[n].size > Word
PartlyRead(says) ==
    \/ Len(says) > MaxObservations \/ Overflows(says)
    \/ \E n \in DOMAIN Lines(says) : says[n].remove /\ says[n].size = None
Homebrew(all) ==
    Result(IF PartlyRead(all[1].says) THEN "partial" ELSE "complete", all, Total(all[1].says), <<>>)

Good(all, n) == n \in DOMAIN all /\ all[n].ok
\* review_homebrew, review_uv, review_pnpm, review_docker_installed and review_editor
Judge(all) ==
    CASE ~Good(all, 1) -> Unknown(all)
      [] Provider = "homebrew" -> Homebrew(all)
      [] Provider = "uv" -> IF all[1].says = "path" THEN Result("partial", all, 0, <<>>) ELSE Unknown(all)
      [] Provider = "pnpm" ->
            IF all[1].says # "path" THEN Unknown(all)
            ELSE Result(IF Good(all, 2) THEN "complete" ELSE "partial", all, 0, <<>>)
      [] Provider = "docker" ->
            IF all[1].says = "owned socket" /\ Good(all, 2)
            THEN Result("complete", all, all[2].says, <<>>) ELSE Unknown(all)
      [] Provider = "editor" ->
            LET report == all[1].says
            IN  Result(IF ~report.complete /\ report.records = <<>> THEN "unknown" ELSE "partial",
                       all, 0, report.records)
\* What is enough to judge.
More(all) ==
    /\ Len(all) = 1 /\ all[1].ok
    /\ \/ Provider = "pnpm" /\ all[1].says = "path"
       \/ Provider = "docker" /\ all[1].says = "owned socket"
Take(output) ==
    /\ helper' = None
    /\ IF More(Append(said, output))
       THEN /\ said' = Append(said, output) /\ pc' = "run"
            /\ UNCHANGED <<native, slot, flags, review, world>>
       ELSE End(Judge(Append(said, output)))

\* InstalledRunner::run, and build_cache: not if the flag is set.
NoHelper == [at |-> "root", root |-> None, left |-> <<>>, before |-> None, says |-> None,
             from |-> None, records |-> <<>>, reason |-> FALSE, clear |-> FALSE]
Run ==
    /\ pc = "run"
    /\ IF slot.active \in flags THEN Take(Failure)
       ELSE Go("running") /\ helper' = IF Provider = "editor" THEN NoHelper ELSE None
\* It fails too when it takes too long, prints too much, or is cancelled.
Printed ==
    /\ pc = "running"
    /\ \/ Take(Failure)
       \/ /\ Provider # "editor"
          /\ \E output \in Outputs[Provider][Len(said) + 1] : Take(output)

-----------------------------------------------------------------------------
(* External: the editor and the package manager of its extensions          *)

Change ==
    /\ pc = "running" /\ helper # None /\ changes < MaxChanges
    /\ changes' = changes + 1
Version == changes + 1
\* Its process must not be told what the check wants to know of all moments.
Marked(l) == IF l = None THEN <<>> ELSE SelectSeq(l.marks, LAMBDA m : m.obsolete)
Seen(l) == helper' = [helper EXCEPT !.clear = @ \/ Marked(l) = <<>>]
Other ==
    /\ Change
    /\ \/ /\ root # None /\ \E l \in Lists \ {list} : list' = l /\ Seen(l)
          /\ root' = Version /\ UNCHANGED folder
       \/ /\ root # None
          /\ \E n \in DOMAIN folder :
                \/ \E f \in {None} \cup {[version |-> Version, is |-> i, package |-> p] :
                                           i \in {"folder", "link"}, p \in {n, "bad", "other"}} :
                      folder' = [folder EXCEPT ![n] = f] /\ root' = Version
                \/ /\ folder[n] # None /\ UNCHANGED root
                   /\ \E p \in {"none", n, "other"}, v \in {folder[n].version, Version} :
                         folder' = [folder EXCEPT ![n].package = p, ![n].version = v]
          /\ UNCHANGED <<list, helper>>
    /\ UNCHANGED <<native, slot, flags, pc, said, review, installed>>

-----------------------------------------------------------------------------
(* inspect                                                                 *)

Helper(at) == pc = "running" /\ helper # None /\ helper.at = at
Step(h) == helper' = h /\ UNCHANGED <<native, slot, flags, pc, said, review, world>>
Report(records, complete) ==
    Take(Output(TRUE, [records |-> records, complete |-> complete, clear |-> helper.clear]))
At(to) == [helper EXCEPT !.at = to]

LookAtRoot ==
    /\ Helper("root")
    /\ IF root = None THEN Take(Output(TRUE, [records |-> <<>>, complete |-> TRUE, clear |-> TRUE]))
       ELSE Step([At("list") EXCEPT !.root = root, !.clear = Marked(list) = <<>>])
LookForList ==
    /\ Helper("list")
    /\ Step(At(IF list = None THEN "missing" ELSE "read"))
Missing == Helper("missing") /\ Report(<<>>, root = helper.root)
ReadList ==
    /\ Helper("read")
    /\ IF list = None THEN Take(Failure)
       ELSE IF ~list.valid THEN Report(<<>>, FALSE)
       ELSE Step([At("marker") EXCEPT !.left = Marked(list)])

Skip == Step([At("marker") EXCEPT !.left = Tail(@), !.reason = TRUE])
Marker ==
    /\ Helper("marker") /\ helper.left # <<>>
    /\ LET name == Head(helper.left).name
       IN  IF Len(helper.records) = MaxRecords \/ name \notin DOMAIN folder THEN Skip
           ELSE IF folder[name] = None THEN Skip
           ELSE IF folder[name].is # "folder" THEN Skip
           ELSE Step([At("package") EXCEPT !.before = folder[name].version])
Package ==
    /\ Helper("package")
    /\ LET f == folder[Head(helper.left).name]
       IN  IF f = None THEN Take(Failure)
           ELSE IF f.is # "folder" \/ f.package = "none" THEN Take(Failure)
           ELSE IF f.package = "bad" THEN Skip
           ELSE Step([At("after") EXCEPT !.says = f.package, !.from = f.version])
\* Faulty on purpose: what came of the folder meanwhile does not matter.
AnyFolder(name) == helper.says = name
SameFolder(name) ==
    /\ folder[name] # None /\ folder[name].version = helper.before
    /\ helper.says = name
After ==
    /\ Helper("after")
    /\ LET name == Head(helper.left).name
       IN  IF ~SameFolder(name) THEN Skip
           ELSE Step([At("marker") EXCEPT
                        !.left = Tail(@),
                        !.records = Append(@, [marker |-> name, says |-> helper.says,
                                               before |-> helper.before, from |-> helper.from])])
Finish ==
    /\ Helper("marker") /\ helper.left = <<>>
    /\ Report(helper.records, ~helper.reason /\ root = helper.root /\ helper.records = <<>>)

Inspect ==
    \/ LookAtRoot \/ LookForList \/ Missing \/ ReadList \/ Marker \/ Package \/ After \/ Finish

Next ==
    \/ \E p \in UNION Range(Wanted) : Ask(p)
    \/ Stop \/ Leave \/ Stopped \/ Release \/ Deliver \/ Control \/ Arrive \/ Resolve \/ Run
    \/ Printed \/ Other \/ Inspect
    \/ \E r \in tasks : Admit(r)

Spec == Init /\ [][Next]_vars

(***************************************************************************)
(* Properties                                                              *)
(***************************************************************************)

\* A review that the user stopped is not shown, however late it ends, nor is one of
\* another tool than was asked for (publicationToken).
StoppedIsNotShown ==
    view.shown # None =>
        /\ view.shown.of \notin stopped
        /\ view.shown.provider # None => view.shown.provider = asked[view.shown.of]

\* Who stops a review stops no other (cancel_managed_review).
StopIsForOne == flags \subseteq stopped

\* Once the latest word to stop has reached the engine, its review begins no further
\* command, if it came before the review did, too.
StoppedRunsNoMore ==
    (pc = "run" /\ pc' = "running") =>
        /\ heard = <<>> \/ Last(heard) # slot.active
        /\ slot.active \notin flags

Of(p) == review # None /\ review.provider = p /\ Good(review.said, 1)
Named(says) == SelectSeq(says, LAMBDA l : l.remove /\ l.size # None)
TrueSum(says) == FoldLeft(LAMBDA n, l : n + l.size, 0, Named(says))
\* Complete evidence is that of commands that all succeeded, and every line of theirs is
\* counted.
CompleteIsEarned ==
    review # None /\ review.state = "complete" =>
        /\ \A n \in DOMAIN review.said : review.said[n].ok
        /\ Len(review.said) = IF review.provider = "homebrew" THEN 1 ELSE 2
        /\ review.provider = "homebrew" =>
              /\ review.bytes = TrueSum(review.said[1].says)
              /\ \A n \in DOMAIN review.said[1].says :
                    review.said[1].says[n].remove => review.said[1].says[n].size # None

\* What is told of an extension is of one folder that stayed while it was looked at
\* (inspect, before and after).
RecordsAreOfOneFolder ==
    Of("editor") => \A n \in DOMAIN review.records :
        /\ review.records[n].from = review.records[n].before
        /\ review.records[n].says = review.records[n].marker
\* Nothing to report means that nothing was marked at some moment of the look.
CompleteMeansUnmarked ==
    Of("editor") => (review.said[1].says.complete => review.said[1].says.clear)

=============================================================================
