--------------------------- MODULE ForegroundScan ---------------------------
(***************************************************************************)
(* The finite scan a user watches (ForegroundRequest in core/src/lib.rs)    *)
(* over the background worker that serves it: who may report progress into  *)
(* it, when it is over, and when its summary is saved.                      *)
(*                                                                         *)
(* Each action is one section of the runtime lock.  Of a scope only this is *)
(* kept: its folder and whether it is the folder itself ("full", which a    *)
(* request waits for) or something inside ("part").                         *)
(***************************************************************************)
EXTENDS Naturals, FiniteSets

CONSTANTS Roots, ActiveScans, None,
          Requests,           \* the sets of folders that requests are made for
          Dirtied,            \* the scopes that events come in for
          MaxGenerations,     \* bounds how many requests are made
          MaxInterruptions    \* bounds how many cancels and cleanups there are

VARIABLES
    fg,                \* runtime.foreground, or None
    generation,        \* foreground_generation
    saved,             \* the summaries that reached the store, by generation
    worker,            \* "none", "running", or "draining" after a cancelled retire
    active,            \* the scope each folder's helper reads, or None
    pending,           \* pending_scopes
    stop,              \* stop_admissions
    cancel, paused, resumeCancelled,
    cancelling,        \* cancel_scan has set its flags and not yet the lock
    cleaning,          \* a mutation is admitted; the worker parks for it
    launches,          \* requests that have still to call launch_scan
    interruptions

flags == <<cancel, paused, resumeCancelled, cancelling, cleaning, interruptions>>
work == <<active, pending, stop>>
vars == <<fg, generation, saved, worker, work, flags, launches>>

Kinds == {"full", "part"}
Fresh == [started |-> FALSE, terminal |-> FALSE, complete |-> FALSE,
          cancelled |-> FALSE, failed |-> FALSE]
Part == [started : BOOLEAN, terminal : BOOLEAN, complete : BOOLEAN,
         cancelled : BOOLEAN, failed : BOOLEAN]

Request == [generation : 1..MaxGenerations,
            roots : UNION {[R -> Part] : R \in SUBSET Roots},
            active : BOOLEAN, attempted : BOOLEAN, complete : BOOLEAN,
            cancelled : BOOLEAN, failed : BOOLEAN]
Reader == [kind : Kinds, ticket : 0..MaxGenerations]

ScanAssumption ==
    /\ MaxGenerations \in Nat
    /\ Requests \subseteq SUBSET Roots /\ Dirtied \subseteq Roots \X Kinds
    /\ None \notin Request \cup Reader

\* The shape of a request and of the worker that serves it (lib.rs).
TypeOK ==
    /\ fg \in Request \cup {None} /\ generation \in 0..MaxGenerations
    /\ worker \in {"none", "running", "draining"}
    /\ active \in [Roots -> Reader \cup {None}]
    /\ pending \subseteq Roots \X Kinds
    /\ stop \in {"no", "changed", "failed"}
    /\ cancel \in BOOLEAN /\ paused \in BOOLEAN /\ resumeCancelled \in BOOLEAN
    /\ cancelling \in BOOLEAN /\ cleaning \in BOOLEAN
    /\ launches \subseteq {"explicit", "background"}

Init ==
    /\ fg = None /\ generation = 0 /\ saved = {}
    /\ worker = "none"
    /\ active = [r \in Roots |-> None] /\ pending = {} /\ stop = "no"
    /\ cancel = FALSE /\ paused = FALSE /\ resumeCancelled = FALSE
    /\ cancelling = FALSE /\ cleaning = FALSE /\ interruptions = 0
    /\ launches = {}

Scanning == worker # "none"
Reading == {r \in Roots : active[r] # None}

-----------------------------------------------------------------------------
(* ForegroundRequest                                                       *)

\* rebuild: the request is what its folders are.
Rebuilt(q) ==
    LET R == DOMAIN q.roots
        cancelled == \E r \in R : q.roots[r].cancelled
        failed == \E r \in R : q.roots[r].failed
    IN  [q EXCEPT
          !.active = \E r \in R : ~q.roots[r].terminal,
          !.cancelled = cancelled, !.failed = failed,
          !.complete = /\ \A r \in R : q.roots[r].terminal /\ q.roots[r].complete
                       /\ ~cancelled /\ ~failed]

New(R) ==
    Rebuilt([generation |-> generation + 1, roots |-> [r \in R |-> Fresh],
             active |-> TRUE, attempted |-> FALSE, complete |-> FALSE,
             cancelled |-> FALSE, failed |-> FALSE])

\* claim: a ticket for a folder that waits for its first reader, or no ticket.
Claims(q, s) ==
    /\ q # None /\ q.active /\ s[2] = "full"
    /\ s[1] \in DOMAIN q.roots
    /\ ~q.roots[s[1]].started /\ ~q.roots[s[1]].terminal
Claimed(q, s) == IF Claims(q, s) THEN [q EXCEPT !.roots[s[1]].started = TRUE] ELSE q

\* Faulty on purpose: any reader of the folder may report.
AcceptsAny(q, r, ticket) == q # None /\ q.active /\ r \in DOMAIN q.roots

Accepts(q, r, ticket) ==
    /\ q # None /\ q.active /\ q.generation = ticket
    /\ r \in DOMAIN q.roots /\ q.roots[r].started /\ ~q.roots[r].terminal

Ended(result) ==
    [started |-> TRUE, terminal |-> TRUE, complete |-> result = "complete",
     cancelled |-> result = "cancelled", failed |-> result = "failed"]

\* finish, for the accepted ticket of r; result is what the pass came to.
Finished(q, r, ticket, result) ==
    IF ~Accepts(q, r, ticket) THEN q
    ELSE Rebuilt([q EXCEPT !.roots[r] = Ended(result)])

Stopped(q, cancelled) ==
    IF q = None \/ ~q.active THEN q
    ELSE LET b == Rebuilt(q)
         IN  [b EXCEPT !.active = FALSE, !.complete = FALSE,
                       !.cancelled = @ \/ cancelled, !.failed = @ \/ ~cancelled]

Outcome(q) == [generation |-> q.generation, complete |-> q.complete,
               cancelled |-> q.cancelled, failed |-> q.failed]

\* Faulty on purpose: the summary of a request is written before it has ended.
PersistEarly(q) ==
    IF q # None /\ ~q.attempted
    THEN /\ fg' = [q EXCEPT !.attempted = TRUE]
         /\ saved' \in {saved, saved \cup {Outcome(q)}}
    ELSE fg' = q /\ UNCHANGED saved

\* persist_foreground_summary of q, which becomes the request; the write may fail.
Persist(q) ==
    IF q # None /\ ~q.active /\ ~q.attempted
    THEN /\ fg' = [q EXCEPT !.attempted = TRUE]
         /\ saved' \in {saved, saved \cup {Outcome(q)}}
    ELSE fg' = q /\ UNCHANGED saved

-----------------------------------------------------------------------------
(* Requests                                                                *)

\* "scan" of all folders or of one.  The request it replaces is saved first.
Scan(R) ==
    /\ generation < MaxGenerations
    /\ fg # None => ~fg.active
    /\ ~cleaning
    /\ LET before == IF fg # None /\ ~fg.attempted THEN {saved, saved \cup {Outcome(fg)}}
                     ELSE {saved}
           q == New(R)
       IN  \/ /\ pending' = pending \cup (R \X {"full"})
              /\ fg' = [q EXCEPT !.attempted = ~q.active]
              /\ saved' \in IF q.active THEN before
                            ELSE before \cup {b \cup {Outcome(q)} : b \in before}
              /\ resumeCancelled' = (Scanning /\ cancel) /\ paused' = FALSE
              /\ launches' = launches \cup {"explicit"}
           \/ /\ R # {}                               \* enqueue_scope fails
              /\ fg' = [Stopped(q, FALSE) EXCEPT !.attempted = TRUE]
              /\ saved' \in before \cup {b \cup {Outcome(Stopped(q, FALSE))} : b \in before}
              /\ UNCHANGED <<pending, resumeCancelled, paused, launches>>
    /\ generation' = generation + 1
    /\ UNCHANGED <<worker, active, stop, cancel, cancelling, cleaning, interruptions>>

Resume ==
    /\ resumeCancelled' = (Scanning /\ cancel)
    /\ paused' = FALSE
    /\ launches' = launches \cup {"explicit"}
    /\ UNCHANGED <<fg, generation, saved, worker, work, cancel, cancelling, cleaning,
                   interruptions>>

\* An event queues a scope; one for the folder itself is a full scope.
Dirty(s) ==
    /\ s \notin pending
    /\ pending' = pending \cup {s}
    /\ launches' = launches \cup {"background"}
    /\ UNCHANGED <<fg, generation, saved, worker, active, stop, flags>>

\* launch_scan.  Full scopes that are queued already become a request when there
\* is none, or when an explicit launch finds the last one over and no worker.
Launch(how) ==
    /\ how \in launches /\ launches' = launches \ {how}
    /\ LET full == {r \in Roots : <<r, "full">> \in pending}
           retry == how = "explicit" /\ ~Scanning /\ fg # None /\ ~fg.active
           promotes == ~paused /\ (fg = None \/ retry) /\ full # {}
                       /\ generation < MaxGenerations
           q == IF promotes THEN New(full) ELSE fg
       IN  /\ generation' = IF promotes THEN generation + 1 ELSE generation
           /\ IF ~paused /\ ~Scanning /\ ~cleaning /\ pending # {}
              THEN /\ stop' = "no" /\ cancel' = FALSE /\ resumeCancelled' = FALSE
                   /\ \/ worker' = "running" /\ fg' = q /\ UNCHANGED saved
                      \/ Persist(Stopped(q, FALSE)) /\ UNCHANGED worker   \* no thread
              ELSE fg' = q /\ UNCHANGED <<saved, worker, stop, cancel, resumeCancelled>>
    /\ UNCHANGED <<active, pending, paused, cancelling, cleaning, interruptions>>

\* cancel_scan: the flags, and then again under the lock.
Cancel ==
    /\ interruptions < MaxInterruptions /\ interruptions' = interruptions + 1
    /\ ~cancelling /\ cancelling' = TRUE
    /\ cancel' = TRUE /\ paused' = TRUE
    /\ UNCHANGED <<fg, generation, saved, worker, work, resumeCancelled, cleaning, launches>>

CancelLocked ==
    /\ cancelling /\ cancelling' = FALSE
    /\ cancel' = TRUE /\ paused' = TRUE /\ resumeCancelled' = FALSE
    /\ fg' = Stopped(fg, TRUE)
    /\ UNCHANGED <<generation, saved, worker, work, cleaning, interruptions, launches>>

\* begin_mutation and end_mutation; the worker retires what it reads in between.
BeginCleaning ==
    /\ ~cleaning /\ interruptions < MaxInterruptions
    /\ interruptions' = interruptions + 1
    /\ cleaning' = TRUE
    /\ UNCHANGED <<fg, generation, saved, worker, work, cancel, paused, resumeCancelled,
                   cancelling, launches>>

\* Faulty on purpose: nothing is launched after the cleanup.
EndCleaningQuietly ==
    /\ cleaning /\ Reading = {} /\ cleaning' = FALSE
    /\ UNCHANGED <<fg, generation, saved, worker, work, cancel, paused, resumeCancelled,
                   cancelling, interruptions, launches>>

EndCleaning ==
    /\ cleaning /\ Reading = {} /\ cleaning' = FALSE
    /\ launches' = launches \cup {"background"}
    /\ UNCHANGED <<fg, generation, saved, worker, work, cancel, paused, resumeCancelled,
                   cancelling, interruptions>>

-----------------------------------------------------------------------------
(* The worker                                                              *)

\* retire_isolated_scopes: every claim is queued again.
RetiredScopes == pending \cup {<<r, active[r].kind>> : r \in Reading}
\* The folders whose reader the request waits for: retired one by one, each still
\* finds the request active, and they do not touch each other.
Watching(q) == {r \in Reading : Accepts(q, r, active[r].ticket)}
RetireEach(q, ending) ==
    IF Watching(q) = {} THEN q
    ELSE Rebuilt([q EXCEPT !.roots =
            [r \in DOMAIN q.roots |-> IF r \in Watching(q) THEN ending ELSE q.roots[r]]])

RetireCancelled ==
    /\ worker = "running" /\ cancel
    /\ pending' = RetiredScopes /\ active' = [r \in Roots |-> None]
    /\ fg' = RetireEach(fg, Ended("cancelled"))
    /\ worker' = "draining"
    /\ UNCHANGED <<generation, saved, stop, flags, launches>>

\* A request that came meanwhile keeps the worker.
Drained ==
    /\ worker = "draining"
    /\ IF resumeCancelled /\ ~paused
       THEN /\ resumeCancelled' = FALSE /\ cancel' = FALSE /\ worker' = "running"
            /\ UNCHANGED <<fg, saved>>
       ELSE /\ Persist(Stopped(fg, TRUE)) /\ worker' = "none"
            /\ UNCHANGED <<resumeCancelled, cancel>>
    /\ UNCHANGED <<generation, work, paused, cancelling, cleaning, interruptions, launches>>

RetireForCleaning ==
    /\ worker = "running" /\ cleaning /\ ~cancel /\ Reading # {}
    /\ pending' = RetiredScopes /\ active' = [r \in Roots |-> None]
    /\ fg' = RetireEach(fg, Fresh)
    /\ UNCHANGED <<generation, saved, worker, stop, flags, launches>>

\* begin_isolated_scope: one reader per folder; the helper may not start, and
\* the claim may fail before there is one.
Admit(s) ==
    /\ worker = "running" /\ ~cancel /\ ~cleaning /\ stop = "no"
    /\ Cardinality(Reading) < ActiveScans
    /\ s \in pending /\ active[s[1]] = None
    /\ LET ticket == IF Claims(fg, s) THEN fg.generation ELSE 0
           q == Claimed(fg, s)
       IN  \/ /\ pending' = pending \ {s}
              /\ active' = [active EXCEPT ![s[1]] = [kind |-> s[2], ticket |-> ticket]]
              /\ fg' = q /\ UNCHANGED stop
           \/ /\ fg' = Finished(q, s[1], ticket, "failed") /\ stop' = "failed"
              /\ UNCHANGED <<pending, active>>
           \/ fg' = q /\ stop' = "failed" /\ UNCHANGED <<pending, active>>
    /\ UNCHANGED <<generation, saved, worker, flags, launches>>

MayPublish == worker = "running" /\ ~cancel /\ ~cleaning

\* A helper's terminal event: a complete or partial pass, a failure, or a folder
\* that changed, which only a watched scope counts as a failure.
ScopeEnds(r, result) ==
    /\ MayPublish /\ active[r] # None
    /\ LET watched == Accepts(fg, r, active[r].ticket)
           again == result \in {"failed", "changed"}
           q == Finished(fg, r, active[r].ticket,
                         IF result = "changed" THEN "failed" ELSE result)
       IN  /\ pending' = IF again THEN pending \cup {<<r, active[r].kind>>} ELSE pending
           /\ stop' = CASE result = "changed" /\ ~watched -> IF stop = "no" THEN "changed" ELSE stop
                        [] again -> "failed"
                        [] OTHER -> stop
           /\ IF stop' = "no" THEN Persist(q) ELSE fg' = q /\ UNCHANGED saved
    /\ active' = [active EXCEPT ![r] = None]
    /\ UNCHANGED <<generation, worker, flags, launches>>

\* Faulty on purpose: the worker ends and leaves the request as it is.
EmptyUnsettled ==
    /\ worker = "running" /\ ~cancel /\ ~cleaning
    /\ Reading = {} /\ (stop # "no" \/ pending = {})
    /\ worker' = "none" /\ stop' = "no"
    /\ UNCHANGED <<fg, generation, saved, active, pending, flags, launches>>

\* Nothing is being read: the worker ends, unless there is more to admit.
Empty ==
    /\ worker = "running" /\ ~cancel /\ ~cleaning
    /\ Reading = {} /\ (stop # "no" \/ pending = {})
    /\ Persist(Stopped(fg, FALSE))
    /\ worker' = "none" /\ stop' = "no"
    /\ UNCHANGED <<generation, active, pending, flags, launches>>

\* fail_worker: recovery queues what was claimed.
FailWorker ==
    /\ Scanning
    /\ pending' = RetiredScopes /\ active' = [r \in Roots |-> None]
    /\ stop' = "no" /\ resumeCancelled' = FALSE
    /\ Persist(Stopped(fg, FALSE))
    /\ worker' = "none"
    /\ UNCHANGED <<generation, cancel, paused, cancelling, cleaning, interruptions, launches>>

Ends(r) == \E result \in {"complete", "partial", "failed", "changed"} : ScopeEnds(r, result)
Settle == RetireCancelled \/ Drained \/ RetireForCleaning \/ Empty

Next ==
    \/ Settle \/ FailWorker
    \/ \E s \in Roots \X Kinds : Admit(s)
    \/ \E r \in Roots : Ends(r)
    \/ \E R \in Requests : Scan(R)
    \/ Resume \/ Cancel \/ CancelLocked \/ BeginCleaning \/ EndCleaning
    \/ \E s \in Dirtied : Dirty(s)
    \/ \E how \in launches : Launch(how)

Spec == Init /\ [][Next]_vars

\* The worker, launches and the second half of a cancel are running threads; a
\* reader ends by its deadline; scopes are taken in the order they were queued,
\* so that one that can be admitted again and again is.
Fairness ==
    /\ WF_vars(Settle) /\ WF_vars(CancelLocked) /\ WF_vars(EndCleaning)
    /\ \A how \in {"explicit", "background"} : WF_vars(Launch(how))
    /\ \A r \in Roots : WF_vars(Ends(r))
    /\ \A s \in Roots \X Kinds : SF_vars(Admit(s))
FairSpec == Spec /\ Fairness

-----------------------------------------------------------------------------
(* Properties                                                              *)

\* The step that completes a folder, seen from the reader that ends in it.
CompletedByItsReader ==
    \A r \in Roots :
        LET done(q) == q # None /\ r \in DOMAIN q.roots /\ q.roots[r].complete
        IN  done(fg') /\ ~(done(fg) /\ fg.generation = fg'.generation) =>
                /\ active[r] # None /\ active[r].kind = "full"
                /\ active[r].ticket = fg'.generation
                /\ <<r, "full">> \notin pending' \ pending

\* ForegroundRequest: a request that shows "Scan complete" had each of its folders
\* read to the end by a reader admitted for it; a late, failed, cancelled or
\* inner pass never completes it.
CompletionIsEarned == [][CompletedByItsReader]_vars

\* "scanning" is shown while a request is active: somebody is or will be there
\* to end it, so no request spins for ever.
ActiveIsServed ==
    fg # None /\ fg.active =>
        Scanning \/ launches # {} \/ cleaning \/ cancelling

\* persist_foreground_summary: "saved once per request", and what is saved is how
\* the request ended and stays.
SavedOnce ==
    /\ \A s, t \in saved : s.generation = t.generation => s = t
    /\ \A s \in saved : s.generation <= generation
    /\ fg # None => \A s \in saved :
           s.generation = fg.generation => ~fg.active /\ s = Outcome(fg)

\* A request over which a cancel, a cleanup or a failure came ends all the same.
RequestsEnd == (fg # None /\ fg.active) ~> (fg # None /\ ~fg.active)

=============================================================================
