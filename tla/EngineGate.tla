----------------------------- MODULE EngineGate -----------------------------
(***************************************************************************)
(* How requests, cancellation and the discovery worker of core/src/lib.rs  *)
(* exclude each other: the runtime and store mutexes, the atomic flags     *)
(* read outside them, and the condition variable pause_changed.            *)
(*                                                                         *)
(* A section that only needs the runtime lock is one step.  A section that *)
(* takes the store lock inside it first holds the runtime lock (TakeRuntime)*)
(* and runs once the store is free.  A thread in asleep waits on the       *)
(* condition variable; notify_all empties the set.  The parked mutex is    *)
(* never held across another wait, so what happens under it is one step.   *)
(***************************************************************************)
EXTENDS Naturals

CONSTANTS Callers,      \* threads that call into the engine
          Worker,       \* the discovery thread
          Nobody,
          ActiveScans,  \* scan_worker::ACTIVE_SCANS
          May           \* May[c]: what thread c asks for, a bound

ASSUME GateAssumption ==
    /\ Nobody \notin Callers \cup {Worker} /\ Worker \notin Callers
    /\ ActiveScans \in Nat \ {0}

VARIABLES
    runtime, store,       \* who holds each mutex
    asleep,               \* the threads waiting on pause_changed
    busy, scanning, cleaning, checking,
    cancel, scanPaused,
    pauseRequested,
    parked,
    resumeCancelled,      \* runtime.resume_cancelled_worker
    urgent,               \* discovery_urgency moved since the worker was acquired
    pending,              \* pending_scopes is not empty
    reading,              \* how many helpers the worker has
    outdated,             \* a helper's epoch is not the read epoch
    stop,                 \* the worker's stop_admissions
    gaveUp,               \* the last worker ended with a failure, leaving work
    at,                   \* where each caller is
    worker                \* where the worker is

locks == <<runtime, store, asleep>>
flags == <<busy, scanning, cleaning, checking>>
signals == <<cancel, scanPaused, pauseRequested, parked, resumeCancelled, urgent>>
work == <<pending, reading, outdated, stop, gaveUp>>
vars == <<locks, flags, signals, work, at, worker>>

Launches == {"launch-background", "launch-immediate", "launch-explicit"}
\* Sections of the runtime lock that take the store lock inside.
CallerSections == Launches \cup {"scan", "dirty", "snapshot", "unkeep"}
WorkerSections == {"recover", "retire-cancelled", "retire-paused", "admit",
                   "empty", "poll", "failing"}
CallerPlaces == CallerSections \cup
    {"idle", "fence", "waiting", "admitted", "mutating", "ending", "unpaused",
     "cancel", "cancel-paused", "cancel-locked", "checking", "querying",
     "comparing"}
WorkerPlaces == WorkerSections \cup
    {"none", "debounce", "dozing", "head", "look", "drained",
     "park-debounce", "parked-debounce", "park", "parked"}

LocksTyped ==
    /\ runtime \in Callers \cup {Worker, Nobody}
    /\ store \in Callers \cup {Nobody}
    /\ asleep \subseteq Callers \cup {Worker}
FlagsTyped ==
    /\ busy \in BOOLEAN /\ scanning \in BOOLEAN
    /\ cleaning \in BOOLEAN /\ checking \in BOOLEAN
SignalsTyped ==
    /\ cancel \in BOOLEAN /\ scanPaused \in BOOLEAN
    /\ pauseRequested \in BOOLEAN /\ parked \in BOOLEAN
    /\ resumeCancelled \in BOOLEAN /\ urgent \in BOOLEAN
WorkTyped ==
    /\ pending \in BOOLEAN /\ outdated \in BOOLEAN
    /\ stop \in BOOLEAN /\ gaveUp \in BOOLEAN
PlacesTyped == at \in [Callers -> CallerPlaces] /\ worker \in WorkerPlaces

\* The shape of the gate: locks, flags, and where every thread is (lib.rs).
TypeOK ==
    /\ LocksTyped /\ FlagsTyped /\ SignalsTyped /\ WorkTyped /\ PlacesTyped
    /\ reading \in 0..ActiveScans

Init ==
    /\ runtime = Nobody /\ store = Nobody /\ asleep = {}
    /\ busy = FALSE /\ scanning = FALSE /\ cleaning = FALSE /\ checking = FALSE
    /\ cancel = FALSE /\ scanPaused = FALSE /\ pauseRequested = FALSE
    /\ parked = FALSE /\ resumeCancelled = FALSE /\ urgent = FALSE
    /\ pending \in BOOLEAN           \* work a stopped program left behind
    /\ reading = 0 /\ outdated = FALSE /\ stop = FALSE /\ gaveUp = TRUE
    /\ at = [c \in Callers |-> "idle"]
    /\ worker = "none"

Goto(c, place) == at' = [at EXCEPT ![c] = place]
RuntimeFree == runtime = Nobody
Holds(t) == runtime = t /\ store = Nobody      \* runtime, and the store is free
Release == runtime' = Nobody /\ UNCHANGED store
NotifyAll == asleep' = {}
\* expedite_discovery: the predicate changes under the wait mutex.
Expedite == urgent' = TRUE /\ NotifyAll

-----------------------------------------------------------------------------
(* Taking the runtime lock for a section that needs the store as well      *)

TakeRuntime(c) ==
    /\ RuntimeFree /\ at[c] \in CallerSections
    /\ runtime' = c
    /\ UNCHANGED <<store, asleep, flags, signals, work, at, worker>>

WorkerTakesRuntime ==
    /\ RuntimeFree /\ worker \in WorkerSections
    /\ runtime' = Worker
    /\ UNCHANGED <<store, asleep, flags, signals, work, at, worker>>

-----------------------------------------------------------------------------
(* A mutation: execute or restore                                          *)

\* begin_mutation, under the runtime and the reviews lock.
Fence(c) ==
    /\ at[c] = "idle" /\ RuntimeFree
    /\ ~checking /\ ~cleaning
    /\ cleaning' = TRUE /\ busy' = TRUE /\ pauseRequested' = TRUE
    /\ outdated' = (reading > 0)
    /\ Goto(c, "fence")
    /\ UNCHANGED <<locks, scanning, checking, cancel, scanPaused, parked,
                   resumeCancelled, urgent, pending, reading, stop, gaveUp, worker>>

\* Its wait on the condition variable, after one notify_all.
AwaitParked(c) ==
    /\ \/ at[c] = "fence" /\ asleep' = IF parked \/ ~scanning THEN {} ELSE {c}
       \/ /\ at[c] = "waiting" /\ c \notin asleep
          /\ asleep' = IF parked \/ ~scanning THEN asleep ELSE asleep \cup {c}
    /\ Goto(c, IF parked \/ ~scanning THEN "admitted" ELSE "waiting")
    /\ UNCHANGED <<runtime, store, flags, signals, work, worker>>

\* The review is gone, or its items are cleaned with the store locked.
Mutate(c) ==
    /\ at[c] = "admitted"
    /\ \/ Goto(c, "ending") /\ UNCHANGED store
       \/ store = Nobody /\ store' = c /\ Goto(c, "mutating")
    /\ UNCHANGED <<runtime, asleep, flags, signals, work, worker>>

MutationDone(c) ==
    /\ at[c] = "mutating"
    /\ store' = Nobody
    /\ pending' = TRUE               \* every cleaned path was queued
    /\ Goto(c, "ending")
    /\ UNCHANGED <<runtime, asleep, flags, signals, reading, outdated, stop,
                   gaveUp, worker>>

\* Faulty on purpose: the worker is not woken.
EndWithoutNotify(c) ==
    /\ at[c] = "ending" /\ RuntimeFree
    /\ cleaning' = FALSE /\ busy' = scanning /\ pauseRequested' = FALSE
    /\ Goto(c, "launch-background")
    /\ UNCHANGED <<locks, scanning, checking, cancel, scanPaused, parked,
                   resumeCancelled, urgent, work, worker>>

\* Faulty on purpose: the worker is forgotten.
EndUnbusy(c) ==
    /\ at[c] = "ending" /\ RuntimeFree
    /\ cleaning' = FALSE /\ busy' = FALSE /\ pauseRequested' = FALSE
    /\ NotifyAll
    /\ Goto(c, "launch-background")
    /\ UNCHANGED <<runtime, store, scanning, checking, cancel, scanPaused,
                   parked, resumeCancelled, urgent, work, worker>>

\* end_mutation.
EndMutation(c) ==
    /\ at[c] = "ending" /\ RuntimeFree
    /\ cleaning' = FALSE /\ busy' = scanning /\ pauseRequested' = FALSE
    /\ NotifyAll
    /\ Goto(c, "launch-background")
    /\ UNCHANGED <<runtime, store, scanning, checking, cancel, scanPaused,
                   parked, resumeCancelled, urgent, work, worker>>

-----------------------------------------------------------------------------
(* Requests that queue work                                                *)

\* "scan" while a foreground scan is active only hurries the worker, and so
\* does "set_interactive".
Hurry(c) ==
    /\ at[c] = "idle"
    /\ Expedite
    /\ UNCHANGED <<runtime, store, flags, cancel, scanPaused, pauseRequested,
                   parked, resumeCancelled, work, at, worker>>

\* A caller decides what to ask; "scan" is refused during a file operation.
Ask(c, what) ==
    /\ at[c] = "idle"
    /\ Goto(c, what)
    /\ UNCHANGED <<locks, flags, signals, work, worker>>

\* Faulty on purpose: a worker that is being cancelled is not kept.
ScanWithoutResume(c) ==
    /\ at[c] = "scan" /\ Holds(c)
    /\ pending' = TRUE /\ scanPaused' = FALSE
    /\ Release /\ Goto(c, "launch-explicit")
    /\ UNCHANGED <<asleep, flags, cancel, pauseRequested, parked,
                   resumeCancelled, urgent, reading, outdated, stop, gaveUp, worker>>

Scan(c) ==
    /\ at[c] = "scan" /\ Holds(c)
    /\ IF cleaning \/ checking
       THEN /\ Goto(c, "idle")
            /\ UNCHANGED <<pending, resumeCancelled, scanPaused>>
       ELSE /\ pending' = TRUE
            /\ resumeCancelled' = (scanning /\ cancel)
            /\ scanPaused' = FALSE
            /\ Goto(c, "launch-explicit")
    /\ Release
    /\ UNCHANGED <<asleep, flags, cancel, pauseRequested, parked, urgent,
                   reading, outdated, stop, gaveUp, worker>>

Resume(c) ==
    /\ at[c] = "idle" /\ RuntimeFree
    /\ resumeCancelled' = (scanning /\ cancel)
    /\ scanPaused' = FALSE
    /\ Goto(c, "launch-explicit")
    /\ UNCHANGED <<locks, flags, cancel, pauseRequested, parked, urgent, work, worker>>

\* "dirty" and "reconcile_events".
Dirty(c) ==
    /\ at[c] = "dirty" /\ Holds(c)
    /\ pending' = TRUE
    /\ Release /\ Goto(c, "launch-background")
    /\ UNCHANGED <<asleep, flags, signals, reading, outdated, stop, gaveUp, worker>>

\* "unkeep": the preference is dropped under both locks, the pause is lifted
\* under none, and the path is queued with the store alone.
Unkeep(c) ==
    /\ at[c] = "unkeep" /\ Holds(c)
    /\ Release /\ Goto(c, "unpaused")
    /\ UNCHANGED <<asleep, flags, signals, work, worker>>

UnkeepQueues(c) ==
    /\ at[c] = "unpaused" /\ store = Nobody
    /\ scanPaused' = FALSE
    /\ pending' = TRUE
    /\ Goto(c, "launch-immediate")
    /\ UNCHANGED <<locks, flags, cancel, pauseRequested, parked,
                   resumeCancelled, urgent, reading, outdated, stop, gaveUp, worker>>

\* snapshot_update holds the runtime lock until it has the store.
Snapshot(c) ==
    /\ at[c] = "snapshot" /\ Holds(c)
    /\ Release /\ Goto(c, "idle")
    /\ UNCHANGED <<asleep, flags, signals, work, worker>>

-----------------------------------------------------------------------------
(* launch_scan                                                             *)

Launch(c) ==
    /\ at[c] \in Launches /\ Holds(c)
    /\ Release /\ Goto(c, "idle")
    /\ LET explicit == at[c] = "launch-explicit" /\ ~scanPaused
           starts == ~scanPaused /\ ~busy /\ pending
       IN  /\ IF explicit THEN NotifyAll ELSE UNCHANGED asleep
           /\ urgent' = (~starts /\ (urgent \/ explicit))
           /\ IF starts
              THEN /\ busy' = TRUE /\ scanning' = TRUE
                   /\ cancel' = FALSE /\ resumeCancelled' = FALSE
                   /\ stop' = FALSE /\ gaveUp' = FALSE
                   /\ \/ worker' = "recover"
                      \/ at[c] = "launch-background" /\ worker' = "debounce"
                      \/ worker' = "failing"          \* no thread
              ELSE UNCHANGED <<busy, scanning, cancel, resumeCancelled, stop,
                               gaveUp, worker>>
    /\ UNCHANGED <<cleaning, checking, scanPaused, pauseRequested, parked,
                   pending, reading, outdated>>

-----------------------------------------------------------------------------
(* cancel_scan                                                             *)

Cancel(c) ==
    /\ at[c] = "idle"
    /\ cancel' = TRUE
    /\ Goto(c, "cancel")
    /\ UNCHANGED <<locks, flags, scanPaused, pauseRequested, parked,
                   resumeCancelled, urgent, work, worker>>

CancelPauses(c) ==
    /\ at[c] = "cancel"
    /\ scanPaused' = TRUE /\ NotifyAll
    /\ Goto(c, "cancel-paused")
    /\ UNCHANGED <<runtime, store, flags, cancel, pauseRequested, parked,
                   resumeCancelled, urgent, work, worker>>

\* Faulty on purpose: a launch that reset the flag is not answered.
CancelOnce(c) ==
    /\ at[c] = "cancel-paused" /\ RuntimeFree
    /\ scanPaused' = TRUE /\ resumeCancelled' = FALSE
    /\ Goto(c, "cancel-locked")
    /\ UNCHANGED <<locks, flags, cancel, pauseRequested, parked, urgent, work, worker>>

\* Again under the runtime lock, because a launch may have reset the flags.
CancelAgain(c) ==
    /\ at[c] = "cancel-paused" /\ RuntimeFree
    /\ cancel' = TRUE /\ scanPaused' = TRUE /\ resumeCancelled' = FALSE
    /\ Goto(c, "cancel-locked")
    /\ UNCHANGED <<locks, flags, pauseRequested, parked, urgent, work, worker>>

CancelWakes(c) ==
    /\ at[c] = "cancel-locked"
    /\ NotifyAll
    /\ Goto(c, "idle")
    /\ UNCHANGED <<runtime, store, flags, signals, work, worker>>

-----------------------------------------------------------------------------
(* A duplicate check                                                       *)

BeginCheck(c) ==
    /\ at[c] = "idle" /\ RuntimeFree /\ ~busy
    /\ checking' = TRUE /\ busy' = TRUE
    /\ Goto(c, "checking")
    /\ UNCHANGED <<locks, scanning, cleaning, signals, work, worker>>

\* check_duplicates: the store is held for the query and for the last check.
Check(c) ==
    /\ \/ /\ at[c] \in {"checking", "comparing"} /\ store = Nobody
          /\ store' = c /\ Goto(c, "querying")
       \/ /\ at[c] = "querying"
          /\ store' = Nobody
          /\ at' \in {[at EXCEPT ![c] = "comparing"], [at EXCEPT ![c] = "checking"]}
    /\ UNCHANGED <<runtime, asleep, flags, signals, work, worker>>

EndCheck(c) ==
    /\ at[c] \in {"checking", "comparing"} /\ RuntimeFree
    /\ checking' = FALSE /\ busy' = (scanning \/ cleaning)
    /\ Goto(c, "launch-background")
    /\ UNCHANGED <<locks, scanning, cleaning, signals, work, worker>>

-----------------------------------------------------------------------------
(* The worker: batching delay and parking                                  *)

WorkerGoes(place) == worker' = place

\* wait_for_debounce: its predicate, under the wait mutex; the deadline may
\* have passed.
Debounce ==
    /\ worker = "debounce"
    /\ IF cancel THEN WorkerGoes("recover") /\ UNCHANGED asleep
       ELSE IF pauseRequested THEN WorkerGoes("park-debounce") /\ UNCHANGED asleep
       ELSE \/ WorkerGoes("recover") /\ UNCHANGED asleep
            \/ ~urgent /\ WorkerGoes("dozing") /\ asleep' = asleep \cup {Worker}
    /\ UNCHANGED <<runtime, store, flags, signals, work, at>>

\* Woken, or the deadline passed.
DebounceWakes ==
    /\ worker = "dozing"
    /\ asleep' = asleep \ {Worker}
    /\ WorkerGoes("debounce")
    /\ UNCHANGED <<runtime, store, flags, signals, work, at>>

Asleep(place) == IF place = "park" THEN "parked" ELSE "parked-debounce"
Awake(place) == IF place = "parked" THEN "head" ELSE "debounce"

\* Faulty on purpose: the mutation is not told that the worker has parked.
ParkSilently ==
    /\ worker \in {"park", "park-debounce"} /\ pauseRequested
    /\ parked' = TRUE
    /\ asleep' = asleep \cup {Worker}
    /\ WorkerGoes(Asleep(worker))
    /\ UNCHANGED <<runtime, store, flags, cancel, scanPaused, pauseRequested,
                   resumeCancelled, urgent, work, at>>

\* scan_checkpoint: parks, and sleeps unless the pause is over already.
Park ==
    /\ worker \in {"park", "park-debounce"}
    /\ parked' = pauseRequested
    /\ asleep' = IF pauseRequested THEN {Worker} ELSE {}
    /\ WorkerGoes(IF pauseRequested THEN Asleep(worker) ELSE Awake(Asleep(worker)))
    /\ UNCHANGED <<runtime, store, flags, cancel, scanPaused, pauseRequested,
                   resumeCancelled, urgent, work, at>>

Unpark ==
    /\ worker \in {"parked", "parked-debounce"} /\ Worker \notin asleep
    /\ parked' = pauseRequested
    /\ asleep' = IF pauseRequested THEN asleep \cup {Worker} ELSE asleep
    /\ WorkerGoes(IF pauseRequested THEN worker ELSE Awake(worker))
    /\ UNCHANGED <<runtime, store, flags, cancel, scanPaused, pauseRequested,
                   resumeCancelled, urgent, work, at>>

-----------------------------------------------------------------------------
(* The worker: run_discovery                                               *)

\* finish_worker, with the runtime lock held.
Finish(failed) ==
    /\ scanning' = FALSE /\ busy' = cleaning
    /\ NotifyAll
    /\ gaveUp' = failed
    /\ WorkerGoes("none")
    /\ UNCHANGED <<cleaning, checking>>

\* run_discovery starts with recover_discovery.
Recover ==
    /\ worker = "recover" /\ Holds(Worker)
    /\ Release /\ WorkerGoes("head")
    /\ UNCHANGED <<asleep, flags, signals, work, at>>

Head ==
    /\ worker = "head"
    /\ WorkerGoes(IF cancel THEN "retire-cancelled" ELSE "look")
    /\ UNCHANGED <<locks, flags, signals, work, at>>

\* Faulty on purpose: the worker parks with its helpers attached.
LookOnly ==
    /\ worker = "look"
    /\ WorkerGoes(IF pauseRequested THEN "park" ELSE "admit")
    /\ UNCHANGED <<locks, flags, signals, work, at>>

Look ==
    /\ worker = "look"
    /\ WorkerGoes(IF pauseRequested \/ outdated THEN "retire-paused" ELSE "admit")
    /\ UNCHANGED <<locks, flags, signals, work, at>>

\* retire_isolated_scopes: every helper is dropped and its scope queued again.
Retire ==
    /\ worker \in {"retire-cancelled", "retire-paused"} /\ Holds(Worker)
    /\ pending' = (pending \/ reading > 0)
    /\ reading' = 0 /\ outdated' = FALSE
    /\ Release
    /\ WorkerGoes(IF worker = "retire-cancelled" THEN "drained" ELSE "park")
    /\ UNCHANGED <<asleep, flags, signals, stop, gaveUp, at>>

Drained ==
    /\ worker = "drained" /\ RuntimeFree
    /\ IF resumeCancelled /\ ~scanPaused
       THEN /\ resumeCancelled' = FALSE /\ cancel' = FALSE
            /\ WorkerGoes("look")
            /\ UNCHANGED <<flags, asleep, gaveUp>>
       ELSE Finish(FALSE) /\ UNCHANGED <<resumeCancelled, cancel>>
    /\ UNCHANGED <<runtime, store, scanPaused, pauseRequested, parked, urgent,
                   pending, reading, outdated, stop, at>>

\* Faulty on purpose: nobody counts the helpers.
AdmitBeyond ==
    /\ worker = "admit" /\ Holds(Worker)
    /\ IF pending /\ ~stop /\ ~cancel /\ ~pauseRequested
       THEN pending' \in BOOLEAN /\ reading' = reading + 1 /\ UNCHANGED worker
       ELSE WorkerGoes(IF reading = 0 THEN "empty" ELSE "poll")
            /\ UNCHANGED <<pending, reading>>
    /\ Release
    /\ UNCHANGED <<asleep, flags, signals, outdated, stop, gaveUp, at>>

\* begin_isolated_scope, again and again; it may fail after its claim.
Admit ==
    /\ worker = "admit" /\ Holds(Worker)
    /\ \/ /\ ~cancel /\ ~pauseRequested /\ ~stop
          /\ pending /\ reading < ActiveScans
          /\ pending' \in BOOLEAN /\ reading' = reading + 1
          /\ UNCHANGED <<stop, worker>>
       \/ /\ ~cancel /\ ~pauseRequested /\ ~stop
          /\ pending /\ reading < ActiveScans
          /\ stop' = TRUE
          /\ UNCHANGED <<pending, reading, worker>>
       \/ /\ cancel \/ pauseRequested \/ stop \/ ~pending \/ reading = ActiveScans
          /\ WorkerGoes(IF reading = 0 THEN "empty" ELSE "poll")
          /\ UNCHANGED <<pending, reading, stop>>
    /\ Release
    /\ UNCHANGED <<asleep, flags, signals, outdated, gaveUp, at>>

\* No helper is left: the worker ends, unless there is more to do.
Empty ==
    /\ worker = "empty" /\ Holds(Worker)
    /\ Release
    /\ IF cancel \/ pauseRequested \/ (pending /\ ~stop)
       THEN WorkerGoes("head") /\ UNCHANGED <<flags, asleep, gaveUp>>
       ELSE Finish(stop)
    /\ UNCHANGED <<signals, pending, reading, outdated, stop, at>>

MayPublish == ~cancel /\ ~pauseRequested /\ ~outdated

\* One event of one helper: a batch, its end, or its failure.
Poll ==
    /\ worker = "poll" /\ Holds(Worker)
    /\ \/ UNCHANGED <<pending, reading, stop>>
       \/ /\ MayPublish
          /\ reading' = reading - 1
          /\ \/ UNCHANGED <<pending, stop>>
             \/ pending' = TRUE /\ stop' = TRUE
    /\ Release /\ WorkerGoes("head")
    /\ UNCHANGED <<asleep, flags, signals, outdated, gaveUp, at>>

\* A store operation of the worker fails.
WorkerErrs ==
    /\ worker \in WorkerSections \ {"failing"} /\ Holds(Worker)
    /\ Release /\ WorkerGoes("failing")
    /\ UNCHANGED <<asleep, flags, signals, work, at>>

\* fail_worker: the helpers are gone and recovery queues what they claimed.
FailWorker ==
    /\ worker = "failing" /\ Holds(Worker)
    /\ Release
    /\ pending' = (pending \/ reading > 0)
    /\ reading' = 0 /\ outdated' = FALSE /\ stop' = FALSE
    /\ resumeCancelled' = FALSE
    /\ Finish(TRUE)
    /\ UNCHANGED <<cancel, scanPaused, pauseRequested, parked, urgent, at>>

-----------------------------------------------------------------------------

Continue(c) ==
    \/ AwaitParked(c) \/ Mutate(c) \/ MutationDone(c) \/ EndMutation(c)
    \/ TakeRuntime(c)
    \/ Scan(c) \/ Dirty(c) \/ Unkeep(c) \/ UnkeepQueues(c) \/ Snapshot(c)
    \/ Launch(c)
    \/ CancelPauses(c) \/ CancelAgain(c) \/ CancelWakes(c)
    \/ Check(c) \/ EndCheck(c)

Request(c) ==
    \/ "execute" \in May[c] /\ Fence(c)
    \/ "hurry" \in May[c] /\ Hurry(c)
    \/ "resume" \in May[c] /\ Resume(c)
    \/ "cancel" \in May[c] /\ Cancel(c)
    \/ "check" \in May[c] /\ BeginCheck(c)
    \/ \E what \in {"scan", "dirty", "snapshot", "unkeep"} \cap May[c] : Ask(c, what)

Discovery ==
    \/ WorkerTakesRuntime
    \/ Debounce \/ DebounceWakes \/ Park \/ Unpark
    \/ Recover \/ Head \/ Look \/ Retire \/ Drained
    \/ Admit \/ Empty \/ Poll \/ WorkerErrs \/ FailWorker

Next == Discovery \/ \E c \in Callers : Request(c) \/ Continue(c)

Spec == Init /\ [][Next]_vars

\* A thread that can go on does so; a mutex that is free again and again is
\* taken in the end.  Nothing is assumed of what callers ask for.
Fairness ==
    /\ SF_vars(Discovery)
    /\ \A c \in Callers : SF_vars(Continue(c))
FairSpec == Spec /\ Fairness

-----------------------------------------------------------------------------
(* Properties                                                              *)

NothingIsRead ==
    \A c \in Callers : at[c] \in {"admitted", "mutating"} =>
        /\ reading = 0
        /\ worker \in {"none", "parked", "parked-debounce"}

BusyIsExact ==
    /\ busy = (scanning \/ cleaning \/ checking)
    /\ checking => ~scanning /\ ~cleaning
    /\ scanning = (worker # "none")

\* begin_mutation: once a mutation goes ahead no helper is attached whose output
\* could be published, and the worker is parked or there is none.  What it is
\* admitted by, busy, is only ever what the three operations it summarizes make
\* it, however their begins and ends interleave (finish_worker, end_mutation,
\* end_duplicate_check), and a duplicate check shares the engine with nobody.
MutationIsAlone == NothingIsRead /\ BusyIsExact

\* A sleeper whose reason to sleep is gone has been or will be notified: some
\* thread is between its change of the predicate and its notify_all.
SleepersAreWoken ==
    /\ worker = "dozing" /\ Worker \in asleep =>
        /\ ~urgent
        /\ pauseRequested => \E c \in Callers : at[c] = "fence"
        /\ cancel => \E c \in Callers : at[c] \in {"cancel", "cancel-paused", "cancel-locked"}
    /\ worker \in {"parked", "parked-debounce"} /\ Worker \in asleep => pauseRequested
    /\ \A c \in Callers : at[c] = "waiting" /\ c \in asleep => ~parked /\ scanning

\* run_discovery: "a new durable event cannot miss its worker".  When every
\* request is answered and no worker runs, queued work waits only because it was
\* cancelled or because the last worker failed.
NoStrandedWork ==
    (\A c \in Callers : at[c] = "idle") /\ worker = "none" /\ pending =>
        scanPaused \/ gaveUp

\* An admitted mutation is let in: the worker parks or ends.
MutationsAreLetIn ==
    \A c \in Callers : at[c] \in {"fence", "waiting"} ~> at[c] = "admitted"

\* cancel_scan: a cancelled worker ends, unless a later request lifts the pause
\* or a mutation parks it first, whatever launches were under way when the
\* flags were set.
CancelEndsWorker ==
    (scanPaused /\ scanning) ~> (~scanPaused \/ ~scanning \/ pauseRequested)

=============================================================================
