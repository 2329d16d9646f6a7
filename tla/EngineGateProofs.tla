-------------------------- MODULE EngineGateProofs --------------------------
(***************************************************************************)
(* Theorems about EngineGate for any number of callers and helpers.  They  *)
(* rest on one inductive invariant, GateInv: which callers are inside a    *)
(* mutation or a duplicate check, what the flags say of them, and what the *)
(* discovery worker has behind it at each of its places.                   *)
(***************************************************************************)
EXTENDS EngineGate, TLAPS

\* Where a caller is between begin_mutation and end_mutation, and between the
\* begin and the end of a duplicate check.
Fenced == {"fence", "waiting", "admitted", "mutating", "ending"}
Checks == {"checking", "querying", "comparing"}

\* The flags are the callers' own, and at most one caller is inside.
MutationFlag == cleaning <=> \E c \in Callers : at[c] \in Fenced
CheckFlag == checking <=> \E c \in Callers : at[c] \in Checks
PauseFlag == pauseRequested <=> cleaning
Exclusive ==
    /\ \A c, d \in Callers : at[c] \in Fenced /\ at[d] \in Fenced => c = d
    /\ \A c, d \in Callers : at[c] \in Checks /\ at[d] \in Checks => c = d
FlagsAreHeld == MutationFlag /\ CheckFlag /\ PauseFlag /\ Exclusive

\* Where the worker cannot have a helper, and where it must have one.
WithoutHelpers == {"none", "debounce", "dozing", "recover", "empty", "drained",
                   "park", "park-debounce", "parked", "parked-debounce"}
HelpersArePlaced ==
    /\ worker = "poll" => reading > 0
    /\ worker \in WithoutHelpers => reading = 0
ParkedIsShown == parked <=> worker \in {"parked", "parked-debounce"}
WorkerIsPlaced == HelpersArePlaced /\ ParkedIsShown

GateInv ==
    TypeOK /\ FlagsAreHeld /\ WorkerIsPlaced /\ MutationIsAlone /\ SleepersAreWoken

\* A caller that will call launch_scan, or pause discovery as cancel_scan does.
Answering == Launches \cup Fenced \cup Checks \cup {"cancel"}

\* A cancelled worker was cancelled by somebody who has paused discovery, or will,
\* unless a later request keeps it.
CancelIsAnswered ==
    /\ worker \in {"retire-cancelled", "drained"} => cancel
    /\ worker # "none" /\ cancel =>
        scanPaused \/ resumeCancelled \/ \E c \in Callers : at[c] = "cancel"

\* Work without a worker waits for somebody who is about to launch one.
LaunchIsOwed ==
    worker = "none" /\ pending =>
        scanPaused \/ gaveUp \/ \E c \in Callers : at[c] \in Answering

NobodyUnkeeps == \A c \in Callers : at[c] \notin {"unkeep", "unpaused"}
WorkIsAnswered == NobodyUnkeeps /\ CancelIsAnswered /\ LaunchIsOwed

-----------------------------------------------------------------------------
(* The initial states and the steps                                        *)

\* A program that starts satisfies the invariant.
LEMMA InitGate == ASSUME GateAssumption, Init PROVE GateInv
<1> USE DEF Init, GateAssumption, GateInv
<1>1. TypeOK
    <2>1. LocksTyped /\ FlagsTyped
        BY DEF LocksTyped, FlagsTyped
    <2>2. SignalsTyped /\ WorkTyped
        BY DEF SignalsTyped, WorkTyped
    <2>3. PlacesTyped
        BY DEF PlacesTyped, CallerPlaces, WorkerPlaces
    <2> QED  BY <2>1, <2>2, <2>3 DEF TypeOK
<1>2. FlagsAreHeld
    BY DEF FlagsAreHeld, MutationFlag, CheckFlag, PauseFlag, Exclusive, Fenced, Checks
<1>3. WorkerIsPlaced
    BY DEF WorkerIsPlaced, HelpersArePlaced, ParkedIsShown, WithoutHelpers
<1>4. MutationIsAlone /\ SleepersAreWoken
    BY DEF MutationIsAlone, NothingIsRead, BusyIsExact, SleepersAreWoken
<1> QED  BY <1>1, <1>2, <1>3, <1>4

\* The mutexes and the sleepers keep their types.
LEMMA LocksStep ==
    ASSUME GateAssumption, LocksTyped, [Next]_vars
    PROVE  LocksTyped'
<1> USE DEF LocksTyped, locks, Release, NotifyAll, Expedite
<1>1. ASSUME NEW c \in Callers, Request(c)
      PROVE  LocksTyped'
    BY <1>1
       DEF Request, Fence, Hurry, Resume, Cancel, BeginCheck, Ask, Expedite,
           GateAssumption, Finish
<1>2. ASSUME NEW c \in Callers, Continue(c)
      PROVE  LocksTyped'
    BY <1>2
       DEF Continue, AwaitParked, Mutate, MutationDone, EndMutation, TakeRuntime, Scan,
           Dirty, Unkeep, UnkeepQueues, Snapshot, Launch, CancelPauses, CancelAgain,
           CancelWakes, Check, EndCheck, GateAssumption, Finish
<1>3. CASE Discovery
    BY <1>3
       DEF Discovery, WorkerTakesRuntime, Debounce, DebounceWakes, Park, Unpark,
           Recover, Head, Look, Retire, Drained, Admit, Empty, Poll, WorkerErrs,
           FailWorker, GateAssumption, Finish
<1>4. CASE UNCHANGED vars
    BY <1>4
       DEF vars, GateAssumption, Finish
<1> QED  BY <1>1, <1>2, <1>3, <1>4 DEF Next

\* So do the flags that summarize who is at work ...
LEMMA FlagsStep ==
    ASSUME FlagsTyped, [Next]_vars
    PROVE  FlagsTyped'
<1> USE DEF FlagsTyped, flags
<1>1. ASSUME NEW c \in Callers, Request(c)
      PROVE  FlagsTyped'
    BY <1>1
       DEF Request, Fence, Hurry, Resume, Cancel, BeginCheck, Ask, Expedite, Finish
<1>2. ASSUME NEW c \in Callers, Continue(c)
      PROVE  FlagsTyped'
    BY <1>2
       DEF Continue, AwaitParked, Mutate, MutationDone, EndMutation, TakeRuntime, Scan,
           Dirty, Unkeep, UnkeepQueues, Snapshot, Launch, CancelPauses, CancelAgain,
           CancelWakes, Check, EndCheck, Finish
<1>3. CASE Discovery
    BY <1>3
       DEF Discovery, WorkerTakesRuntime, Debounce, DebounceWakes, Park, Unpark,
           Recover, Head, Look, Retire, Drained, Admit, Empty, Poll, WorkerErrs,
           FailWorker, Finish
<1>4. CASE UNCHANGED vars
    BY <1>4
       DEF vars, Finish
<1> QED  BY <1>1, <1>2, <1>3, <1>4 DEF Next

\* ... those that threads signal each other with ...
LEMMA SignalsStep ==
    ASSUME SignalsTyped, [Next]_vars
    PROVE  SignalsTyped'
<1> USE DEF SignalsTyped, signals, Expedite
<1>1. ASSUME NEW c \in Callers, Request(c)
      PROVE  SignalsTyped'
    BY <1>1
       DEF Request, Fence, Hurry, Resume, Cancel, BeginCheck, Ask, Expedite
<1>2. ASSUME NEW c \in Callers, Continue(c)
      PROVE  SignalsTyped'
    BY <1>2
       DEF Continue, AwaitParked, Mutate, MutationDone, EndMutation, TakeRuntime, Scan,
           Dirty, Unkeep, UnkeepQueues, Snapshot, Launch, CancelPauses, CancelAgain,
           CancelWakes, Check, EndCheck
<1>3. CASE Discovery
    BY <1>3
       DEF Discovery, WorkerTakesRuntime, Debounce, DebounceWakes, Park, Unpark,
           Recover, Head, Look, Retire, Drained, Admit, Empty, Poll, WorkerErrs,
           FailWorker
<1>4. CASE UNCHANGED vars
    BY <1>4
       DEF vars
<1> QED  BY <1>1, <1>2, <1>3, <1>4 DEF Next

\* ... and what is left to do.
LEMMA WorkStep ==
    ASSUME WorkTyped, [Next]_vars
    PROVE  WorkTyped'
<1> USE DEF WorkTyped, work
<1>1. CASE Retire \/ FailWorker
    BY <1>1
       DEF Retire, FailWorker, Finish
<1>2. CASE Admit
    BY <1>2
       DEF Admit
<1>3. CASE Poll
    BY <1>3
       DEF Poll
<1>4. ASSUME NEW c \in Callers, Fence(c)
      PROVE  WorkTyped'
    BY <1>4
       DEF Fence
<1>5. ASSUME NEW c \in Callers, Request(c),
             ~(Fence(c))
      PROVE  WorkTyped'
    BY <1>5
       DEF Request, Hurry, Resume, Cancel, BeginCheck, Ask, Expedite, Finish
<1>6. ASSUME NEW c \in Callers, Continue(c)
      PROVE  WorkTyped'
    BY <1>6
       DEF Continue, AwaitParked, Mutate, MutationDone, EndMutation, TakeRuntime, Scan,
           Dirty, Unkeep, UnkeepQueues, Snapshot, Launch, CancelPauses, CancelAgain,
           CancelWakes, Check, EndCheck, Finish
<1>7. CASE Discovery /\ ~(Retire \/ Admit \/ Poll \/ FailWorker)
    BY <1>7
       DEF Discovery, WorkerTakesRuntime, Debounce, DebounceWakes, Park, Unpark,
           Recover, Head, Look, Drained, Empty, WorkerErrs, Finish
<1>8. CASE UNCHANGED vars
    BY <1>8
       DEF vars, Finish
<1> QED  BY <1>1, <1>2, <1>3, <1>4, <1>5, <1>6, <1>7, <1>8 DEF Next

\* Helpers are counted up to ActiveScans, and a report comes from one that is there.
LEMMA ReadingStep ==
    ASSUME GateAssumption, HelpersArePlaced, reading \in 0..ActiveScans, [Next]_vars
    PROVE  reading' \in 0..ActiveScans
<1> USE DEF work
<1>1. CASE Retire \/ FailWorker
    <2>1. reading' = 0
        BY <1>1 DEF Retire, FailWorker
    <2> QED  BY <2>1 DEF GateAssumption
<1>2. CASE Admit
    BY <1>2
       DEF Admit
<1>3. CASE Poll
    BY <1>3
       DEF Poll, HelpersArePlaced
<1>4. CASE Drained \/ Empty
    BY <1>4
       DEF Drained, Empty
<1>5. ASSUME NEW c \in Callers, Request(c)
      PROVE  reading' \in 0..ActiveScans
    BY <1>5
       DEF Request, Fence, Hurry, Resume, Cancel, BeginCheck, Ask, Expedite
<1>6. ASSUME NEW c \in Callers, Continue(c)
      PROVE  reading' \in 0..ActiveScans
    BY <1>6
       DEF Continue, AwaitParked, Mutate, MutationDone, EndMutation, TakeRuntime, Scan,
           Dirty, Unkeep, UnkeepQueues, Snapshot, Launch, CancelPauses, CancelAgain,
           CancelWakes, Check, EndCheck
<1>7. CASE Discovery /\ ~(Retire \/ Drained \/ Admit \/ Empty \/ Poll \/ FailWorker)
    BY <1>7
       DEF Discovery, WorkerTakesRuntime, Debounce, DebounceWakes, Park, Unpark,
           Recover, Head, Look, WorkerErrs
<1>8. CASE UNCHANGED vars
    BY <1>8
       DEF vars
<1> QED  BY <1>1, <1>2, <1>3, <1>4, <1>5, <1>6, <1>7, <1>8 DEF Next

\* Threads go to places of theirs.
LEMMA PlacesStep ==
    ASSUME PlacesTyped, [Next]_vars
    PROVE  PlacesTyped'
<1> USE DEF PlacesTyped, CallerPlaces, CallerSections, Launches, WorkerPlaces,
            WorkerSections, Goto, WorkerGoes
<1>1. ASSUME NEW c \in Callers, Request(c)
      PROVE  PlacesTyped'
    BY <1>1
       DEF Request, Fence, Hurry, Resume, Cancel, BeginCheck, Ask, Expedite, Finish,
           Asleep, Awake
<1>2. ASSUME NEW c \in Callers, Continue(c)
      PROVE  PlacesTyped'
    BY <1>2
       DEF Continue, AwaitParked, Mutate, MutationDone, EndMutation, TakeRuntime, Scan,
           Dirty, Unkeep, UnkeepQueues, Snapshot, Launch, CancelPauses, CancelAgain,
           CancelWakes, Check, EndCheck, Finish, Asleep, Awake
<1>3. CASE Discovery
    BY <1>3
       DEF Discovery, WorkerTakesRuntime, Debounce, DebounceWakes, Park, Unpark,
           Recover, Head, Look, Retire, Drained, Admit, Empty, Poll, WorkerErrs,
           FailWorker, Finish, Asleep, Awake
<1>4. CASE UNCHANGED vars
    BY <1>4
       DEF vars, Finish, Asleep, Awake
<1> QED  BY <1>1, <1>2, <1>3, <1>4 DEF Next

\* Only the caller inside sets and drops the flags.
LEMMA HeldStep ==
    ASSUME PlacesTyped, FlagsAreHeld, BusyIsExact, [Next]_vars
    PROVE  FlagsAreHeld'
<1> USE DEF PlacesTyped, FlagsAreHeld, MutationFlag, CheckFlag, PauseFlag, Exclusive,
            Goto, Fenced, Checks, Launches
<1>1. ASSUME NEW c \in Callers, Fence(c)
      PROVE  FlagsAreHeld'
    BY <1>1
       DEF Fence
<1>2. ASSUME NEW c \in Callers, EndMutation(c)
      PROVE  FlagsAreHeld'
    BY <1>2
       DEF EndMutation
<1>3. ASSUME NEW c \in Callers, BeginCheck(c)
      PROVE  FlagsAreHeld'
    BY <1>3
       DEF BeginCheck, BusyIsExact, signals
<1>4. ASSUME NEW c \in Callers, EndCheck(c)
      PROVE  FlagsAreHeld'
    BY <1>4
       DEF EndCheck, signals
<1>5. ASSUME NEW c \in Callers, Launch(c)
      PROVE  FlagsAreHeld'
    BY <1>5
       DEF Launch
<1>6. ASSUME NEW c \in Callers, Request(c),
             ~(Fence(c) \/ BeginCheck(c))
      PROVE  FlagsAreHeld'
    BY <1>6
       DEF Request, Hurry, Resume, Cancel, Ask, Expedite, flags, signals, Finish, work
<1>7. ASSUME NEW c \in Callers, Continue(c),
             ~(EndMutation(c) \/ Launch(c) \/ EndCheck(c))
      PROVE  FlagsAreHeld'
    BY <1>7
       DEF Continue, AwaitParked, Mutate, MutationDone, TakeRuntime, Scan, Dirty,
           Unkeep, UnkeepQueues, Snapshot, CancelPauses, CancelAgain, CancelWakes,
           Check, flags, signals, Finish, work
<1>8. CASE Discovery
    BY <1>8
       DEF Discovery, WorkerTakesRuntime, Debounce, DebounceWakes, Park, Unpark,
           Recover, Head, Look, Retire, Drained, Admit, Empty, Poll, WorkerErrs,
           FailWorker, flags, signals, Finish, work
<1>9. CASE UNCHANGED vars
    BY <1>9
       DEF vars, flags, signals, Finish, work
<1> QED  BY <1>1, <1>2, <1>3, <1>4, <1>5, <1>6, <1>7, <1>8, <1>9 DEF Next

\* The worker parks, ends and sleeps without helpers.
LEMMA WorkerStep ==
    ASSUME TypeOK, WorkerIsPlaced, BusyIsExact, [Next]_vars
    PROVE  WorkerIsPlaced'
<1> USE DEF TypeOK, PlacesTyped, WorkerIsPlaced, HelpersArePlaced, ParkedIsShown,
            WithoutHelpers
<1>1. ASSUME NEW c \in Callers, Launch(c)
      PROVE  WorkerIsPlaced'
    BY <1>1
       DEF Launch, BusyIsExact
<1>2. CASE Admit
    BY <1>2
       DEF Admit, WorkerGoes, signals
<1>3. CASE Poll
    BY <1>3
       DEF Poll, WorkerGoes, signals
<1>4. CASE Drained \/ Empty \/ FailWorker
    BY <1>4
       DEF Drained, Empty, FailWorker, WorkerGoes, Finish, signals
<1>5. CASE Park \/ Unpark
    BY <1>5
       DEF Park, Unpark, work, WorkerGoes, Asleep, Awake
<1>6. ASSUME NEW c \in Callers, Request(c)
      PROVE  WorkerIsPlaced'
    BY <1>6
       DEF Request, Fence, Hurry, Resume, Cancel, BeginCheck, Ask, Expedite, signals,
           work, WorkerGoes, WorkerSections
<1>7. ASSUME NEW c \in Callers, Continue(c),
             ~(Launch(c))
      PROVE  WorkerIsPlaced'
    BY <1>7
       DEF Continue, AwaitParked, Mutate, MutationDone, EndMutation, TakeRuntime, Scan,
           Dirty, Unkeep, UnkeepQueues, Snapshot, CancelPauses, CancelAgain,
           CancelWakes, Check, EndCheck, signals, work, WorkerGoes, WorkerSections
<1>8. CASE /\ Discovery
           /\ ~(Park \/ Unpark \/ Drained \/ Admit \/ Empty \/ Poll \/ FailWorker)
    BY <1>8
       DEF Discovery, WorkerTakesRuntime, Debounce, DebounceWakes, Recover, Head, Look,
           Retire, WorkerErrs, signals, work, WorkerGoes, WorkerSections
<1>9. CASE UNCHANGED vars
    BY <1>9
       DEF vars, signals, work, WorkerGoes, WorkerSections
<1> QED  BY <1>1, <1>2, <1>3, <1>4, <1>5, <1>6, <1>7, <1>8, <1>9 DEF Next

\* Each operation adds and removes its own part of busy.
LEMMA BusyStep ==
    ASSUME TypeOK, FlagsAreHeld, WorkerIsPlaced, BusyIsExact, [Next]_vars
    PROVE  BusyIsExact'
<1> USE DEF TypeOK, PlacesTyped, FlagsTyped, BusyIsExact, WorkerGoes
<1>1. ASSUME NEW c \in Callers, Launch(c)
      PROVE  BusyIsExact'
    BY <1>1
       DEF Launch
<1>2. ASSUME NEW c \in Callers, Fence(c)
      PROVE  BusyIsExact'
    BY <1>2
       DEF Fence
<1>3. ASSUME NEW c \in Callers, EndMutation(c)
      PROVE  BusyIsExact'
    <2>1. cleaning /\ ~checking
        BY <1>3 DEF EndMutation, FlagsAreHeld, MutationFlag, Fenced
    <2>2. /\ ~cleaning' /\ busy' = scanning /\ scanning' = scanning
          /\ checking' = checking /\ worker' = worker
        BY <1>3 DEF EndMutation
    <2> QED  BY <2>1, <2>2
<1>4. ASSUME NEW c \in Callers, EndCheck(c)
      PROVE  BusyIsExact'
    BY <1>4
       DEF EndCheck, FlagsAreHeld, CheckFlag, Checks, MutationFlag
<1>5. ASSUME NEW c \in Callers, BeginCheck(c)
      PROVE  BusyIsExact'
    BY <1>5
       DEF BeginCheck
<1>6. CASE Drained \/ Empty \/ FailWorker
    <2>1. scanning /\ ~checking
        BY <1>6 DEF Drained, Empty, FailWorker
    <2>2. \/ /\ scanning' = FALSE /\ busy' = cleaning /\ worker' = "none"
             /\ cleaning' = cleaning /\ checking' = checking
          \/ worker' # "none" /\ UNCHANGED flags
        BY <1>6 DEF Drained, Empty, FailWorker, Finish
    <2>3. CASE UNCHANGED flags /\ worker' # "none"
        BY <2>1, <2>3 DEF flags
    <2>4. CASE scanning' = FALSE /\ busy' = cleaning /\ worker' = "none"
               /\ cleaning' = cleaning /\ checking' = checking
        BY <2>1, <2>4
    <2> QED  BY <2>2, <2>3, <2>4
<1>7. ASSUME NEW c \in Callers, Request(c),
             ~(Fence(c) \/ BeginCheck(c))
      PROVE  BusyIsExact'
    BY <1>7
       DEF Request, Hurry, Resume, Cancel, Ask, Expedite, flags, WorkerSections, Asleep,
           Awake
<1>8. ASSUME NEW c \in Callers, Continue(c),
             ~(EndMutation(c) \/ Launch(c) \/ EndCheck(c))
      PROVE  BusyIsExact'
    BY <1>8
       DEF Continue, AwaitParked, Mutate, MutationDone, TakeRuntime, Scan, Dirty,
           Unkeep, UnkeepQueues, Snapshot, CancelPauses, CancelAgain, CancelWakes,
           Check, flags, WorkerSections, Asleep, Awake
<1>9. CASE Discovery /\ ~(Drained \/ Empty \/ FailWorker)
    BY <1>9
       DEF Discovery, WorkerTakesRuntime, Debounce, DebounceWakes, Park, Unpark,
           Recover, Head, Look, Retire, Admit, Poll, WorkerErrs, flags, WorkerSections,
           Asleep, Awake
<1>10. CASE UNCHANGED vars
    BY <1>10
       DEF vars, flags, WorkerSections, Asleep, Awake
<1> QED  BY <1>1, <1>2, <1>3, <1>4, <1>5, <1>6, <1>7, <1>8, <1>9, <1>10 DEF Next

\* A parked worker stays parked for as long as the mutation it parked for lasts.
LEMMA AloneStep ==
    ASSUME TypeOK, FlagsAreHeld, WorkerIsPlaced, BusyIsExact, NothingIsRead,
           [Next]_vars
    PROVE  NothingIsRead'
<1> USE DEF TypeOK, PlacesTyped, NothingIsRead, FlagsAreHeld, MutationFlag, PauseFlag,
            WorkerIsPlaced, HelpersArePlaced, ParkedIsShown, WithoutHelpers,
            BusyIsExact, Goto, WorkerGoes, Fenced
<1>1. ASSUME NEW c \in Callers, Launch(c)
      PROVE  NothingIsRead'
    BY <1>1
       DEF Launch, Launches
<1>2. CASE Unpark
    BY <1>2
       DEF Unpark, work, Awake
<1>3. ASSUME NEW c \in Callers, Request(c)
      PROVE  NothingIsRead'
    BY <1>3
       DEF Request, Fence, Hurry, Resume, Cancel, BeginCheck, Ask, Expedite, work,
           Asleep, Awake, WorkerSections, Finish, Launches
<1>4. ASSUME NEW c \in Callers, Continue(c),
             ~(Launch(c))
      PROVE  NothingIsRead'
    BY <1>4
       DEF Continue, AwaitParked, Mutate, MutationDone, EndMutation, TakeRuntime, Scan,
           Dirty, Unkeep, UnkeepQueues, Snapshot, CancelPauses, CancelAgain,
           CancelWakes, Check, EndCheck, work, Asleep, Awake, WorkerSections, Finish,
           Launches
<1>5. CASE Discovery /\ ~(Unpark)
    BY <1>5
       DEF Discovery, WorkerTakesRuntime, Debounce, DebounceWakes, Park, Recover, Head,
           Look, Retire, Drained, Admit, Empty, Poll, WorkerErrs, FailWorker, work,
           Asleep, Awake, WorkerSections, Finish, Launches
<1>6. CASE UNCHANGED vars
    BY <1>6
       DEF vars, work, Asleep, Awake, WorkerSections, Finish, Launches
<1> QED  BY <1>1, <1>2, <1>3, <1>4, <1>5, <1>6 DEF Next

\* Whoever ends a reason to sleep notifies, or is about to.
LEMMA SleepersStep ==
    ASSUME GateAssumption, TypeOK, WorkerIsPlaced, BusyIsExact, SleepersAreWoken,
           [Next]_vars
    PROVE  SleepersAreWoken'
<1> USE DEF TypeOK, PlacesTyped, LocksTyped, SleepersAreWoken, WorkerIsPlaced,
            ParkedIsShown, BusyIsExact, Goto, WorkerGoes, NotifyAll, GateAssumption
<1>1. ASSUME NEW c \in Callers, Launch(c)
      PROVE  SleepersAreWoken'
    BY <1>1
       DEF Launch, Launches
<1>2. CASE Park \/ Unpark
    BY <1>2
       DEF Park, Unpark, Asleep, Awake
<1>3. ASSUME NEW c \in Callers, Fence(c)
      PROVE  SleepersAreWoken'
    BY <1>3
       DEF Fence, locks
<1>4. ASSUME NEW c \in Callers, AwaitParked(c)
      PROVE  SleepersAreWoken'
    BY <1>4
       DEF AwaitParked, flags, signals
<1>5. ASSUME NEW c \in Callers, Hurry(c)
      PROVE  SleepersAreWoken'
    BY <1>5
       DEF Hurry, Expedite, flags
<1>6. CASE Debounce
    BY <1>6
       DEF Debounce, flags, signals
<1>7. CASE Drained \/ Empty \/ FailWorker
    BY <1>7
       DEF Drained, Empty, FailWorker, Finish, flags, signals
<1>8. ASSUME NEW c \in Callers, Request(c),
             ~(Fence(c) \/ Hurry(c))
      PROVE  SleepersAreWoken'
    BY <1>8
       DEF Request, Resume, Cancel, BeginCheck, Ask, locks, flags, signals, Asleep,
           Awake, WorkerSections, Expedite, Launches
<1>9. ASSUME NEW c \in Callers, Continue(c),
             ~(AwaitParked(c) \/ Launch(c))
      PROVE  SleepersAreWoken'
    BY <1>9
       DEF Continue, Mutate, MutationDone, EndMutation, TakeRuntime, Scan, Dirty,
           Unkeep, UnkeepQueues, Snapshot, CancelPauses, CancelAgain, CancelWakes,
           Check, EndCheck, locks, flags, signals, Asleep, Awake, WorkerSections,
           Expedite, Launches
<1>10. CASE Discovery /\ ~(Debounce \/ Park \/ Unpark \/ Drained \/ Empty \/ FailWorker)
    BY <1>10
       DEF Discovery, WorkerTakesRuntime, DebounceWakes, Recover, Head, Look, Retire,
           Admit, Poll, WorkerErrs, locks, flags, signals, Asleep, Awake,
           WorkerSections, Expedite, Launches
<1>11. CASE UNCHANGED vars
    BY <1>11
       DEF vars, locks, flags, signals, Asleep, Awake, WorkerSections, Expedite,
           Launches
<1> QED  BY <1>1, <1>2, <1>3, <1>4, <1>5, <1>6, <1>7, <1>8, <1>9, <1>10, <1>11 DEF Next

\* Nobody who may not ask for "unkeep" is inside it.
LEMMA UnkeepStep ==
    ASSUME TypeOK, \A c \in Callers : "unkeep" \notin May[c], NobodyUnkeeps, [Next]_vars
    PROVE  NobodyUnkeeps'
<1> USE DEF TypeOK, PlacesTyped, NobodyUnkeeps, Goto, Launches
<1>1. ASSUME NEW c \in Callers, Request(c)
      PROVE  NobodyUnkeeps'
    BY <1>1
       DEF Request, Fence, Hurry, Resume, Cancel, BeginCheck, Ask, Expedite, Finish,
           work
<1>2. ASSUME NEW c \in Callers, Continue(c)
      PROVE  NobodyUnkeeps'
    BY <1>2
       DEF Continue, AwaitParked, Mutate, MutationDone, EndMutation, TakeRuntime, Scan,
           Dirty, Unkeep, UnkeepQueues, Snapshot, Launch, CancelPauses, CancelAgain,
           CancelWakes, Check, EndCheck, Finish, work
<1>3. CASE Discovery
    BY <1>3
       DEF Discovery, WorkerTakesRuntime, Debounce, DebounceWakes, Park, Unpark,
           Recover, Head, Look, Retire, Drained, Admit, Empty, Poll, WorkerErrs,
           FailWorker, Finish, work
<1>4. CASE UNCHANGED vars
    BY <1>4
       DEF vars, Finish, work
<1> QED  BY <1>1, <1>2, <1>3, <1>4 DEF Next

\* Whoever keeps a worker or lifts the pause says so to a worker being cancelled.
LEMMA CancelStep ==
    ASSUME TypeOK, BusyIsExact, NobodyUnkeeps, CancelIsAnswered, [Next]_vars
    PROVE  CancelIsAnswered'
<1> USE DEF TypeOK, PlacesTyped, SignalsTyped, FlagsTyped, BusyIsExact,
            CancelIsAnswered, Goto, WorkerGoes, Launches
<1>1. ASSUME NEW c \in Callers, Scan(c)
      PROVE  CancelIsAnswered'
    BY <1>1
       DEF Scan, flags
<1>2. ASSUME NEW c \in Callers, Resume(c)
      PROVE  CancelIsAnswered'
    BY <1>2
       DEF Resume, flags
<1>3. ASSUME NEW c \in Callers, UnkeepQueues(c)
      PROVE  CancelIsAnswered'
    BY <1>3
       DEF UnkeepQueues, NobodyUnkeeps
<1>4. ASSUME NEW c \in Callers, Launch(c)
      PROVE  CancelIsAnswered'
    BY <1>4
       DEF Launch
<1>5. CASE Drained
    BY <1>5
       DEF Drained, Finish, flags
<1>6. ASSUME NEW c \in Callers, Request(c),
             ~(Resume(c))
      PROVE  CancelIsAnswered'
    BY <1>6
       DEF Request, Fence, Hurry, Cancel, BeginCheck, Ask, Expedite, signals, flags,
           WorkerSections, Finish, Asleep, Awake, Expedite
<1>7. ASSUME NEW c \in Callers, Continue(c),
             ~(Scan(c) \/ UnkeepQueues(c) \/ Launch(c))
      PROVE  CancelIsAnswered'
    BY <1>7
       DEF Continue, AwaitParked, Mutate, MutationDone, EndMutation, TakeRuntime, Dirty,
           Unkeep, Snapshot, CancelPauses, CancelAgain, CancelWakes, Check, EndCheck,
           signals, flags, WorkerSections, Finish, Asleep, Awake, Expedite
<1>8. CASE Discovery /\ ~(Drained)
    BY <1>8
       DEF Discovery, WorkerTakesRuntime, Debounce, DebounceWakes, Park, Unpark,
           Recover, Head, Look, Retire, Admit, Empty, Poll, WorkerErrs, FailWorker,
           signals, flags, WorkerSections, Finish, Asleep, Awake, Expedite
<1>9. CASE UNCHANGED vars
    BY <1>9
       DEF vars, signals, flags, WorkerSections, Finish, Asleep, Awake, Expedite
<1> QED  BY <1>1, <1>2, <1>3, <1>4, <1>5, <1>6, <1>7, <1>8, <1>9 DEF Next

\* A worker ends with work left only when it failed, or was cancelled.
LEMMA LaunchStep ==
    ASSUME TypeOK, FlagsAreHeld, WorkerIsPlaced, BusyIsExact, NobodyUnkeeps,
           CancelIsAnswered, LaunchIsOwed, [Next]_vars
    PROVE  LaunchIsOwed'
<1> USE DEF TypeOK, PlacesTyped, SignalsTyped, FlagsTyped, WorkTyped, BusyIsExact,
            LaunchIsOwed, Answering, Goto, WorkerGoes, Launches, Fenced, Checks
<1>1. ASSUME NEW c \in Callers, UnkeepQueues(c)
      PROVE  LaunchIsOwed'
    BY <1>1
       DEF UnkeepQueues, NobodyUnkeeps
<1>2. ASSUME NEW c \in Callers, Launch(c)
      PROVE  LaunchIsOwed'
    BY <1>2
       DEF Launch, FlagsAreHeld, MutationFlag, CheckFlag
<1>3. CASE Drained
    BY <1>3
       DEF Drained, Finish, flags, CancelIsAnswered
<1>4. CASE Empty
    BY <1>4
       DEF Empty, Finish, flags, signals
<1>5. CASE FailWorker
    BY <1>5
       DEF FailWorker, Finish
<1>6. ASSUME NEW c \in Callers, Request(c)
      PROVE  LaunchIsOwed'
    BY <1>6
       DEF Request, Fence, Hurry, Resume, Cancel, BeginCheck, Ask, Expedite, signals,
           flags, work, WorkerSections, Asleep, Awake, Expedite
<1>7. ASSUME NEW c \in Callers, Continue(c),
             ~(UnkeepQueues(c) \/ Launch(c))
      PROVE  LaunchIsOwed'
    <2> SUFFICES ASSUME worker' = "none", pending', ~scanPaused', ~gaveUp'
                 PROVE  \E d \in Callers : at'[d] \in Answering
        OBVIOUS
    <2>1. CASE MutationDone(c)
        BY <2>1 DEF MutationDone
    <2>2. CASE EndMutation(c) \/ EndCheck(c) \/ Scan(c) \/ Dirty(c)
        BY <2>2 DEF EndMutation, EndCheck, Scan, Dirty, work
    <2>3. CASE AwaitParked(c) \/ Mutate(c) \/ Check(c)
        BY <2>3 DEF AwaitParked, Mutate, Check, signals, work
    <2>4. CASE TakeRuntime(c) \/ Unkeep(c) \/ Snapshot(c)
        BY <2>4 DEF TakeRuntime, Unkeep, Snapshot, signals, work
    <2>5. CASE CancelPauses(c) \/ CancelAgain(c) \/ CancelWakes(c)
        BY <2>5 DEF CancelPauses, CancelAgain, CancelWakes, signals, work
    <2> QED  BY <1>7, <2>1, <2>2, <2>3, <2>4, <2>5 DEF Continue
<1>8. CASE Discovery /\ ~(Drained \/ Empty \/ FailWorker)
    BY <1>8
       DEF Discovery, WorkerTakesRuntime, Debounce, DebounceWakes, Park, Unpark,
           Recover, Head, Look, Retire, Admit, Poll, WorkerErrs, signals, flags, work,
           WorkerSections, Asleep, Awake, Expedite
<1>9. CASE UNCHANGED vars
    BY <1>9
       DEF vars, signals, flags, work, WorkerSections, Asleep, Awake, Expedite
<1> QED  BY <1>1, <1>2, <1>3, <1>4, <1>5, <1>6, <1>7, <1>8, <1>9 DEF Next

-----------------------------------------------------------------------------
(* The theorems                                                            *)

\* The invariant is inductive.
LEMMA GateStep == ASSUME GateAssumption, GateInv, [Next]_vars PROVE GateInv'
<1> USE DEF GateInv, MutationIsAlone, WorkerIsPlaced
<1>1. TypeOK'
    BY LocksStep, FlagsStep, SignalsStep, WorkStep, ReadingStep, PlacesStep DEF TypeOK
<1>2. FlagsAreHeld' /\ WorkerIsPlaced'
    BY HeldStep, WorkerStep DEF TypeOK
<1>3. MutationIsAlone'
    BY BusyStep, AloneStep
<1>4. SleepersAreWoken'
    BY SleepersStep
<1> QED  BY <1>1, <1>2, <1>3, <1>4

\* In every behaviour the mutexes, flags and places of any number of callers and
\* one worker satisfy the invariant.
THEOREM GateInvariant == Spec => []GateInv
<1>1. Init => GateInv
    BY InitGate, GateAssumption
<1>2. GateInv /\ [Next]_vars => GateInv'
    BY GateStep, GateAssumption
<1> QED  BY <1>1, <1>2, PTL DEF Spec

\* Every variable keeps its type; no more than ActiveScans helpers are attached.
THEOREM GateTypeCorrect == Spec => []TypeOK
<1>1. GateInv => TypeOK
    BY DEF GateInv
<1> QED  BY <1>1, GateInvariant, PTL

\* begin_mutation: whatever the threads and whatever they ask for, nothing is read
\* while a mutation goes ahead, and busy is exactly what the three operations
\* under way make it.
THEOREM MutationsAreAlone == Spec => []MutationIsAlone
<1>1. GateInv => MutationIsAlone
    BY DEF GateInv
<1> QED  BY <1>1, GateInvariant, PTL

\* No wake-up of pause_changed is lost: a thread that sleeps on has a reason to.
THEOREM NoWakeUpIsLost == Spec => []SleepersAreWoken
<1>1. GateInv => SleepersAreWoken
    BY DEF GateInv
<1> QED  BY <1>1, GateInvariant, PTL

\* run_discovery and launch_scan: as long as no thread drops a Keep, queued work
\* has a worker, or somebody who is about to launch one, or it waits because
\* discovery was cancelled or failed.  (With "unkeep" it may be stranded; the
\* counterexample is MCEngineGate's.)
THEOREM NoWorkIsStranded ==
    ASSUME \A c \in Callers : "unkeep" \notin May[c]
    PROVE  Spec => []NoStrandedWork
<1>1. Init => WorkIsAnswered
    BY DEF Init, WorkIsAnswered, NobodyUnkeeps, CancelIsAnswered, LaunchIsOwed
<1>2. GateInv /\ WorkIsAnswered /\ [Next]_vars => WorkIsAnswered'
    BY UnkeepStep, CancelStep, LaunchStep DEF WorkIsAnswered, GateInv, MutationIsAlone
<1>3. WorkIsAnswered => NoStrandedWork
    BY DEF WorkIsAnswered, LaunchIsOwed, NoStrandedWork, Answering, Launches, Fenced,
           Checks
<1> QED  BY <1>1, <1>2, <1>3, GateInvariant, PTL DEF Spec

=============================================================================
