------------------------------ MODULE MCEngine ------------------------------
(* The parts of the engine that share no state but flags, in one instance:  *)
(* each behaviour is a behaviour of one part, while the others rest in      *)
(* their initial states.  The desk's properties are ReviewDesk's.           *)
EXTENDS ReviewDesk

CONSTANTS Worker, Nobody, c1, c2, c3, copy, keeper, t1, t2, r1, r2

VARIABLES
    part,
    \* EngineGate
    runtime, store, asleep, busy, scanning, gateCleaning, gateChecking, cancel,
    scanPaused, pauseRequested, parked, resumeCancelled, urgent, pending, reading,
    outdated, stop, gaveUp, at, worker,
    \* ForegroundScan
    fg, generation, saved, server, active, waiting, refused, fgCancel, paused,
    resuming, cancelling, parking, launches, interruptions

guarding == <<runtime, store, asleep, busy, scanning, gateCleaning, gateChecking,
              cancel, scanPaused, pauseRequested, parked, resumeCancelled, urgent,
              pending, reading, outdated, stop, gaveUp, at, worker>>
watching == <<fg, generation, saved, server, active, waiting, refused, fgCancel,
              paused, resuming, cancelling, parking, launches, interruptions>>

DeskRoles == [c \in {c1, c2} |->
    IF c = c1 THEN {"prepare", "prepareDuplicate", "cancel", "dirty"}
    ELSE {"execute", "check", "keep", "authorize"}]

\* Together the three threads ask for everything but "unkeep".
GateRoles == [c \in {c1, c2, c3} |->
    CASE c = c1 -> {"execute", "scan", "dirty"}
      [] c = c2 -> {"cancel", "resume", "hurry", "scan"}
      [] c = c3 -> {"check", "snapshot", "cancel", "execute"}]
Gate == INSTANCE EngineGate
    WITH Callers <- {c1, c2, c3}, ActiveScans <- 2, May <- GateRoles,
         cleaning <- gateCleaning, checking <- gateChecking

Watched == INSTANCE ForegroundScan
    WITH Roots <- {r1, r2}, ActiveScans <- 2, Requests <- {{r1, r2}},
         Dirtied <- {<<r1, "full">>}, MaxGenerations <- 2, MaxInterruptions <- 1,
         worker <- server, pending <- waiting, stop <- refused, cancel <- fgCancel,
         resumeCancelled <- resuming, cleaning <- parking
ASSUME RequestsAreBounded == Watched!ScanAssumption

PartsInit ==
    /\ part \in {"gate", "desk", "watched"}
    /\ Init /\ Gate!Init /\ Watched!Init
    /\ pending => part = "gate"

PartsNext ==
    \/ part = "desk" /\ Next
       /\ UNCHANGED <<part, guarding, watching>>
    \/ part = "gate" /\ Gate!Next
       /\ UNCHANGED <<part, vars, watching>>
    \/ part = "watched" /\ Watched!Next
       /\ UNCHANGED <<part, vars, guarding>>

PartsSpec == PartsInit /\ [][PartsNext]_<<part, vars, guarding, watching>>

\* The gate with three threads: nothing is read beside a mutation, no wake-up is
\* lost and no queued work is left without a worker.
GateIsSound ==
    part = "gate" =>
        Gate!MutationIsAlone /\ Gate!SleepersAreWoken /\ Gate!NoStrandedWork
\* A request that is shown as scanning has somebody to end it, and its summary
\* is saved once, as it ended.
RequestIsKept == part = "watched" => Watched!ActiveIsServed /\ Watched!SavedOnce
\* A request only completes by the readers admitted for it.
CompletionIsEarned == Watched!CompletionIsEarned

=============================================================================
