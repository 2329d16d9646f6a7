---------------------------- MODULE MCEngineLive ----------------------------
(* What has to happen in the end to a scan: the pool of helpers, and the    *)
(* request a user watches.  Each behaviour is a behaviour of one part,      *)
(* while the other rests.                                                   *)
EXTENDS ScanHelper

CONSTANTS None, r1, j1, j2, s1

VARIABLES
    part,
    \* ForegroundScan
    fg, generation, saved, worker, active, pending, stop, cancel, paused,
    resumeCancelled, cancelling, cleaning, launches, interruptions

watching == <<fg, generation, saved, worker, active, pending, stop, cancel, paused,
              resumeCancelled, cancelling, cleaning, launches, interruptions>>
parts == <<part, vars, watching>>

Watched == INSTANCE ForegroundScan
    WITH Roots <- {r1}, ActiveScans <- 1, Requests <- {{r1}},
         Dirtied <- {<<r1, "part">>, <<r1, "full">>}, MaxGenerations <- 1,
         MaxInterruptions <- 2

PartsInit ==
    /\ part \in {"helper", "watched"}
    /\ Init /\ Watched!Init

PartsNext ==
    \/ part = "helper" /\ Next /\ UNCHANGED <<part, watching>>
    \/ part = "watched" /\ Watched!Next /\ UNCHANGED <<part, vars>>

\* The fairness of each part's own specification, while the part moves.
FairParts ==
    /\ PartsInit /\ [][PartsNext]_parts
    /\ \A s \in Supervisors : WF_vars(part = "helper" /\ Supervise(s))
    /\ \A j \in Jobs : /\ WF_vars(part = "helper" /\ Wake(j))
                       /\ WF_vars(part = "helper" /\ Listen(j))
    /\ WF_watching(part = "watched" /\ Watched!Settle)
    /\ WF_watching(part = "watched" /\ Watched!CancelLocked)
    /\ WF_watching(part = "watched" /\ Watched!EndCleaning)
    /\ \A how \in {"explicit", "background"} :
         WF_watching(part = "watched" /\ Watched!Launch(how))
    /\ WF_watching(part = "watched" /\ Watched!Ends(r1))
    /\ \A s \in {r1} \X {"full", "part"} :
         SF_watching(part = "watched" /\ Watched!Admit(s))

\* Handle::abort frees the supervisor of the job, even one that waits for room;
\* the coordinator learns how every job ended that it did not give up.
JobsEnd == AbortedJobsEnd /\ OutcomeIsTold
\* A scan that is shown as running ends, however it is interrupted.
RequestsEnd == Watched!RequestsEnd

=============================================================================
