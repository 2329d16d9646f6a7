----------------------------- MODULE ScanHelper -----------------------------
(***************************************************************************)
(* The pool of scan helpers of core/src/scan_worker.rs: a bounded queue of  *)
(* jobs, supervisors that each drive one child process, and per job a       *)
(* mailbox between its supervisor and the coordinator, with one mutex and   *)
(* one condition variable.                                                  *)
(*                                                                         *)
(* No order is assumed of the frames a child writes: the decoder has to     *)
(* refuse what is out of order.  Time is abstracted: a deadline may pass    *)
(* whenever it is looked at.                                                *)
(***************************************************************************)
EXTENDS Naturals, Sequences

CONSTANTS
    Jobs,
    Supervisors,      \* ACTIVE_SCANS threads
    QueuedScans,      \* QUEUED_SCANS
    QueuedFrames      \* MAX_QUEUED_EVENT_FRAMES

ASSUME HelperAssumption ==
    /\ "none" \notin Jobs
    /\ QueuedScans \in Nat /\ QueuedFrames \in Nat \ {0}

VARIABLES
    queue,            \* Pool.jobs
    sup,              \* what each supervisor does
    mail,             \* each job's mailbox
    handle,           \* the coordinator's handle of each job
    aborted, started, \* the two flags shared through Arc
    child,            \* each job's process (external)
    asleep,           \* supervisors that wait in Mailbox::push
    told              \* what the coordinator has received

vars == <<queue, sup, mail, handle, aborted, started, child, asleep, told>>

Ordinary == {"resolved", "batch"}
Terminal == {"finished", "failed"}
Frames == Ordinary \cup Terminal \cup {"malformed"}

Idle == [at |-> "idle", job |-> "none", frame |-> "none", resolved |-> FALSE,
         terminal |-> "none", eof |-> FALSE]
Places == {"idle", "launch", "request", "drive", "read", "push", "failed", "exited",
           "finish"}

Supervision ==
    [at : Places, job : Jobs \cup {"none"}, frame : Ordinary \cup Terminal \cup {"none"},
     resolved : BOOLEAN, terminal : Terminal \cup {"none"}, eof : BOOLEAN]

Mailbox == [events : Seq(Ordinary \cup Terminal), closed : BOOLEAN, failed : BOOLEAN]

\* The shape of the pool and its mailboxes, whose bounds hold (scan_worker.rs).
TypeOK ==
    /\ queue \in Seq(Jobs) /\ Len(queue) <= QueuedScans
    /\ sup \in [Supervisors -> Supervision]
    /\ mail \in [Jobs -> Mailbox]
    /\ handle \in [Jobs -> {"none", "held", "aborting", "gone"}]
    /\ {aborted, started} \subseteq SUBSET Jobs
    /\ child \in [Jobs -> {"none", "running", "exited", "crashed", "reaped"}]
    /\ asleep \subseteq Supervisors
    /\ told \in [Jobs -> {"nothing", "scope", "end", "failure"}]

Init ==
    /\ queue = <<>>
    /\ sup = [s \in Supervisors |-> Idle]
    /\ mail = [j \in Jobs |-> [events |-> <<>>, closed |-> FALSE, failed |-> FALSE]]
    /\ handle = [j \in Jobs |-> "none"]
    /\ aborted = {} /\ started = {}
    /\ child = [j \in Jobs |-> "none"]
    /\ asleep = {}
    /\ told = [j \in Jobs |-> "nothing"]

Goto(s, place) == sup' = [sup EXCEPT ![s].at = place]
\* notify_all on the mailbox of j.
Notify(j) == asleep' = {s \in asleep : sup[s].job # j}
Fail(j) ==
    /\ mail' = [mail EXCEPT ![j] = [events |-> <<>>, closed |-> TRUE, failed |-> TRUE]]
    /\ Notify(j)
\* The supervisor gives up on its child and has to end and reap it.
GiveUp(s) == Fail(sup[s].job) /\ Goto(s, "failed")

-----------------------------------------------------------------------------
(* The coordinator                                                         *)

\* start, enqueue: a full queue refuses the job at once.
Start(j) ==
    /\ handle[j] = "none"
    /\ IF Len(queue) < QueuedScans
       THEN queue' = Append(queue, j) /\ handle' = [handle EXCEPT ![j] = "held"]
            /\ UNCHANGED <<aborted, told>>
       ELSE /\ handle' = [handle EXCEPT ![j] = "gone"] /\ aborted' = aborted \cup {j}
            /\ told' = [told EXCEPT ![j] = "failure"]
            /\ UNCHANGED queue
    /\ UNCHANGED <<sup, mail, started, child, asleep>>

\* Handle::abort sets the flag, then notifies under the mailbox mutex.
Abort(j) ==
    /\ handle' = [handle EXCEPT ![j] = "aborting"]
    /\ aborted' = aborted \cup {j}

\* Faulty on purpose: a supervisor that waits for room is not woken.
WakeNobody(j) ==
    /\ handle[j] = "aborting"
    /\ handle' = [handle EXCEPT ![j] = "gone"]
    /\ UNCHANGED <<queue, sup, mail, aborted, started, child, asleep, told>>

Wake(j) ==
    /\ handle[j] = "aborting"
    /\ handle' = [handle EXCEPT ![j] = "gone"]
    /\ Notify(j)
    /\ UNCHANGED <<queue, sup, mail, aborted, started, child, told>>

\* The coordinator drops a handle whenever it retires the scope.
DropHandle(j) ==
    /\ handle[j] = "held"
    /\ Abort(j)
    /\ UNCHANGED <<queue, sup, mail, started, child, asleep, told>>

\* try_recv: a job no supervisor took before its deadline is aborted ...
QueuedTooLong(j) ==
    /\ handle[j] = "held" /\ j \notin started
    /\ Abort(j)
    /\ told' = [told EXCEPT ![j] = "failure"]
    /\ UNCHANGED <<queue, sup, mail, started, child, asleep>>

\* ... a failure is final ...
ReceiveFailure(j) ==
    /\ handle[j] = "held" /\ mail[j].failed
    /\ Abort(j)
    /\ told' = [told EXCEPT ![j] = "failure"]
    /\ UNCHANGED <<queue, sup, mail, started, child, asleep>>

\* ... and an event makes room for the next; after a terminal one the
\* coordinator is done with the job.
ReceiveEvent(j) ==
    /\ handle[j] = "held" /\ ~mail[j].failed /\ mail[j].events # <<>>
    /\ LET e == Head(mail[j].events)
       IN  /\ mail' = [mail EXCEPT ![j].events = Tail(@)]
           /\ Notify(j)
           /\ told' = [told EXCEPT ![j] = IF e \in Terminal THEN "end" ELSE "scope"]
           /\ IF e \in Terminal THEN Abort(j) ELSE UNCHANGED <<handle, aborted>>
    /\ UNCHANGED <<queue, sup, started, child>>

-----------------------------------------------------------------------------
(* A supervisor                                                            *)

TakeJob(s) ==
    /\ sup[s].at = "idle" /\ queue # <<>>
    /\ queue' = Tail(queue)
    /\ started' = started \cup {Head(queue)}
    /\ sup' = [sup EXCEPT ![s] = [Idle EXCEPT !.at = "launch", !.job = Head(queue)]]
    /\ UNCHANGED <<mail, handle, aborted, child, asleep, told>>

\* Faulty on purpose: an aborted job is dropped without a word.
LaunchSilently(s) ==
    /\ sup[s].at = "launch"
    /\ LET j == sup[s].job
       IN  \/ /\ sup' = [sup EXCEPT ![s] = Idle]
              /\ UNCHANGED <<mail, asleep, child>>
           \/ /\ j \notin aborted
              /\ child' = [child EXCEPT ![j] = "running"]
              /\ Goto(s, "request")
              /\ UNCHANGED <<mail, asleep>>
    /\ UNCHANGED <<queue, handle, aborted, started, told>>

Launch(s) ==
    /\ sup[s].at = "launch"
    /\ LET j == sup[s].job
       IN  \/ /\ Fail(j)                  \* aborted, or the child cannot start
              /\ sup' = [sup EXCEPT ![s] = Idle]
              /\ UNCHANGED child
           \/ /\ j \notin aborted
              /\ child' = [child EXCEPT ![j] = "running"]
              /\ Goto(s, "request")
              /\ UNCHANGED <<mail, asleep>>
    /\ UNCHANGED <<queue, handle, aborted, started, told>>

\* write_request and the pipes: aborted, stalled or broken, or written.
WriteRequest(s) ==
    /\ sup[s].at = "request"
    /\ \/ GiveUp(s)
       \/ sup[s].job \notin aborted /\ Goto(s, "drive") /\ UNCHANGED <<mail, asleep>>
    /\ UNCHANGED <<queue, handle, aborted, started, child, told>>

\* The child exits, or dies; what it wrote can still be read.
ChildExits(j) ==
    /\ child[j] = "running"
    /\ child' \in {[child EXCEPT ![j] = "exited"], [child EXCEPT ![j] = "crashed"]}
    /\ UNCHANGED <<queue, sup, mail, handle, aborted, started, asleep, told>>

\* drive_child looks at the abort flag and the deadline, then reads.
Drive(s) ==
    /\ sup[s].at = "drive"
    /\ \/ GiveUp(s)
       \/ sup[s].job \notin aborted /\ Goto(s, "read") /\ UNCHANGED <<mail, asleep>>
    /\ UNCHANGED <<queue, handle, aborted, started, child, told>>

\* Faulty on purpose: only the first frame is checked.
OutOfOrderStart(d, f) == f = "malformed" \/ (f # "resolved" /\ ~d.resolved)

OutOfOrder(d, f) ==
    \/ f = "malformed" \/ d.terminal # "none"
    \/ (f = "resolved") = d.resolved

\* FrameDecoder::feed: an ordinary frame is pushed at once, a terminal one is
\* kept until the child has ended.
Feed(s, f) ==
    /\ sup[s].at = "read" /\ ~sup[s].eof
    /\ IF OutOfOrder(sup[s], f) THEN GiveUp(s)
       ELSE /\ sup' = [sup EXCEPT ![s] =
                 IF f \in Terminal THEN [@ EXCEPT !.terminal = f, !.at = "drive"]
                 ELSE [@ EXCEPT !.resolved = TRUE, !.frame = f, !.at = "push"]]
            /\ UNCHANGED <<mail, asleep>>
    /\ UNCHANGED <<queue, handle, aborted, started, child, told>>

\* Both streams ended; the exit status may still have to come.
Eof(s) ==
    /\ sup[s].at = "read"
    /\ sup' = [sup EXCEPT ![s] = [@ EXCEPT !.eof = TRUE, !.at = "drive"]]
    /\ UNCHANGED <<queue, mail, handle, aborted, started, child, asleep, told>>

ExitStatus(s) ==
    /\ sup[s].at = "read" /\ sup[s].eof
    /\ \/ child[sup[s].job] = "exited" /\ Goto(s, "exited") /\ UNCHANGED <<mail, asleep>>
       \/ child[sup[s].job] = "crashed" /\ GiveUp(s)
    /\ UNCHANGED <<queue, handle, aborted, started, child, told>>

\* Faulty on purpose: the terminal event is published before the child's group
\* is ended and the child reaped.
ReapLater(s) ==
    /\ sup[s].at \in {"failed", "exited"}
    /\ sup' = [sup EXCEPT ![s] = IF @.at = "failed" THEN Idle ELSE [@ EXCEPT !.at = "finish"]]
    /\ UNCHANGED <<queue, mail, handle, aborted, started, child, asleep, told>>

\* terminate_unreaped: the process group is killed, and the leader reaped.
Reap(s) ==
    /\ sup[s].at \in {"failed", "exited"}
    /\ child' = [child EXCEPT ![sup[s].job] = "reaped"]
    /\ sup' = [sup EXCEPT ![s] = IF @.at = "failed" THEN Idle ELSE [@ EXCEPT !.at = "finish"]]
    /\ UNCHANGED <<queue, mail, handle, aborted, started, asleep, told>>

\* FrameDecoder::finish: a cut frame, no scope or no end is a failure.
Finish(s) ==
    /\ sup[s].at = "finish"
    /\ \/ Fail(sup[s].job) /\ sup' = [sup EXCEPT ![s] = Idle]
       \/ /\ sup[s].resolved /\ sup[s].terminal # "none"
          /\ sup' = [sup EXCEPT ![s] =
                       [@ EXCEPT !.frame = sup[s].terminal, !.at = "push"]]
          /\ UNCHANGED <<mail, asleep>>
    /\ UNCHANGED <<queue, handle, aborted, started, child, told>>

\* Faulty on purpose: ordinary events may fill the mailbox.
LimitShared(f) == QueuedFrames

\* One slot of the mailbox is kept for a terminal event.
Limit(f) == IF f \in Terminal THEN QueuedFrames ELSE QueuedFrames - 1

\* Mailbox::push.  Refused: the job fails.  No room: wait to be notified.
Push(s) ==
    /\ sup[s].at = "push" /\ s \notin asleep
    /\ LET j == sup[s].job
           f == sup[s].frame
           refused == mail[j].closed \/ j \in aborted
       IN  /\ IF refused
              THEN /\ Fail(j)
                   /\ sup' = [sup EXCEPT ![s] =
                        IF f \in Terminal THEN Idle ELSE [@ EXCEPT !.at = "failed"]]
              ELSE IF Len(mail[j].events) < Limit(f)
              THEN /\ mail' = [mail EXCEPT ![j] =
                        [events |-> Append(mail[j].events, f), closed |-> f \in Terminal,
                         failed |-> FALSE]]
                   /\ Notify(j)
                   /\ sup' = [sup EXCEPT ![s] =
                        IF f \in Terminal THEN Idle
                        ELSE [@ EXCEPT !.frame = "none", !.at = "drive"]]
              ELSE /\ asleep' = asleep \cup {s}
                   /\ UNCHANGED <<mail, sup>>
    /\ UNCHANGED <<queue, handle, aborted, started, child, told>>

-----------------------------------------------------------------------------

Supervise(s) ==
    \/ TakeJob(s) \/ Launch(s) \/ WriteRequest(s) \/ Drive(s)
    \/ \E f \in Frames : Feed(s, f)
    \/ Eof(s) \/ ExitStatus(s) \/ Reap(s) \/ Finish(s) \/ Push(s)

Listen(j) == QueuedTooLong(j) \/ ReceiveFailure(j) \/ ReceiveEvent(j)

Next ==
    \/ \E s \in Supervisors : Supervise(s)
    \/ \E j \in Jobs : Start(j) \/ Wake(j) \/ DropHandle(j) \/ Listen(j) \/ ChildExits(j)

Spec == Init /\ [][Next]_vars

\* Threads run; the coordinator polls every handle it holds; the kernel ends a
\* killed process.  Nothing is assumed of a helper.
Fairness ==
    /\ \A s \in Supervisors : WF_vars(Supervise(s))
    /\ \A j \in Jobs : WF_vars(Wake(j)) /\ WF_vars(Listen(j))
FairSpec == Spec /\ Fairness

-----------------------------------------------------------------------------
(* Properties                                                              *)

\* "Events are ordered on one helper stdout stream": whatever the child writes,
\* the coordinator is told one scope first, one terminal event last, and nothing
\* after it.
FramesAreOrdered ==
    \A j \in Jobs :
        LET e == mail[j].events
        IN  /\ \A i \in 1..Len(e) :
                 /\ e[i] = "resolved" <=> (i = 1 /\ told[j] = "nothing")
                 /\ e[i] \in Terminal => i = Len(e)
            /\ told[j] = "end" => e = <<>>

\* "then reap before admitting a replacement or publishing Finished": a terminal
\* event is only seen once its child and the child's group are gone.
EndedBeforePublished ==
    \A j \in Jobs :
        (told[j] = "end"
            \/ \E i \in 1..Len(mail[j].events) : mail[j].events[i] \in Terminal)
        => child[j] = "reaped"

\* "reserving one slot for a terminal outcome": the end of a scan never waits for
\* the coordinator, so a supervisor is never held by a finished job.
EndNeverWaits == \A s \in asleep : sup[s].frame \notin Terminal

\* What the mailbox promises the coordinator: events in order, the last of them
\* published once the child is gone and without waiting for room (Mailbox::push,
\* supervise).
StreamIsOrdered == FramesAreOrdered /\ EndedBeforePublished /\ EndNeverWaits

\* Handle::drop: a job that was given up frees its supervisor, even one that
\* waits for room in the mailbox.
AbortedJobsEnd ==
    \A s \in Supervisors : \A j \in Jobs :
        (j \in aborted /\ sup[s].job = j) ~> (sup[s].job # j)

\* Mailbox::fail on every way out of supervise: the coordinator learns the
\* outcome of every job whose supervisor has let it go, unless it gave it up.
OutcomeIsTold ==
    \A j \in Jobs :
        (j \in started /\ \A s \in Supervisors : sup[s].job # j)
            ~> (told[j] \in {"end", "failure"} \/ handle[j] = "gone")

=============================================================================
