-------------------------- MODULE ScanHelperProofs --------------------------
(***************************************************************************)
(* The mailbox of ScanHelper keeps its promise for every number of jobs,    *)
(* supervisors and slots.  What the coordinator finds in a mailbox depends  *)
(* on what the job's supervisor knows (whether it has read a scope, whether *)
(* the child is gone), so the invariant relates the two: HelperInv.         *)
(*                                                                         *)
(* The second part is the other pool of supervisors, ProbePool: who has a   *)
(* request is the only one that may kill, reap and answer, which PoolInv    *)
(* says of the queue, the supervisors and the programs together.            *)
(*                                                                         *)
(* The third part is the look at the processes of others, ActivityCheck.    *)
(* They move on while they are looked at, so ActivityInv is about those     *)
(* that have been doing the same, and the files that have been the same,    *)
(* since before the look.                                                   *)
(***************************************************************************)
EXTENDS ScanHelper, SequenceTheorems, TLAPS

Untouched == [events |-> <<>>, closed |-> FALSE, failed |-> FALSE]

\* A job that has no child yet, and of which nothing but its loss may be known.
Fresh(j) ==
    /\ mail[j] = Untouched /\ child[j] = "none"
    /\ told[j] = "nothing" \/ (told[j] = "failure" /\ j \in aborted)

\* The coordinator has been told the scope, or finds it in the mailbox.
Announced(j) == told[j] = "scope" \/ mail[j].events # <<>>

\* A job waits in one place of the queue, or was taken by one supervisor.
JobsAreOwned ==
    /\ \A i \in 1..Len(queue) : queue[i] \notin started /\ handle[queue[i]] # "none"
    /\ \A i, k \in 1..Len(queue) : queue[i] = queue[k] => i = k
    /\ \A j \in started : handle[j] # "none"
    /\ \A s \in Supervisors :
         IF sup[s].at = "idle" THEN sup[s].job = "none" ELSE sup[s].job \in started
    /\ \A s, t \in Supervisors : sup[s].job = sup[t].job => s = t \/ sup[s].job = "none"

\* What a mailbox says by itself, and how far its job has come.
MailKept(j) ==
    /\ j \notin started => Fresh(j)
    /\ mail[j].failed => mail[j].closed /\ mail[j].events = <<>>
    /\ ~mail[j].closed =>
         /\ Len(mail[j].events) < QueuedFrames
         /\ \A i \in 1..Len(mail[j].events) : mail[j].events[i] \notin Terminal
    /\ mail[j].closed /\ ~mail[j].failed =>
         /\ child[j] = "reaped" /\ \A s \in Supervisors : sup[s].job # j
    /\ told[j] = "end" => mail[j].closed /\ ~mail[j].failed
    /\ told[j] = "failure" => mail[j].failed \/ Fresh(j)
MailIsKept == \A j \in Jobs : MailKept(j)

Ordered(j) ==
    /\ \A i \in 1..Len(mail[j].events) :
         /\ mail[j].events[i] = "resolved" <=> (i = 1 /\ told[j] = "nothing")
         /\ mail[j].events[i] \in Terminal => i = Len(mail[j].events)
    /\ told[j] = "end" => mail[j].events = <<>>

Open == {"request", "drive", "read", "push", "exited", "finish"}
AtEnd(s) == sup[s].at = "finish" \/ (sup[s].at = "push" /\ sup[s].frame \in Terminal)

\* What a supervisor knows of its job.
Knows(s) ==
    LET j == sup[s].job
    IN  /\ sup[s].at = "launch" => Fresh(j) /\ ~sup[s].resolved
        /\ sup[s].at = "failed" => mail[j].failed
        /\ sup[s].at \in Open => ~mail[j].closed /\ child[j] # "none"
        /\ sup[s].at \in Open /\ sup[s].frame # "resolved" =>
             (sup[s].resolved <=> Announced(j))
        /\ sup[s].frame = "resolved" =>
             /\ sup[s].at \in {"push", "failed"} /\ sup[s].resolved
             /\ sup[s].at = "push" => ~Announced(j)
        /\ sup[s].at = "push" => sup[s].frame # "none" /\ sup[s].resolved
        /\ AtEnd(s) => child[j] = "reaped"
        /\ s \in asleep => sup[s].at = "push" /\ sup[s].frame \in Ordinary
SupervisorKnows == \A s \in Supervisors : Knows(s)

HelperInv ==
    /\ TypeOK /\ JobsAreOwned /\ MailIsKept /\ SupervisorKnows
    /\ FramesAreOrdered

-----------------------------------------------------------------------------
(* Types                                                                   *)

LEMMA TypeInit == Init => TypeOK
<1>1. Idle \in Supervision
    BY DEF Supervision, Idle, Places
<1>2. [events |-> <<>>, closed |-> FALSE, failed |-> FALSE] \in Mailbox
    BY DEF Mailbox
<1> QED  BY <1>1, <1>2, HelperAssumption DEF Init, TypeOK

LEMMA EmptyMailbox == [events |-> <<>>, closed |-> TRUE, failed |-> TRUE] \in Mailbox
BY DEF Mailbox

LEMMA ChangedMailbox ==
    ASSUME NEW m \in Mailbox, NEW e \in Seq(Ordinary \cup Terminal), NEW c \in BOOLEAN
    PROVE  /\ [m EXCEPT !.events = e] \in Mailbox
           /\ [m EXCEPT !.events = e, !.closed = c] \in Mailbox
<1>1. [m EXCEPT !.events = e] \in Mailbox
    BY DEF Mailbox
<1>2. [m EXCEPT !.events = e, !.closed = c] \in Mailbox
    BY DEF Mailbox
<1> QED  BY <1>1, <1>2

LEMMA FailKeepsType ==
    ASSUME TypeOK, NEW j \in Jobs, Fail(j)
    PROVE  mail' \in [Jobs -> Mailbox] /\ asleep' \subseteq Supervisors
BY EmptyMailbox DEF TypeOK, Fail, Notify

LEMMA IdleKeepsType ==
    ASSUME TypeOK, NEW s \in Supervisors, sup' = [sup EXCEPT ![s] = Idle]
    PROVE  sup' \in [Supervisors -> Supervision]
<1>1. Idle \in Supervision
    BY DEF Idle, Supervision, Places
<1> QED  BY <1>1 DEF TypeOK

LEMMA ChangedSupervision ==
    ASSUME NEW r \in Supervision, NEW place \in Places, NEW e \in BOOLEAN,
           NEW f \in Ordinary \cup Terminal \cup {"none"}
    PROVE  /\ [r EXCEPT !.at = place] \in Supervision
           /\ [r EXCEPT !.eof = e, !.at = place] \in Supervision
           /\ [r EXCEPT !.frame = f, !.at = place] \in Supervision
           /\ [r EXCEPT !.resolved = TRUE, !.frame = f, !.at = place] \in Supervision
           /\ f \in Terminal => [r EXCEPT !.terminal = f, !.at = place] \in Supervision
<1>1. [r EXCEPT !.at = place] \in Supervision
    BY DEF Supervision
<1>2. [r EXCEPT !.eof = e, !.at = place] \in Supervision
    BY DEF Supervision
<1>3. [r EXCEPT !.frame = f, !.at = place] \in Supervision
    BY DEF Supervision
<1>4. [r EXCEPT !.resolved = TRUE, !.frame = f, !.at = place] \in Supervision
    BY DEF Supervision
<1>5. ASSUME f \in Terminal
      PROVE  [r EXCEPT !.terminal = f, !.at = place] \in Supervision
    BY <1>5 DEF Supervision
<1> QED  BY <1>1, <1>2, <1>3, <1>4, <1>5, Zenon

LEMMA GotoKeepsType ==
    ASSUME TypeOK, NEW s \in Supervisors, NEW place \in Places, Goto(s, place)
    PROVE  sup' \in [Supervisors -> Supervision]
<1>1. [sup[s] EXCEPT !.at = place] \in Supervision
    BY ChangedSupervision DEF TypeOK
<1>2. sup' = [sup EXCEPT ![s] = [sup[s] EXCEPT !.at = place]]
    BY DEF Goto
<1> QED  BY <1>1, <1>2 DEF TypeOK

\* Whoever supervises has a job.
LEMMA JobOfSupervisor ==
    ASSUME TypeOK, JobsAreOwned, NEW s \in Supervisors, sup[s].at # "idle"
    PROVE  sup[s].job \in Jobs /\ sup[s].job \in started /\ sup[s].job # "none"
BY HelperAssumption DEF TypeOK, Supervision, JobsAreOwned

LEMMA TypeStep ==
    ASSUME TypeOK, JobsAreOwned, SupervisorKnows, [Next]_vars
    PROVE  TypeOK'
<1> USE HelperAssumption
<1> DEFINE Told == {"nothing", "scope", "end", "failure"}
           Handles == {"none", "held", "aborting", "gone"}
           Children == {"none", "running", "exited", "crashed", "reaped"}
<1>1. ASSUME NEW j \in Jobs, Start(j)
      PROVE  TypeOK'
    <2>1. handle' \in [Jobs -> Handles] /\ told' \in [Jobs -> Told] /\ aborted' \subseteq Jobs
        BY <1>1 DEF Start, TypeOK
    <2>2. queue' \in Seq(Jobs) /\ Len(queue') <= QueuedScans
        <3>1. queue \in Seq(Jobs) /\ Len(queue) \in Nat /\ Len(queue) <= QueuedScans
            BY DEF TypeOK
        <3>2. queue' = queue \/ (queue' = Append(queue, j) /\ Len(queue) < QueuedScans)
            BY <1>1 DEF Start
        <3>3. Append(queue, j) \in Seq(Jobs) /\ Len(Append(queue, j)) = Len(queue) + 1
            BY <3>1
        <3> QED  BY <3>1, <3>2, <3>3
    <2> QED  BY <1>1, <2>1, <2>2 DEF Start, TypeOK
<1>2. ASSUME NEW j \in Jobs, Wake(j)
      PROVE  TypeOK'
    BY <1>2 DEF Wake, Notify, TypeOK
<1>3. ASSUME NEW j \in Jobs, DropHandle(j)
      PROVE  TypeOK'
    BY <1>3 DEF DropHandle, Abort, TypeOK
<1>4. ASSUME NEW j \in Jobs, QueuedTooLong(j) \/ ReceiveFailure(j)
      PROVE  TypeOK'
    <2>1. told' \in [Jobs -> Told]
        BY <1>4 DEF QueuedTooLong, ReceiveFailure, TypeOK
    <2>2. handle' \in [Jobs -> Handles] /\ aborted' \subseteq Jobs
        BY <1>4 DEF QueuedTooLong, ReceiveFailure, Abort, TypeOK
    <2> QED  BY <1>4, <2>1, <2>2 DEF QueuedTooLong, ReceiveFailure, TypeOK
<1>5. ASSUME NEW j \in Jobs, ReceiveEvent(j)
      PROVE  TypeOK'
    <2>1. mail[j].events \in Seq(Ordinary \cup Terminal) /\ mail[j].events # <<>>
        BY <1>5 DEF ReceiveEvent, TypeOK, Mailbox
    <2>2. mail[j] \in Mailbox /\ Tail(mail[j].events) \in Seq(Ordinary \cup Terminal)
        BY <2>1 DEF TypeOK
    <2>3. mail' = [mail EXCEPT ![j].events = Tail(mail[j].events)]
        BY <1>5 DEF ReceiveEvent
    <2>4. mail' \in [Jobs -> Mailbox]
        BY <2>2, <2>3, ChangedMailbox DEF TypeOK
    <2>5. told' \in [Jobs -> Told] /\ asleep' \subseteq Supervisors
        BY <1>5 DEF ReceiveEvent, Notify, TypeOK
    <2>6. handle' \in [Jobs -> Handles] /\ aborted' \subseteq Jobs
        BY <1>5 DEF ReceiveEvent, Abort, TypeOK
    <2> QED  BY <1>5, <2>4, <2>5, <2>6 DEF ReceiveEvent, TypeOK
<1>6. ASSUME NEW j \in Jobs, ChildExits(j)
      PROVE  TypeOK'
    BY <1>6 DEF ChildExits, TypeOK
<1>7. ASSUME NEW s \in Supervisors, TakeJob(s)
      PROVE  TypeOK'
    <2>1. queue \in Seq(Jobs) /\ queue # <<>> /\ Head(queue) \in Jobs
          /\ Tail(queue) \in Seq(Jobs) /\ Len(Tail(queue)) = Len(queue) - 1
        BY <1>7 DEF TakeJob, TypeOK
    <2>2. [Idle EXCEPT !.at = "launch", !.job = Head(queue)] \in Supervision
        BY <2>1 DEF Idle, Supervision, Places
    <2>3. sup' \in [Supervisors -> Supervision]
        BY <1>7, <2>2 DEF TakeJob, TypeOK
    <2>4. queue' \in Seq(Jobs) /\ Len(queue') <= QueuedScans
        BY <1>7, <2>1 DEF TakeJob, TypeOK
    <2> QED  BY <1>7, <2>1, <2>3, <2>4 DEF TakeJob, TypeOK
<1>8. ASSUME NEW s \in Supervisors, Launch(s)
      PROVE  TypeOK'
    <2>1. sup[s].job \in Jobs
        BY <1>8, JobOfSupervisor DEF Launch
    <2>2. CASE Fail(sup[s].job) /\ sup' = [sup EXCEPT ![s] = Idle] /\ UNCHANGED child
        BY <1>8, <2>1, <2>2, FailKeepsType, IdleKeepsType DEF Launch, TypeOK
    <2>3. CASE child' = [child EXCEPT ![sup[s].job] = "running"] /\ Goto(s, "request")
               /\ UNCHANGED <<mail, asleep>>
        <3>1. child' \in [Jobs -> Children]
            BY <2>3 DEF TypeOK
        <3>2. sup' \in [Supervisors -> Supervision]
            BY <2>3, GotoKeepsType DEF Places
        <3> QED  BY <1>8, <2>3, <3>1, <3>2 DEF Launch, TypeOK
    <2> QED  BY <1>8, <2>2, <2>3 DEF Launch
<1>9. ASSUME NEW s \in Supervisors,
             \/ WriteRequest(s) \/ Drive(s) \/ ExitStatus(s)
             \/ \E f \in Frames : Feed(s, f) /\ OutOfOrder(sup[s], f)
      PROVE  TypeOK'
    <2>1. sup[s].job \in Jobs
        BY <1>9, JobOfSupervisor DEF WriteRequest, Drive, ExitStatus, Feed
    <2>2. UNCHANGED <<queue, handle, aborted, started, child, told>>
        BY <1>9 DEF WriteRequest, Drive, ExitStatus, Feed
    <2>3. CASE GiveUp(s)
        <3>1. sup' \in [Supervisors -> Supervision]
            BY <2>3, GotoKeepsType DEF GiveUp, Places
        <3> QED  BY <2>1, <2>2, <2>3, <3>1, FailKeepsType DEF GiveUp, TypeOK
    <2>4. CASE UNCHANGED <<mail, asleep>> /\ (\E place \in Places : Goto(s, place))
        <3>1. sup' \in [Supervisors -> Supervision]
            BY <2>4, GotoKeepsType
        <3> QED  BY <2>2, <2>4, <3>1 DEF TypeOK
    <2>5. {"drive", "read", "exited"} \subseteq Places
        BY DEF Places
    <2> QED  BY <1>9, <2>3, <2>4, <2>5 DEF WriteRequest, Drive, ExitStatus, Feed
<1>10. ASSUME NEW s \in Supervisors, NEW f \in Frames, Feed(s, f), ~OutOfOrder(sup[s], f)
      PROVE  TypeOK'
    <2>1. f \in Ordinary \cup Terminal
        BY <1>10 DEF OutOfOrder, Frames
    <2> DEFINE next == IF f \in Terminal
                       THEN [sup[s] EXCEPT !.terminal = f, !.at = "drive"]
                       ELSE [sup[s] EXCEPT !.resolved = TRUE, !.frame = f, !.at = "push"]
    <2>2. next \in Supervision
        BY <2>1, ChangedSupervision DEF TypeOK, Places
    <2>3. sup' = [sup EXCEPT ![s] = next]
        BY <1>10 DEF Feed
    <2>4. sup' \in [Supervisors -> Supervision]
        BY <2>2, <2>3 DEF TypeOK
    <2> QED  BY <1>10, <2>4 DEF Feed, TypeOK
<1>11. ASSUME NEW s \in Supervisors, Eof(s) \/ Reap(s) \/ Finish(s) \/ Push(s)
      PROVE  sup' \in [Supervisors -> Supervision]
    <2>1. sup[s] \in Supervision /\ Idle \in Supervision
        BY DEF TypeOK, Idle, Supervision, Places
    <2>2. sup[s].frame \in Ordinary \cup Terminal \cup {"none"}
          /\ sup[s].terminal \in Terminal \cup {"none"}
        BY <2>1 DEF Supervision
    <2>3. {"drive", "finish", "push", "failed"} \subseteq Places
        BY DEF Places
    <2>4. ASSUME NEW r \in Supervision, sup' = [sup EXCEPT ![s] = r]
          PROVE  sup' \in [Supervisors -> Supervision]
        BY <2>4 DEF TypeOK
    <2>5. CASE Eof(s)
        <3>1. [sup[s] EXCEPT !.eof = TRUE, !.at = "drive"] \in Supervision
            BY <2>1, <2>3, ChangedSupervision
        <3> QED  BY <2>4, <2>5, <3>1 DEF Eof
    <2>6. CASE Reap(s)
        <3>1. [sup[s] EXCEPT !.at = "finish"] \in Supervision
            BY <2>1, <2>3, ChangedSupervision
        <3> QED  BY <2>1, <2>4, <2>6, <3>1 DEF Reap
    <2>7. CASE Finish(s)
        <3>1. [sup[s] EXCEPT !.frame = sup[s].terminal, !.at = "push"] \in Supervision
            BY <2>1, <2>2, <2>3, ChangedSupervision
        <3> QED  BY <2>1, <2>4, <2>7, <3>1 DEF Finish
    <2>8. CASE Push(s)
        <3>1. [sup[s] EXCEPT !.frame = "none", !.at = "drive"] \in Supervision
              /\ [sup[s] EXCEPT !.at = "failed"] \in Supervision
            BY <2>1, <2>3, ChangedSupervision
        <3> QED  BY <2>1, <2>4, <2>8, <3>1 DEF Push, TypeOK
    <2> QED  BY <1>11, <2>5, <2>6, <2>7, <2>8
<1>12. ASSUME NEW s \in Supervisors, Eof(s) \/ Reap(s) \/ Finish(s)
      PROVE  TypeOK'
    <2>1. sup[s].job \in Jobs
        BY <1>12, JobOfSupervisor DEF Eof, Reap, Finish
    <2>2. mail' \in [Jobs -> Mailbox] /\ asleep' \subseteq Supervisors
        BY <1>12, <2>1, FailKeepsType DEF Eof, Reap, Finish, TypeOK
    <2>3. child' \in [Jobs -> Children]
        BY <1>12 DEF Eof, Reap, Finish, TypeOK
    <2>4. UNCHANGED <<queue, handle, aborted, started, told>>
        BY <1>12 DEF Eof, Reap, Finish
    <2> QED  BY <1>11, <1>12, <2>2, <2>3, <2>4 DEF TypeOK
<1>13. ASSUME NEW s \in Supervisors, Push(s)
      PROVE  TypeOK'
    <2> DEFINE j == sup[s].job
               f == sup[s].frame
    <2>1. j \in Jobs /\ f \in Ordinary \cup Terminal
        BY <1>13, JobOfSupervisor DEF Push, SupervisorKnows, Knows, TypeOK, Supervision
    <2>2. mail' \in [Jobs -> Mailbox] /\ asleep' \subseteq Supervisors
        <3>1. CASE Fail(j)
            BY <2>1, <3>1, FailKeepsType
        <3>2. CASE mail' = [mail EXCEPT ![j] =
                        [events |-> Append(mail[j].events, f), closed |-> f \in Terminal,
                         failed |-> FALSE]]
                   /\ Notify(j)
            <4>1. mail[j] \in Mailbox /\ (f \in Terminal) \in BOOLEAN
                BY <2>1 DEF TypeOK
            <4>2. Append(mail[j].events, f) \in Seq(Ordinary \cup Terminal)
                BY <2>1, <4>1 DEF Mailbox
            <4>3. [events |-> Append(mail[j].events, f), closed |-> f \in Terminal,
                   failed |-> FALSE] \in Mailbox
                BY <4>1, <4>2 DEF Mailbox
            <4> QED  BY <2>1, <3>2, <4>3 DEF TypeOK, Notify
        <3>3. CASE asleep' = asleep \cup {s} /\ UNCHANGED mail
            BY <3>3 DEF TypeOK
        <3> QED  BY <1>13, <3>1, <3>2, <3>3 DEF Push
    <2>3. UNCHANGED <<queue, handle, aborted, started, child, told>>
        BY <1>13 DEF Push
    <2> QED  BY <1>11, <1>13, <2>2, <2>3 DEF TypeOK
<1>14. CASE UNCHANGED vars
    BY <1>14 DEF vars, TypeOK
<1> QED
    BY <1>1, <1>2, <1>3, <1>4, <1>5, <1>6, <1>7, <1>8, <1>9, <1>10, <1>11, <1>12,
       <1>13, <1>14 DEF Next, Supervise, Listen

-----------------------------------------------------------------------------
(* Steps                                                                   *)

LEMMA OrderedJobs == FramesAreOrdered <=> \A j \in Jobs : Ordered(j)
BY DEF FramesAreOrdered, Ordered

\* A job that a step does not concern.
LEMMA OtherJob ==
    ASSUME HelperInv, NEW k \in Jobs,
           mail'[k] = mail[k], told'[k] = told[k], child'[k] = child[k],
           aborted \subseteq aborted', k \in started' <=> k \in started,
           \A s \in Supervisors : sup'[s].job = k => sup[s].job = k
    PROVE  MailKept(k)' /\ Ordered(k)'
<1>1. MailKept(k) /\ Ordered(k)
    BY OrderedJobs DEF HelperInv, MailIsKept
<1>2. Fresh(k) => Fresh(k)'
    BY DEF Fresh, Untouched
<1>3. MailKept(k)'
    BY <1>1, <1>2 DEF MailKept
<1>4. Ordered(k)'
    BY <1>1 DEF Ordered
<1> QED  BY <1>3, <1>4

\* A supervisor that a step does not concern.
LEMMA OtherSupervisor ==
    ASSUME HelperInv, NEW s \in Supervisors, sup'[s] = sup[s],
           s \in asleep' => s \in asleep, aborted \subseteq aborted',
           \/ sup[s].at = "idle"
           \/ LET j == sup[s].job
              IN  mail'[j] = mail[j] /\ told'[j] = told[j] /\ child'[j] = child[j]
    PROVE  Knows(s)'
<1>1. Knows(s)
    BY DEF HelperInv, SupervisorKnows
<1>2. CASE sup[s].at = "idle"
    BY <1>1, <1>2 DEF Knows, AtEnd, Open
<1>3. CASE sup[s].at # "idle"
    <2> DEFINE j == sup[s].job
    <2>1. mail'[j] = mail[j] /\ told'[j] = told[j] /\ child'[j] = child[j]
        BY <1>3
    <2>2. Fresh(j) => Fresh(j)'
        BY <2>1 DEF Fresh, Untouched
    <2>3. Announced(j)' <=> Announced(j)
        BY <2>1 DEF Announced
    <2>4. AtEnd(s)' <=> AtEnd(s)
        BY DEF AtEnd
    <2>5. sup'[s].job = j
        OBVIOUS
    <2> HIDE DEF j
    <2> QED  BY <1>1, <2>1, <2>2, <2>3, <2>4, <2>5 DEF Knows, j
<1> QED  BY <1>2, <1>3

\* What is left of the invariant once the types are known.
Rest == JobsAreOwned /\ MailIsKept /\ SupervisorKnows /\ FramesAreOrdered

\* A step of one supervisor with its job: the other supervisors and jobs keep
\* what they have.
LEMMA SupervisorStep ==
    ASSUME HelperInv, NEW s \in Supervisors, NEW j \in Jobs,
           sup[s].at # "idle", sup[s].job = j,
           NEW r, sup' = [sup EXCEPT ![s] = r], r = Idle \/ (r.job = j /\ r.at # "idle"),
           UNCHANGED <<queue, handle, aborted, started, told>>,
           \A k \in Jobs : k # j => mail'[k] = mail[k] /\ child'[k] = child[k],
           \A t \in asleep' : t = s \/ t \in asleep,
           MailKept(j)', Ordered(j)', Knows(s)'
    PROVE  Rest'
<1>1. j \in started /\ j # "none"
    BY JobOfSupervisor DEF HelperInv
<1>2. sup'[s] = r /\ \A t \in Supervisors : t # s => sup'[t] = sup[t]
    BY DEF HelperInv, TypeOK
<1>3. \/ r.at = "idle" /\ r.job = "none"
      \/ r.at # "idle" /\ r.job = j
    BY DEF Idle
<1>4. JobsAreOwned'
    <2>1. \A t \in Supervisors :
            IF sup'[t].at = "idle" THEN sup'[t].job = "none" ELSE sup'[t].job \in started
        BY <1>1, <1>2, <1>3 DEF HelperInv, JobsAreOwned
    <2>2. \A t \in Supervisors : sup'[t].job = sup[t].job \/ sup'[t].job = "none"
        BY <1>2, <1>3
    <2>3. \A t, u \in Supervisors :
            sup'[t].job = sup'[u].job => t = u \/ sup'[t].job = "none"
        BY <2>2 DEF HelperInv, JobsAreOwned
    <2> QED  BY <2>1, <2>3 DEF HelperInv, JobsAreOwned
<1>5. \A k \in Jobs : MailKept(k)' /\ Ordered(k)'
    <2>1. ASSUME NEW k \in Jobs, k # j
          PROVE  MailKept(k)' /\ Ordered(k)'
        <3>1. \A t \in Supervisors : sup'[t].job = k => sup[t].job = k
            BY <1>2, <1>3, HelperAssumption
        <3> QED  BY <2>1, <3>1, OtherJob
    <2> QED  BY <2>1
<1>6. \A t \in Supervisors : Knows(t)'
    <2>1. ASSUME NEW t \in Supervisors, t # s
          PROVE  Knows(t)'
        <3>1. sup[t].at = "idle" \/ (sup[t].job # j /\ sup[t].job \in Jobs)
            BY <1>1, <2>1, JobOfSupervisor DEF HelperInv, JobsAreOwned
        <3> QED  BY <1>2, <2>1, <3>1, OtherSupervisor
    <2> QED  BY <2>1
<1>7. MailIsKept' /\ SupervisorKnows'
    BY <1>5, <1>6 DEF MailIsKept, SupervisorKnows
<1>8. FramesAreOrdered'
    BY <1>5 DEF FramesAreOrdered, Ordered
<1> QED  BY <1>4, <1>7, <1>8 DEF Rest

\* A step of the coordinator, or of a child, with one job.
LEMMA JobStep ==
    ASSUME HelperInv, NEW j \in Jobs, JobsAreOwned', UNCHANGED sup,
           \A k \in Jobs : k # j =>
               /\ mail'[k] = mail[k] /\ child'[k] = child[k] /\ told'[k] = told[k]
               /\ k \in started' <=> k \in started,
           aborted \subseteq aborted', asleep' \subseteq asleep,
           MailKept(j)', Ordered(j)',
           \A s \in Supervisors : sup[s].at # "idle" /\ sup[s].job = j => Knows(s)'
    PROVE  Rest'
<1>1. \A k \in Jobs : MailKept(k)' /\ Ordered(k)'
    <2>1. ASSUME NEW k \in Jobs, k # j
          PROVE  MailKept(k)' /\ Ordered(k)'
        BY <2>1, OtherJob
    <2> QED  BY <2>1
<1>2. \A t \in Supervisors : Knows(t)'
    <2>1. ASSUME NEW t \in Supervisors, sup[t].at = "idle" \/ sup[t].job # j
          PROVE  Knows(t)'
        <3>1. sup[t].at = "idle" \/ (sup[t].job # j /\ sup[t].job \in Jobs)
            BY <2>1, JobOfSupervisor DEF HelperInv
        <3> QED  BY <3>1, OtherSupervisor
    <2> QED  BY <2>1
<1>3. MailIsKept' /\ SupervisorKnows'
    BY <1>1, <1>2 DEF MailIsKept, SupervisorKnows
<1>4. FramesAreOrdered'
    BY <1>1 DEF FramesAreOrdered, Ordered
<1> QED  BY <1>3, <1>4 DEF Rest

\* A supervisor gives its job up: Mailbox::fail on every way out of supervise.
LEMMA FailStep ==
    ASSUME HelperInv, NEW s \in Supervisors, NEW j \in Jobs,
           sup[s].at # "idle", sup[s].job = j, Fail(j),
           UNCHANGED <<queue, handle, aborted, started, child, told>>,
           \/ sup' = [sup EXCEPT ![s] = Idle]
           \/ sup' = [sup EXCEPT ![s] = [sup[s] EXCEPT !.at = "failed"]]
    PROVE  Rest'
<1> DEFINE Lost == [events |-> <<>>, closed |-> TRUE, failed |-> TRUE]
<1>1. j \in started
    BY JobOfSupervisor DEF HelperInv
<1>2. mail' = [mail EXCEPT ![j] = Lost] /\ asleep' = {t \in asleep : sup[t].job # j}
    BY DEF Fail, Notify
<1>3. sup \in [Supervisors -> Supervision] /\ mail \in [Jobs -> Mailbox]
    BY DEF HelperInv, TypeOK
<1>4. PICK r \in {Idle, [sup[s] EXCEPT !.at = "failed"]} : sup' = [sup EXCEPT ![s] = r]
    OBVIOUS
<1>5. \/ r = Idle
      \/ /\ r.at = "failed" /\ r.job = j
         /\ r.frame = sup[s].frame /\ r.resolved = sup[s].resolved
    BY <1>3 DEF Supervision
<1>6. mail'[j] = Lost /\ \A k \in Jobs : k # j => mail'[k] = mail[k]
    BY <1>1, <1>2, <1>3
<1>7. told[j] # "end"
    BY <1>1 DEF HelperInv, MailIsKept, MailKept
<1>8. MailKept(j)'
    BY <1>1, <1>6, <1>7 DEF MailKept
<1>9. Ordered(j)'
    <2>1. mail'[j].events = <<>>
        BY <1>6
    <2> QED  BY <2>1 DEF Ordered
<1>10. Knows(s)'
    <2>1. s \notin asleep' /\ sup'[s] = r
        BY <1>2, <1>3, <1>4
    <2>2. Knows(s)
        BY DEF HelperInv, SupervisorKnows
    <2> QED  BY <1>5, <1>6, <2>1, <2>2 DEF Knows, Idle, Open, AtEnd, Ordinary, Terminal
<1>11. r = Idle \/ (r.job = j /\ r.at # "idle")
    BY <1>5
<1>12. \A t \in asleep' : t = s \/ t \in asleep
    BY <1>2
<1> HIDE DEF Lost
<1> QED
    BY <1>4, <1>6, <1>8, <1>9, <1>10, <1>11, <1>12, SupervisorStep

\* What is known before a supervisor's step.
LEMMA BeforeStep ==
    ASSUME HelperInv, NEW s \in Supervisors, sup[s].at # "idle"
    PROVE  /\ sup[s].job \in Jobs /\ sup[s].job \in started
           /\ sup[s] \in Supervision /\ mail[sup[s].job] \in Mailbox
           /\ MailKept(sup[s].job) /\ Ordered(sup[s].job) /\ Knows(s)
BY JobOfSupervisor, OrderedJobs
   DEF HelperInv, TypeOK, MailIsKept, SupervisorKnows

Quiet == {"request", "drive", "read", "exited"}

\* A step between two looks at the child that neither reads nor tells anything.
LEMMA QuietStep ==
    ASSUME HelperInv, NEW s \in Supervisors, NEW r, sup' = [sup EXCEPT ![s] = r],
           sup[s].at \in Quiet, r.at \in Quiet, r.job = sup[s].job,
           r.frame = sup[s].frame, r.resolved = sup[s].resolved,
           UNCHANGED <<queue, mail, handle, aborted, started, child, asleep, told>>
    PROVE  Rest'
<1>1. sup[s].at # "idle" /\ r.at # "idle"
    BY DEF Quiet
<1>2. PICK j \in Jobs : j = sup[s].job
    BY <1>1, BeforeStep
<1>3. MailKept(j) /\ Ordered(j) /\ Knows(s) /\ j \in started
    BY <1>1, <1>2, BeforeStep
<1>4. sup'[s] = r /\ \A t \in Supervisors : t # s => sup'[t] = sup[t]
    BY DEF HelperInv, TypeOK
<1>5. MailKept(j)' /\ Ordered(j)'
    <2>1. \A t \in Supervisors : sup'[t].job = sup[t].job
        BY <1>4
    <2> QED  BY <2>1, OtherJob
<1>6. Knows(s)'
    BY <1>3, <1>4 DEF Knows, Quiet, Open, AtEnd, Announced
<1> QED  BY <1>1, <1>2, <1>4, <1>5, <1>6, SupervisorStep

\* The child is started for a job that was not given up.
LEMMA LaunchStep ==
    ASSUME HelperInv, NEW s \in Supervisors, sup[s].at = "launch",
           sup[s].job \notin aborted, child' = [child EXCEPT ![sup[s].job] = "running"],
           Goto(s, "request"),
           UNCHANGED <<queue, mail, handle, aborted, started, asleep, told>>
    PROVE  Rest'
<1>1. PICK j \in Jobs : j = sup[s].job
    BY BeforeStep
<1>2. MailKept(j) /\ Ordered(j) /\ Knows(s) /\ j \in started /\ sup[s] \in Supervision
    BY <1>1, BeforeStep
<1> DEFINE r == [sup[s] EXCEPT !.at = "request"]
<1>3. r.job = j /\ r.at = "request" /\ r.frame = sup[s].frame /\ r.resolved = sup[s].resolved
    BY <1>1, <1>2 DEF Supervision
<1>4. sup' = [sup EXCEPT ![s] = r]
    BY DEF Goto
<1> HIDE DEF r
<1>5. sup'[s] = r
    BY <1>4 DEF HelperInv, TypeOK
<1>6. child'[j] = "running" /\ \A k \in Jobs : k # j => child'[k] = child[k]
    BY <1>1 DEF HelperInv, TypeOK
<1>7. mail[j] = Untouched /\ told[j] = "nothing" /\ ~sup[s].resolved
    BY <1>1, <1>2 DEF Knows, Fresh
<1>8. MailKept(j)'
    BY <1>2, <1>7 DEF MailKept, Untouched
<1>9. Ordered(j)'
    BY <1>2 DEF Ordered
<1>10. Knows(s)'
    BY <1>1, <1>2, <1>3, <1>5, <1>6, <1>7 DEF Knows, Open, AtEnd, Announced, Untouched
<1> QED  BY <1>1, <1>3, <1>4, <1>6, <1>8, <1>9, <1>10, SupervisorStep

\* An ordinary frame in its place is about to be pushed.
LEMMA FeedStep ==
    ASSUME HelperInv, NEW s \in Supervisors, sup[s].at = "read", NEW f \in Ordinary,
           (f = "resolved") # sup[s].resolved,
           sup' = [sup EXCEPT ![s] =
                     [sup[s] EXCEPT !.resolved = TRUE, !.frame = f, !.at = "push"]],
           UNCHANGED <<queue, mail, handle, aborted, started, child, asleep, told>>
    PROVE  Rest'
<1>1. PICK j \in Jobs : j = sup[s].job
    BY BeforeStep
<1>2. MailKept(j) /\ Ordered(j) /\ Knows(s) /\ sup[s] \in Supervision
    BY <1>1, BeforeStep
<1> DEFINE r == [sup[s] EXCEPT !.resolved = TRUE, !.frame = f, !.at = "push"]
<1>3. r.job = j /\ r.at = "push" /\ r.frame = f /\ r.resolved
    BY <1>1, <1>2 DEF Supervision
<1> HIDE DEF r
<1>4. sup' = [sup EXCEPT ![s] = r]
    BY DEF r
<1>5. sup'[s] = r /\ \A t \in Supervisors : t # s => sup'[t] = sup[t]
    BY <1>4 DEF HelperInv, TypeOK
<1>6. MailKept(j)' /\ Ordered(j)'
    <2>1. \A t \in Supervisors : sup'[t].job = sup[t].job
        BY <1>1, <1>3, <1>5
    <2> QED  BY <2>1, OtherJob
<1>7. Knows(s)'
    BY <1>1, <1>2, <1>3, <1>5
       DEF Knows, Open, AtEnd, Announced, Ordinary, Terminal, Supervision
<1> QED  BY <1>1, <1>3, <1>4, <1>6, <1>7, SupervisorStep

\* terminate_unreaped ends and reaps the child.
LEMMA ReapStep ==
    ASSUME HelperInv, NEW s \in Supervisors, Reap(s)
    PROVE  Rest'
<1>1. sup[s].at \in {"failed", "exited"} /\ sup[s].at # "idle"
    BY DEF Reap
<1>2. PICK j \in Jobs : j = sup[s].job
    BY <1>1, BeforeStep
<1>3. MailKept(j) /\ Ordered(j) /\ Knows(s) /\ j \in started /\ sup[s] \in Supervision
    BY <1>1, <1>2, BeforeStep
<1> DEFINE r == IF sup[s].at = "failed" THEN Idle ELSE [sup[s] EXCEPT !.at = "finish"]
<1>4. \/ r = Idle
      \/ /\ r.job = j /\ r.at = "finish" /\ r.frame = sup[s].frame
         /\ r.resolved = sup[s].resolved /\ sup[s].at = "exited"
    BY <1>1, <1>2, <1>3 DEF Supervision
<1>5. sup' = [sup EXCEPT ![s] = r]
    BY DEF Reap
<1> HIDE DEF r
<1>6. sup'[s] = r
    BY <1>5 DEF HelperInv, TypeOK
<1>7. child'[j] = "reaped" /\ \A k \in Jobs : k # j => child'[k] = child[k]
    BY <1>2 DEF Reap, HelperInv, TypeOK
<1>8. UNCHANGED <<queue, mail, handle, aborted, started, asleep, told>>
    BY DEF Reap
<1>9. MailKept(j)'
    <2>1. mail[j].failed \/ (~mail[j].closed /\ child[j] # "none")
        BY <1>1, <1>2, <1>3 DEF Knows, Open
    <2>2. ~Fresh(j)  \/ mail[j].failed
        BY <2>1 DEF Fresh
    <2> QED  BY <1>3, <1>8, <2>1, <2>2 DEF MailKept
<1>10. Ordered(j)'
    BY <1>3, <1>8 DEF Ordered
<1>11. Knows(s)'
    <2>1. s \notin asleep'
        BY <1>1, <1>3, <1>8 DEF Knows
    <2>2. CASE r = Idle
        BY <1>6, <2>1, <2>2 DEF Knows, Open, AtEnd, Idle, Terminal
    <2>3. CASE r.job = j /\ r.at = "finish" /\ r.frame = sup[s].frame
               /\ r.resolved = sup[s].resolved /\ sup[s].at = "exited"
        <3>1. ~mail[j].closed /\ sup[s].frame # "resolved"
              /\ (sup[s].resolved <=> Announced(j))
            BY <1>2, <1>3, <2>3 DEF Knows, Open
        <3>2. Announced(j)' <=> Announced(j)
            BY <1>8 DEF Announced
        <3> QED  BY <1>6, <1>7, <1>8, <2>1, <2>3, <3>1, <3>2 DEF Knows, Open, AtEnd
    <2> QED  BY <1>4, <2>2, <2>3
<1> QED
    BY <1>1, <1>2, <1>4, <1>5, <1>7, <1>8, <1>9, <1>10, <1>11, SupervisorStep

\* The last event of the job is about to be pushed.
LEMMA FinishStep ==
    ASSUME HelperInv, NEW s \in Supervisors, sup[s].at = "finish", sup[s].resolved,
           sup[s].terminal # "none",
           sup' = [sup EXCEPT ![s] =
                     [sup[s] EXCEPT !.frame = sup[s].terminal, !.at = "push"]],
           UNCHANGED <<queue, mail, handle, aborted, started, child, asleep, told>>
    PROVE  Rest'
<1>1. PICK j \in Jobs : j = sup[s].job
    BY BeforeStep
<1>2. MailKept(j) /\ Ordered(j) /\ Knows(s) /\ sup[s] \in Supervision
    BY <1>1, BeforeStep
<1>3. sup[s].terminal \in Terminal
    BY <1>2 DEF Supervision
<1> DEFINE r == [sup[s] EXCEPT !.frame = sup[s].terminal, !.at = "push"]
<1>4. r.job = j /\ r.at = "push" /\ r.frame \in Terminal /\ r.resolved
    BY <1>1, <1>2, <1>3 DEF Supervision
<1>5. sup' = [sup EXCEPT ![s] = r]
    OBVIOUS
<1> HIDE DEF r
<1>6. sup'[s] = r /\ \A t \in Supervisors : t # s => sup'[t] = sup[t]
    BY <1>5 DEF HelperInv, TypeOK
<1>7. MailKept(j)' /\ Ordered(j)'
    <2>1. \A t \in Supervisors : sup'[t].job = sup[t].job
        BY <1>1, <1>4, <1>6
    <2> QED  BY <2>1, OtherJob
<1>8. Knows(s)'
    <2>1. s \notin asleep /\ ~mail[j].closed /\ child[j] = "reaped" /\ Announced(j)
        BY <1>1, <1>2 DEF Knows, Open, AtEnd
    <2>2. Announced(j)'
        BY <2>1 DEF Announced
    <2> QED  BY <1>4, <1>6, <2>1, <2>2 DEF Knows, Open, AtEnd, Terminal
<1> QED  BY <1>1, <1>4, <1>5, <1>7, <1>8, SupervisorStep

\* Mailbox::push appends the event of a job that is neither closed nor aborted.
LEMMA PushedStep ==
    ASSUME HelperInv, NEW s \in Supervisors, NEW j \in Jobs, NEW f,
           sup[s].at = "push", sup[s].job = j, sup[s].frame = f, s \notin asleep,
           ~mail[j].closed, Len(mail[j].events) < Limit(f),
           mail' = [mail EXCEPT ![j] =
                      [events |-> Append(mail[j].events, f), closed |-> f \in Terminal,
                       failed |-> FALSE]],
           Notify(j),
           sup' = [sup EXCEPT ![s] =
                     IF f \in Terminal THEN Idle
                     ELSE [sup[s] EXCEPT !.frame = "none", !.at = "drive"]],
           UNCHANGED <<queue, handle, aborted, started, child, told>>
    PROVE  Rest'
<1>1. MailKept(j) /\ Ordered(j) /\ Knows(s) /\ j \in started /\ sup[s] \in Supervision
      /\ mail[j] \in Mailbox
    BY BeforeStep
<1>2. f \in Ordinary \cup Terminal
    BY <1>1 DEF Knows, Supervision
<1> DEFINE r == IF f \in Terminal THEN Idle
                ELSE [sup[s] EXCEPT !.frame = "none", !.at = "drive"]
           e == mail[j].events
<1>3. \/ f \in Terminal /\ r = Idle
      \/ /\ f \notin Terminal /\ r.job = j /\ r.at = "drive" /\ r.frame = "none"
         /\ r.resolved = sup[s].resolved
    BY <1>1 DEF Supervision
<1>4. sup' = [sup EXCEPT ![s] = r]
    OBVIOUS
<1> HIDE DEF r
<1>5. sup'[s] = r /\ \A t \in Supervisors : t # s => sup'[t] = sup[t]
    BY <1>4 DEF HelperInv, TypeOK
<1>6. /\ mail'[j].events = Append(e, f) /\ (mail'[j].closed <=> f \in Terminal)
      /\ ~mail'[j].failed
      /\ \A k \in Jobs : k # j => mail'[k] = mail[k]
    BY DEF HelperInv, TypeOK
<1>7. e \in Seq(Ordinary \cup Terminal) /\ Len(e) \in Nat
    BY <1>1 DEF Mailbox
<1>8. /\ Len(Append(e, f)) = Len(e) + 1
      /\ \A i \in 1..Len(e) : Append(e, f)[i] = e[i]
      /\ Append(e, f)[Len(e) + 1] = f
    BY <1>2, <1>7
<1>9. child[j] # "none" /\ sup[s].resolved
    BY <1>1 DEF Knows, Open
<1>10. told[j] \in {"nothing", "scope"}
    <2>1. told[j] # "end" /\ told[j] # "failure"
        BY <1>1, <1>9 DEF MailKept, Fresh
    <2> QED  BY <2>1 DEF HelperInv, TypeOK
<1>11. IF f = "resolved" THEN told[j] = "nothing" /\ e = <<>> ELSE Announced(j)
    <2>1. CASE f = "resolved"
        BY <1>1, <1>10, <2>1 DEF Knows, Announced
    <2>2. CASE f # "resolved"
        BY <1>1, <1>9, <2>2 DEF Knows, Open
    <2> QED  BY <2>1, <2>2
<1>12. MailKept(j)'
    <2>1. f \in Terminal => child[j] = "reaped" /\ \A t \in Supervisors : sup'[t].job # j
        <3> SUFFICES ASSUME f \in Terminal
                     PROVE  child[j] = "reaped" /\ \A t \in Supervisors : sup'[t].job # j
            OBVIOUS
        <3>1. child[j] = "reaped"
            BY <1>1 DEF Knows, AtEnd
        <3>2. \A t \in Supervisors : t # s => sup[t].job # j
            BY HelperAssumption DEF HelperInv, JobsAreOwned
        <3>3. sup'[s].job # j
            BY <1>3, <1>5, HelperAssumption DEF Idle
        <3> QED  BY <1>5, <3>1, <3>2, <3>3
    <2>2. f \notin Terminal =>
             /\ Len(Append(e, f)) < QueuedFrames
             /\ \A i \in 1..Len(Append(e, f)) : Append(e, f)[i] \notin Terminal
        BY <1>1, <1>7, <1>8, HelperAssumption DEF MailKept, Limit
    <2> QED  BY <1>1, <1>6, <1>10, <2>1, <2>2 DEF MailKept
<1>13. Ordered(j)'
    <2>1. \A i \in 1..Len(e) : i = 1 => Announced(j)
        BY <1>7 DEF Announced
    <2>2. ASSUME NEW i \in 1..Len(Append(e, f))
          PROVE  /\ Append(e, f)[i] = "resolved" <=> (i = 1 /\ told[j] = "nothing")
                 /\ Append(e, f)[i] \in Terminal => i = Len(Append(e, f))
        <3>1. CASE i \in 1..Len(e)
            <4>1. e[i] = "resolved" <=> (i = 1 /\ told[j] = "nothing")
                BY <1>1, <3>1 DEF Ordered
            <4>2. e[i] \notin Terminal
                BY <1>1, <3>1 DEF MailKept
            <4> QED  BY <1>8, <3>1, <4>1, <4>2
        <3>2. CASE i = Len(e) + 1
            <4>1. CASE f = "resolved"
                BY <1>7, <1>8, <1>11, <3>2, <4>1
            <4>2. CASE f # "resolved"
                <5>1. i = 1 => told[j] = "scope"
                    BY <1>7, <1>11, <3>2, <4>2 DEF Announced
                <5> QED  BY <1>8, <3>2, <4>2, <5>1
            <4> QED  BY <4>1, <4>2
        <3> QED  BY <1>7, <1>8, <3>1, <3>2
    <2> HIDE DEF e
    <2> QED  BY <1>6, <1>10, <2>2 DEF Ordered
<1>14. Knows(s)'
    <2>1. s \notin asleep'
        BY DEF Notify
    <2>2. CASE f \in Terminal
        BY <1>3, <1>5, <2>1, <2>2 DEF Knows, Open, AtEnd, Idle, Terminal
    <2>3. CASE f \notin Terminal
        <3>1. Announced(j)'
            <4>1. Append(e, f) # <<>>
                <5>1. Append(e, f) = <<>> => Len(Append(e, f)) = 0
                    OBVIOUS
                <5> HIDE DEF e
                <5> QED  BY <1>7, <1>8, <5>1
            <4> QED  BY <1>6, <4>1 DEF Announced
        <3>2. ~mail'[j].closed
            BY <1>6, <2>3
        <3> QED
            BY <1>3, <1>5, <1>9, <2>1, <2>3, <3>1, <3>2 DEF Knows, Open, AtEnd, Terminal
    <2> QED  BY <2>2, <2>3
<1>15. \A t \in asleep' : t = s \/ t \in asleep
    BY DEF Notify
<1>16. r = Idle \/ (r.job = j /\ r.at # "idle")
    BY <1>3
<1>17. \A k \in Jobs : k # j => mail'[k] = mail[k] /\ child'[k] = child[k]
    BY <1>6
<1> QED
    BY <1>4, <1>12, <1>13, <1>14, <1>15, <1>16, <1>17, SupervisorStep

\* No room in the mailbox: the supervisor waits, with an ordinary event.
LEMMA WaitStep ==
    ASSUME HelperInv, NEW s \in Supervisors, NEW j \in Jobs,
           sup[s].at = "push", sup[s].job = j, ~mail[j].closed,
           ~(Len(mail[j].events) < Limit(sup[s].frame)),
           asleep' = asleep \cup {s},
           UNCHANGED <<queue, sup, mail, handle, aborted, started, child, told>>
    PROVE  Rest'
<1>1. MailKept(j) /\ Knows(s) /\ sup[s] \in Supervision
    BY BeforeStep
<1>2. sup[s].frame \in Ordinary
    BY <1>1 DEF MailKept, Limit, Knows, Supervision
<1>3. \A k \in Jobs : MailKept(k)' /\ Ordered(k)'
    BY OtherJob
<1>4. Knows(s)'
    BY <1>1, <1>2 DEF Knows, Open, AtEnd, Announced, Fresh, Untouched
<1>5. sup' = [sup EXCEPT ![s] = sup[s]]
    BY DEF HelperInv, TypeOK
<1> QED  BY <1>3, <1>4, <1>5, SupervisorStep

\* A supervisor takes the job at the head of the queue.
LEMMA TakeStep ==
    ASSUME HelperInv, NEW s \in Supervisors, TakeJob(s)
    PROVE  Rest'
<1>1. queue \in Seq(Jobs) /\ queue # <<>> /\ sup[s].at = "idle"
    BY DEF HelperInv, TypeOK, TakeJob
<1>2. PICK j \in Jobs : j = Head(queue)
    BY <1>1
<1>3. 1 \in 1..Len(queue) /\ queue[1] = j /\ Len(Tail(queue)) = Len(queue) - 1
      /\ \A i \in 1..Len(Tail(queue)) : i + 1 \in 1..Len(queue) /\ Tail(queue)[i] = queue[i + 1]
    BY <1>1, <1>2
<1>4. j \notin started /\ handle[j] # "none" /\ j # "none"
    BY <1>3, HelperAssumption DEF HelperInv, JobsAreOwned
<1>5. Fresh(j) /\ Ordered(j) /\ MailKept(j)
    BY <1>4, OrderedJobs DEF HelperInv, MailIsKept, MailKept
<1> DEFINE r == [Idle EXCEPT !.at = "launch", !.job = j]
<1>6. r.at = "launch" /\ r.job = j /\ r.frame = "none" /\ ~r.resolved
    BY DEF Idle
<1>7. sup' = [sup EXCEPT ![s] = r] /\ queue' = Tail(queue) /\ started' = started \cup {j}
    BY <1>2 DEF TakeJob
<1> HIDE DEF r
<1>8. sup'[s] = r /\ \A t \in Supervisors : t # s => sup'[t] = sup[t]
    BY <1>7 DEF HelperInv, TypeOK
<1>9. UNCHANGED <<mail, handle, aborted, child, asleep, told>>
    BY DEF TakeJob
<1>10. \A t \in Supervisors : sup[t].job # j
    BY <1>4 DEF HelperInv, JobsAreOwned
<1>11. JobsAreOwned'
    <2>1. \A i \in 1..Len(queue') : queue'[i] \notin started' /\ handle'[queue'[i]] # "none"
        <3> SUFFICES ASSUME NEW i \in 1..Len(Tail(queue))
                     PROVE  Tail(queue)[i] \notin started \cup {j}
                            /\ handle[Tail(queue)[i]] # "none"
            BY <1>7, <1>9
        <3>1. i + 1 \in 1..Len(queue) /\ Tail(queue)[i] = queue[i + 1] /\ i + 1 # 1
            BY <1>1, <1>3
        <3> QED  BY <1>3, <3>1 DEF HelperInv, JobsAreOwned
    <2>2. \A i, k \in 1..Len(queue') : queue'[i] = queue'[k] => i = k
        <3> SUFFICES ASSUME NEW i \in 1..Len(Tail(queue)), NEW k \in 1..Len(Tail(queue)),
                            Tail(queue)[i] = Tail(queue)[k]
                     PROVE  i = k
            BY <1>7
        <3>1. queue[i + 1] = queue[k + 1] /\ i + 1 \in 1..Len(queue) /\ k + 1 \in 1..Len(queue)
            BY <1>3
        <3>2. i + 1 = k + 1
            BY <3>1 DEF HelperInv, JobsAreOwned
        <3> QED  BY <3>2
    <2>3. \A k \in started' : handle'[k] # "none"
        BY <1>4, <1>7, <1>9 DEF HelperInv, JobsAreOwned
    <2>4. \A t \in Supervisors :
            IF sup'[t].at = "idle" THEN sup'[t].job = "none" ELSE sup'[t].job \in started'
        BY <1>6, <1>7, <1>8 DEF HelperInv, JobsAreOwned
    <2>5. \A t, u \in Supervisors :
            sup'[t].job = sup'[u].job => t = u \/ sup'[t].job = "none"
        BY <1>6, <1>8, <1>10 DEF HelperInv, JobsAreOwned
    <2> QED  BY <2>1, <2>2, <2>3, <2>4, <2>5 DEF JobsAreOwned
<1>12. \A k \in Jobs : MailKept(k)' /\ Ordered(k)'
    <2>1. ASSUME NEW k \in Jobs, k # j
          PROVE  MailKept(k)' /\ Ordered(k)'
        <3>1. \A t \in Supervisors : sup'[t].job = k => sup[t].job = k
            BY <1>6, <1>8, <2>1
        <3>2. k \in started' <=> k \in started
            BY <1>7, <2>1
        <3> QED  BY <1>9, <3>1, <3>2, OtherJob
    <2>2. MailKept(j)'
        BY <1>5, <1>7, <1>9 DEF MailKept, Fresh, Untouched
    <2>3. Ordered(j)'
        BY <1>5, <1>9 DEF Ordered
    <2> QED  BY <2>1, <2>2, <2>3
<1>13. \A t \in Supervisors : Knows(t)'
    <2>1. ASSUME NEW t \in Supervisors, t # s
          PROVE  Knows(t)'
        BY <1>8, <1>9, <2>1, OtherSupervisor
    <2>2. Knows(s)'
        <3>1. s \notin asleep
            BY <1>1 DEF HelperInv, SupervisorKnows, Knows
        <3>2. Fresh(j)'
            BY <1>5, <1>9 DEF Fresh
        <3> QED  BY <1>6, <1>8, <1>9, <3>1, <3>2 DEF Knows, Open, AtEnd, Terminal
    <2> QED  BY <2>1, <2>2
<1>14. MailIsKept' /\ SupervisorKnows' /\ FramesAreOrdered'
    <2>1. MailIsKept' /\ SupervisorKnows'
        BY <1>12, <1>13 DEF MailIsKept, SupervisorKnows
    <2>2. FramesAreOrdered'
        BY <1>12 DEF FramesAreOrdered, Ordered
    <2> QED  BY <2>1, <2>2
<1> QED  BY <1>11, <1>14 DEF Rest

-----------------------------------------------------------------------------
(* Steps of the coordinator and of a child                                 *)

\* A handle that was used keeps being used.
LEMMA HandlesStep ==
    ASSUME HelperInv, UNCHANGED <<queue, sup, started>>,
           \A k \in Jobs : handle[k] # "none" => handle'[k] # "none"
    PROVE  JobsAreOwned'
<1>1. \A i \in 1..Len(queue) : queue[i] \in Jobs
    BY DEF HelperInv, TypeOK
<1>2. started \subseteq Jobs
    BY DEF HelperInv, TypeOK
<1> QED  BY <1>1, <1>2 DEF HelperInv, JobsAreOwned

LEMMA StartStep ==
    ASSUME HelperInv, NEW j \in Jobs, Start(j)
    PROVE  Rest'
<1>1. queue \in Seq(Jobs) /\ handle \in [Jobs -> {"none", "held", "aborting", "gone"}]
      /\ handle[j] = "none" /\ started \subseteq Jobs
    BY DEF HelperInv, TypeOK, Start
<1>2. j \notin started /\ \A i \in 1..Len(queue) : queue[i] # j
    BY <1>1 DEF HelperInv, JobsAreOwned
<1>3. UNCHANGED <<sup, mail, started, child, asleep>>
    BY DEF Start
<1>4. handle'[j] # "none" /\ \A k \in Jobs : k # j => handle'[k] = handle[k]
    BY <1>1 DEF Start
<1>5. \/ queue' = queue
      \/ queue' = Append(queue, j)
    BY DEF Start
<1>6. JobsAreOwned'
    <2>1. CASE queue' = queue
        BY <1>3, <1>4, <2>1, HandlesStep
    <2>2. CASE queue' = Append(queue, j)
        <3>1. /\ Len(queue') = Len(queue) + 1 /\ Len(queue) \in Nat
              /\ \A i \in 1..Len(queue) : queue'[i] = queue[i] /\ queue[i] \in Jobs
              /\ queue'[Len(queue) + 1] = j
            BY <1>1, <2>2
        <3>2. \A i \in 1..Len(queue') : i \in 1..Len(queue) \/ i = Len(queue) + 1
            BY <3>1
        <3>3. \A i \in 1..Len(queue') : queue'[i] \notin started' /\ handle'[queue'[i]] # "none"
            BY <1>2, <1>3, <1>4, <3>1, <3>2 DEF HelperInv, JobsAreOwned
        <3>4. \A i, k \in 1..Len(queue') : queue'[i] = queue'[k] => i = k
            BY <1>2, <3>1, <3>2 DEF HelperInv, JobsAreOwned
        <3>5. \A k \in started' : handle'[k] # "none"
            BY <1>1, <1>3, <1>4 DEF HelperInv, JobsAreOwned
        <3> QED  BY <1>3, <3>3, <3>4, <3>5 DEF HelperInv, JobsAreOwned
    <2> QED  BY <1>5, <2>1, <2>2
<1>7. Fresh(j) /\ Ordered(j) /\ MailKept(j)
    BY <1>2, OrderedJobs DEF HelperInv, MailIsKept, MailKept
<1>8. \/ told'[j] = told[j] /\ aborted' = aborted
      \/ told'[j] = "failure" /\ aborted' = aborted \cup {j}
    BY DEF Start, HelperInv, TypeOK
<1>9. \A k \in Jobs : k # j => told'[k] = told[k]
    BY DEF Start, HelperInv, TypeOK
<1>10. Fresh(j)'
    BY <1>3, <1>7, <1>8 DEF Fresh
<1>11. MailKept(j)'
    BY <1>2, <1>3, <1>7, <1>8, <1>10 DEF MailKept
<1>12. Ordered(j)'
    BY <1>3, <1>7, <1>8 DEF Ordered, Fresh, Untouched
<1>13. \A s \in Supervisors : sup[s].at # "idle" => sup[s].job # j
    BY <1>2, JobOfSupervisor DEF HelperInv
<1>14. aborted \subseteq aborted'
    BY <1>8
<1> QED
    BY <1>3, <1>6, <1>9, <1>11, <1>12, <1>13, <1>14, JobStep

\* A handle that is dropped or whose waiter is woken tells nothing.
LEMMA HandleStep ==
    ASSUME HelperInv, NEW j \in Jobs, DropHandle(j) \/ Wake(j)
    PROVE  Rest'
<1>1. UNCHANGED <<queue, sup, mail, started, child, told>>
    BY DEF DropHandle, Wake
<1>2. aborted \subseteq aborted' /\ asleep' \subseteq asleep
    BY DEF DropHandle, Wake, Abort, Notify
<1>3. \A k \in Jobs : handle[k] # "none" => handle'[k] # "none"
    BY DEF DropHandle, Wake, Abort, HelperInv, TypeOK
<1>4. JobsAreOwned'
    BY <1>1, <1>3, HandlesStep
<1>5. \A k \in Jobs : MailKept(k)' /\ Ordered(k)'
    BY <1>1, <1>2, OtherJob
<1>6. \A s \in Supervisors : Knows(s)'
    BY <1>1, <1>2, OtherSupervisor
<1> QED  BY <1>1, <1>2, <1>4, <1>5, <1>6, JobStep

\* A failure is told to the coordinator, whose own deadline may find it first.
LEMMA FailureStep ==
    ASSUME HelperInv, NEW j \in Jobs, QueuedTooLong(j) \/ ReceiveFailure(j)
    PROVE  Rest'
<1>1. UNCHANGED <<queue, sup, mail, started, child, asleep>>
    BY DEF QueuedTooLong, ReceiveFailure
<1>2. aborted' = aborted \cup {j} /\ told'[j] = "failure"
      /\ \A k \in Jobs : k # j => told'[k] = told[k]
    BY DEF QueuedTooLong, ReceiveFailure, Abort, HelperInv, TypeOK
<1>3. \A k \in Jobs : handle[k] # "none" => handle'[k] # "none"
    BY DEF QueuedTooLong, ReceiveFailure, Abort, HelperInv, TypeOK
<1>4. JobsAreOwned'
    BY <1>1, <1>3, HandlesStep
<1>5. j \notin started \/ mail[j].failed
    BY DEF QueuedTooLong, ReceiveFailure
<1>6. MailKept(j) /\ Ordered(j)
    BY OrderedJobs DEF HelperInv, MailIsKept
<1>7. Fresh(j) => Fresh(j)'
    BY <1>1, <1>2 DEF Fresh
<1>8. mail[j].events = <<>> /\ (Fresh(j) \/ mail[j].failed)
    BY <1>5, <1>6 DEF MailKept, Fresh, Untouched
<1>9. MailKept(j)'
    BY <1>1, <1>2, <1>6, <1>7, <1>8 DEF MailKept
<1>10. Ordered(j)'
    BY <1>1, <1>2, <1>8 DEF Ordered
<1>11. ASSUME NEW s \in Supervisors, sup[s].at # "idle", sup[s].job = j
       PROVE  Knows(s)'
    <2>1. Knows(s) /\ j \in started
        BY <1>11, BeforeStep
    <2>2. mail[j].failed /\ mail[j].closed
        BY <1>5, <1>6, <2>1 DEF MailKept
    <2>3. sup[s].at = "failed"
        <3>1. sup[s].at # "launch" /\ sup[s].at \notin Open
            BY <1>11, <2>1, <2>2 DEF Knows, Fresh, Untouched
        <3>2. sup[s].at \in Places
            BY DEF HelperInv, TypeOK, Supervision
        <3> QED  BY <1>11, <3>1, <3>2 DEF Places, Open
    <2> QED  BY <1>1, <1>11, <2>1, <2>2, <2>3 DEF Knows, Open, AtEnd
<1> QED  BY <1>1, <1>2, <1>4, <1>9, <1>10, <1>11, JobStep

\* The coordinator takes the first event out of the mailbox.
LEMMA EventStep ==
    ASSUME HelperInv, NEW j \in Jobs, ReceiveEvent(j)
    PROVE  Rest'
<1> DEFINE e == mail[j].events
<1>1. UNCHANGED <<queue, sup, started, child>>
    BY DEF ReceiveEvent
<1>2. mail[j] \in Mailbox /\ e \in Seq(Ordinary \cup Terminal) /\ e # <<>>
      /\ ~mail[j].failed
    BY DEF ReceiveEvent, HelperInv, TypeOK, Mailbox
<1>3. MailKept(j) /\ Ordered(j)
    BY OrderedJobs DEF HelperInv, MailIsKept
<1>4. /\ mail'[j].events = Tail(e) /\ mail'[j].closed = mail[j].closed
      /\ mail'[j].failed = mail[j].failed
      /\ \A k \in Jobs : k # j => mail'[k] = mail[k]
    BY <1>2 DEF ReceiveEvent, HelperInv, TypeOK, Mailbox
<1>5. told'[j] = (IF Head(e) \in Terminal THEN "end" ELSE "scope")
      /\ \A k \in Jobs : k # j => told'[k] = told[k]
    BY DEF ReceiveEvent, HelperInv, TypeOK
<1>6. aborted \subseteq aborted' /\ asleep' \subseteq asleep
      /\ \A k \in Jobs : handle[k] # "none" => handle'[k] # "none"
    BY DEF ReceiveEvent, Abort, Notify, HelperInv, TypeOK
<1>7. JobsAreOwned'
    BY <1>1, <1>6, HandlesStep
<1>8. /\ Head(e) = e[1] /\ 1 \in 1..Len(e) /\ Len(e) \in Nat
      /\ Len(Tail(e)) = Len(e) - 1
      /\ \A i \in 1..Len(Tail(e)) : Tail(e)[i] = e[i + 1] /\ i + 1 \in 1..Len(e)
    <2> HIDE DEF e
    <2> QED  BY <1>2
<1>9. ~Fresh(j) /\ j \in started
    BY <1>2, <1>3 DEF MailKept, Fresh, Untouched
<1>10. Head(e) \in Terminal => mail[j].closed
    BY <1>3, <1>8 DEF MailKept
<1>11. MailKept(j)'
    <2>1. ~mail[j].closed =>
             /\ Len(Tail(e)) < QueuedFrames
             /\ \A i \in 1..Len(Tail(e)) : Tail(e)[i] \notin Terminal
        BY <1>3, <1>8, HelperAssumption DEF MailKept
    <2> QED  BY <1>1, <1>2, <1>3, <1>4, <1>5, <1>9, <1>10, <2>1 DEF MailKept
<1>12. Ordered(j)'
    <2>1. ASSUME NEW i \in 1..Len(Tail(e))
          PROVE  /\ Tail(e)[i] # "resolved"
                 /\ Tail(e)[i] \in Terminal => i = Len(Tail(e))
        <3>1. i + 1 # 1 /\ i + 1 \in 1..Len(e) /\ Tail(e)[i] = e[i + 1]
            BY <1>8
        <3> QED  BY <1>3, <1>8, <3>1 DEF Ordered
    <2>2. Head(e) \in Terminal => Tail(e) = <<>>
        <3>1. Head(e) \in Terminal => Len(e) = 1
            BY <1>3, <1>8 DEF Ordered
        <3> HIDE DEF e
        <3> QED  BY <1>2, <1>8, <3>1
    <2> HIDE DEF e
    <2> QED  BY <1>4, <1>5, <2>1, <2>2 DEF Ordered
<1>13. ASSUME NEW s \in Supervisors, sup[s].at # "idle", sup[s].job = j
       PROVE  Knows(s)'
    <2>1. Knows(s) /\ sup[s] \in Supervision
        BY <1>13, BeforeStep
    <2>2. sup[s].at \in Open
        BY <1>2, <1>9, <1>13, <2>1 DEF Knows, Supervision, Places, Open
    <2>3. Announced(j)
        BY <1>2 DEF Announced
    <2>4. ~mail[j].closed /\ Announced(j)'
        BY <1>5, <1>10, <1>13, <2>1, <2>2 DEF Knows, Announced
    <2> HIDE DEF e
    <2> QED
        BY <1>1, <1>4, <1>6, <1>13, <2>1, <2>2, <2>3, <2>4 DEF Knows, Open, AtEnd
<1> HIDE DEF e
<1> QED
    BY <1>1, <1>4, <1>5, <1>6, <1>7, <1>11, <1>12, <1>13, JobStep

LEMMA ExitStep ==
    ASSUME HelperInv, NEW j \in Jobs, ChildExits(j)
    PROVE  Rest'
<1>1. UNCHANGED <<queue, sup, mail, handle, aborted, started, asleep, told>>
    BY DEF ChildExits
<1>2. child[j] = "running" /\ child'[j] # "none"
      /\ \A k \in Jobs : k # j => child'[k] = child[k]
    BY DEF ChildExits, HelperInv, TypeOK
<1>3. MailKept(j) /\ Ordered(j)
    BY OrderedJobs DEF HelperInv, MailIsKept
<1>4. JobsAreOwned'
    BY <1>1, HandlesStep
<1>5. MailKept(j)'
    BY <1>1, <1>2, <1>3 DEF MailKept, Fresh
<1>6. Ordered(j)'
    BY <1>1, <1>3 DEF Ordered
<1>7. ASSUME NEW s \in Supervisors, sup[s].at # "idle", sup[s].job = j
      PROVE  Knows(s)'
    <2>1. Knows(s)
        BY <1>7, BeforeStep
    <2>2. Announced(j)' <=> Announced(j)
        BY <1>1 DEF Announced
    <2> QED  BY <1>1, <1>2, <1>7, <2>1, <2>2 DEF Knows, Open, AtEnd, Fresh
<1> QED  BY <1>1, <1>2, <1>4, <1>5, <1>6, <1>7, JobStep

-----------------------------------------------------------------------------
(* The invariant                                                           *)

LEMMA HelperInit == Init => HelperInv
<1> SUFFICES ASSUME Init  PROVE HelperInv
    OBVIOUS
<1>1. TypeOK
    BY TypeInit
<1>2. JobsAreOwned
    BY DEF Init, JobsAreOwned, Idle
<1>3. \A j \in Jobs :
        mail[j] = Untouched /\ child[j] = "none" /\ told[j] = "nothing"
    BY DEF Init, Untouched
<1>4. Untouched.events = <<>> /\ ~Untouched.closed /\ ~Untouched.failed
      /\ Len(Untouched.events) = 0
    BY DEF Untouched
<1>5. MailIsKept
    <2> SUFFICES ASSUME NEW j \in Jobs  PROVE MailKept(j)
        BY DEF MailIsKept
    <2>1. Fresh(j)
        BY <1>3 DEF Fresh
    <2> QED  BY <1>3, <1>4, <2>1, HelperAssumption DEF MailKept
<1>6. SupervisorKnows
    BY DEF Init, SupervisorKnows, Knows, Idle, Open, AtEnd
<1>7. FramesAreOrdered
    <2> SUFFICES ASSUME NEW j \in Jobs  PROVE Ordered(j)
        BY OrderedJobs
    <2>1. mail[j].events = <<>> /\ Len(mail[j].events) = 0
        BY <1>3, <1>4
    <2> QED  BY <2>1 DEF Ordered
<1> QED  BY <1>1, <1>2, <1>5, <1>6, <1>7 DEF HelperInv

\* Every way a supervisor gives its job up, and every quiet look at the child.
LEMMA LookStep ==
    ASSUME HelperInv, NEW s \in Supervisors,
           \/ WriteRequest(s) \/ Drive(s) \/ ExitStatus(s) \/ Eof(s)
           \/ \E f \in Frames : Feed(s, f) /\ (OutOfOrder(sup[s], f) \/ f \in Terminal)
    PROVE  Rest'
<1>1. sup[s].at \in {"request", "drive", "read"}
    BY DEF WriteRequest, Drive, ExitStatus, Eof, Feed
<1>2. PICK j \in Jobs : j = sup[s].job
    BY <1>1, BeforeStep
<1>3. sup[s] \in Supervision
    BY DEF HelperInv, TypeOK
<1>4. UNCHANGED <<queue, handle, aborted, started, child, told>>
    BY DEF WriteRequest, Drive, ExitStatus, Eof, Feed
<1>5. CASE GiveUp(s)
    BY <1>1, <1>2, <1>4, <1>5, FailStep DEF GiveUp, Goto
<1>6. CASE UNCHANGED <<mail, asleep>> /\ \E place \in Quiet : Goto(s, place)
    <2>1. PICK place \in Quiet : Goto(s, place)
        BY <1>6
    <2> DEFINE r == [sup[s] EXCEPT !.at = place]
    <2>2. r.at = place /\ r.job = sup[s].job /\ r.frame = sup[s].frame
          /\ r.resolved = sup[s].resolved
        BY <1>3 DEF Supervision
    <2>3. sup' = [sup EXCEPT ![s] = r]
        BY <2>1 DEF Goto
    <2> HIDE DEF r
    <2>4. sup[s].at \in Quiet
        BY <1>1 DEF Quiet
    <2> QED  BY <1>4, <1>6, <2>1, <2>2, <2>3, <2>4, QuietStep
<1>7. CASE Eof(s)
    <2> DEFINE r == [sup[s] EXCEPT !.eof = TRUE, !.at = "drive"]
    <2>1. r.at = "drive" /\ r.job = sup[s].job /\ r.frame = sup[s].frame
          /\ r.resolved = sup[s].resolved
        BY <1>3 DEF Supervision
    <2>2. sup' = [sup EXCEPT ![s] = r] /\ UNCHANGED <<mail, asleep>>
        BY <1>7 DEF Eof
    <2> HIDE DEF r
    <2>3. sup[s].at \in Quiet /\ r.at \in Quiet
        BY <1>1, <2>1 DEF Quiet
    <2> QED  BY <1>4, <2>1, <2>2, <2>3, QuietStep
<1>8. ASSUME NEW f \in Terminal, Feed(s, f), ~OutOfOrder(sup[s], f)
      PROVE  Rest'
    <2> DEFINE r == [sup[s] EXCEPT !.terminal = f, !.at = "drive"]
    <2>1. r.at = "drive" /\ r.job = sup[s].job /\ r.frame = sup[s].frame
          /\ r.resolved = sup[s].resolved
        BY <1>3 DEF Supervision
    <2>2. sup' = [sup EXCEPT ![s] = r] /\ UNCHANGED <<mail, asleep>>
        BY <1>8 DEF Feed
    <2> HIDE DEF r
    <2>3. sup[s].at \in Quiet /\ r.at \in Quiet
        BY <1>1, <2>1 DEF Quiet
    <2> QED  BY <1>4, <2>1, <2>2, <2>3, QuietStep
<1>9. {"drive", "read", "exited"} \subseteq Quiet
    BY DEF Quiet
<1> QED
    BY <1>5, <1>6, <1>7, <1>8, <1>9 DEF WriteRequest, Drive, ExitStatus, Feed

LEMMA PushStep ==
    ASSUME HelperInv, NEW s \in Supervisors, Push(s)
    PROVE  Rest'
<1>1. sup[s].at = "push" /\ s \notin asleep
    BY DEF Push
<1>2. PICK j \in Jobs : j = sup[s].job
    BY <1>1, BeforeStep
<1>3. PICK f : f = sup[s].frame
    OBVIOUS
<1>4. UNCHANGED <<queue, handle, aborted, started, child, told>>
    BY DEF Push
<1>5. CASE mail[j].closed \/ j \in aborted
    <2>1. Fail(j)
        BY <1>2, <1>5 DEF Push
    <2>2. \/ sup' = [sup EXCEPT ![s] = Idle]
          \/ sup' = [sup EXCEPT ![s] = [sup[s] EXCEPT !.at = "failed"]]
        BY <1>2, <1>5 DEF Push
    <2> QED  BY <1>1, <1>2, <1>4, <2>1, <2>2, FailStep
<1>6. CASE ~(mail[j].closed \/ j \in aborted) /\ Len(mail[j].events) < Limit(f)
    <2>1. /\ mail' = [mail EXCEPT ![j] =
                        [events |-> Append(mail[j].events, f), closed |-> f \in Terminal,
                         failed |-> FALSE]]
          /\ Notify(j)
          /\ sup' = [sup EXCEPT ![s] =
                       IF f \in Terminal THEN Idle
                       ELSE [sup[s] EXCEPT !.frame = "none", !.at = "drive"]]
        BY <1>2, <1>3, <1>6 DEF Push
    <2> QED  BY <1>1, <1>2, <1>3, <1>4, <1>6, <2>1, PushedStep
<1>7. CASE ~(mail[j].closed \/ j \in aborted) /\ ~(Len(mail[j].events) < Limit(f))
    <2>1. asleep' = asleep \cup {s} /\ UNCHANGED <<mail, sup>>
        BY <1>2, <1>3, <1>7 DEF Push
    <2> QED  BY <1>1, <1>2, <1>3, <1>4, <1>7, <2>1, WaitStep
<1> QED  BY <1>5, <1>6, <1>7

LEMMA HelperStep ==
    ASSUME HelperInv, [Next]_vars
    PROVE  HelperInv'
<1>1. TypeOK'
    BY TypeStep DEF HelperInv
<1>2. ASSUME NEW j \in Jobs,
             Start(j) \/ Wake(j) \/ DropHandle(j) \/ Listen(j) \/ ChildExits(j)
      PROVE  Rest'
    BY <1>2, StartStep, HandleStep, FailureStep, EventStep, ExitStep DEF Listen
<1>3. ASSUME NEW s \in Supervisors, TakeJob(s) \/ Reap(s) \/ Push(s)
      PROVE  Rest'
    BY <1>3, TakeStep, ReapStep, PushStep
<1>4. ASSUME NEW s \in Supervisors, WriteRequest(s) \/ Drive(s) \/ ExitStatus(s) \/ Eof(s)
      PROVE  Rest'
    BY <1>4, LookStep
<1>5. ASSUME NEW s \in Supervisors, Launch(s)
      PROVE  Rest'
    <2>1. sup[s].at = "launch" /\ UNCHANGED <<queue, handle, aborted, started, told>>
        BY <1>5 DEF Launch
    <2>2. PICK j \in Jobs : j = sup[s].job
        BY <2>1, BeforeStep
    <2>3. CASE Fail(j) /\ sup' = [sup EXCEPT ![s] = Idle] /\ UNCHANGED child
        BY <2>1, <2>2, <2>3, FailStep
    <2>4. CASE j \notin aborted /\ child' = [child EXCEPT ![j] = "running"]
               /\ Goto(s, "request") /\ UNCHANGED <<mail, asleep>>
        BY <2>1, <2>2, <2>4, LaunchStep
    <2> QED  BY <1>5, <2>2, <2>3, <2>4 DEF Launch
<1>6. ASSUME NEW s \in Supervisors, NEW f \in Frames, Feed(s, f)
      PROVE  Rest'
    <2>1. CASE OutOfOrder(sup[s], f) \/ f \in Terminal
        BY <1>6, <2>1, LookStep
    <2>2. CASE ~(OutOfOrder(sup[s], f) \/ f \in Terminal)
        <3>1. f \in Ordinary /\ (f = "resolved") # sup[s].resolved
            BY <2>2 DEF OutOfOrder, Frames, HelperInv, TypeOK, Supervision
        <3>2. /\ sup[s].at = "read"
              /\ sup' = [sup EXCEPT ![s] =
                           [sup[s] EXCEPT !.resolved = TRUE, !.frame = f, !.at = "push"]]
              /\ UNCHANGED <<queue, mail, handle, aborted, started, child, asleep, told>>
            BY <1>6, <2>2 DEF Feed
        <3> QED  BY <3>1, <3>2, FeedStep
    <2> QED  BY <2>1, <2>2
<1>7. ASSUME NEW s \in Supervisors, Finish(s)
      PROVE  Rest'
    <2>1. sup[s].at = "finish" /\ UNCHANGED <<queue, handle, aborted, started, child, told>>
        BY <1>7 DEF Finish
    <2>2. PICK j \in Jobs : j = sup[s].job
        BY <2>1, BeforeStep
    <2>3. CASE Fail(j) /\ sup' = [sup EXCEPT ![s] = Idle]
        BY <2>1, <2>2, <2>3, FailStep
    <2>4. CASE /\ sup[s].resolved /\ sup[s].terminal # "none"
               /\ sup' = [sup EXCEPT ![s] =
                            [sup[s] EXCEPT !.frame = sup[s].terminal, !.at = "push"]]
               /\ UNCHANGED <<mail, asleep>>
        BY <2>1, <2>4, FinishStep
    <2> QED  BY <1>7, <2>2, <2>3, <2>4 DEF Finish
<1>8. ASSUME UNCHANGED vars
      PROVE  Rest'
    <2>1. UNCHANGED <<queue, sup, mail, handle, aborted, started, child, asleep, told>>
        BY <1>8 DEF vars
    <2>2. JobsAreOwned'
        BY <2>1, HandlesStep
    <2>3. MailIsKept' /\ FramesAreOrdered'
        BY <2>1, OtherJob DEF MailIsKept, FramesAreOrdered, Ordered
    <2>4. SupervisorKnows'
        BY <2>1, OtherSupervisor DEF SupervisorKnows
    <2> QED  BY <2>2, <2>3, <2>4 DEF Rest
<1>9. Rest'
    BY <1>2, <1>3, <1>4, <1>5, <1>6, <1>7, <1>8 DEF Next, Supervise
<1> QED  BY <1>1, <1>9 DEF HelperInv, Rest

\* The invariant holds for every number of jobs, supervisors and slots.
THEOREM HelperInvariant == Spec => []HelperInv
<1>1. HelperInv /\ [Next]_vars => HelperInv'
    BY HelperStep
<1> QED  BY HelperInit, <1>1, PTL DEF Spec

\* Whatever the children write and whoever gives up, for every number of jobs,
\* supervisors and slots: a mailbox holds one scope first and one end last, the
\* end is published once the child is gone, and never waits for room
\* (Mailbox::push, FrameDecoder::feed and finish, supervise).
THEOREM StreamStaysOrdered == Spec => []StreamIsOrdered
<1>1. HelperInv => StreamIsOrdered
    <2> SUFFICES ASSUME HelperInv  PROVE StreamIsOrdered
        OBVIOUS
    <2>1. FramesAreOrdered
        BY DEF HelperInv
    <2>2. EndedBeforePublished
        <3> SUFFICES ASSUME NEW j \in Jobs,
                            told[j] = "end" \/ \E i \in 1..Len(mail[j].events) :
                                                  mail[j].events[i] \in Terminal
                     PROVE  child[j] = "reaped"
            BY DEF EndedBeforePublished
        <3>1. MailKept(j)
            BY DEF HelperInv, MailIsKept
        <3>2. mail[j].closed
            BY <3>1 DEF MailKept
        <3>3. ~mail[j].failed
            <4>1. mail[j].failed => mail[j].events = <<>>
                BY <3>1 DEF MailKept
            <4>2. mail[j].events = <<>> => Len(mail[j].events) = 0
                OBVIOUS
            <4> QED  BY <3>1, <4>1, <4>2 DEF MailKept
        <3> QED  BY <3>1, <3>2, <3>3 DEF MailKept
    <2>3. EndNeverWaits
        BY DEF HelperInv, SupervisorKnows, Knows, EndNeverWaits, Ordinary, Terminal, TypeOK
    <2> QED  BY <2>1, <2>2, <2>3 DEF StreamIsOrdered
<1> QED  BY HelperInvariant, <1>1, PTL

-----------------------------------------------------------------------------
(* ProbePool: the programs of probe.rs                                     *)

CONSTANTS None, Callers, Workers, Queued, MaxBytes, MaxWrites
VARIABLES result, late, requests, worker, got, reply, leader, helper, written, reused

Probes == INSTANCE ProbePool WITH queue <- requests

\* None is nothing else, and the bound of both pipes is a number.
NoneIsNothingElse ==
    /\ None \notin Callers
    /\ None \notin {"waiting", "refused", "gave up", "failed", "output"}
PoolAssumption == NoneIsNothingElse /\ MaxBytes \in Nat

\* A request is with nobody, in one place of the queue, or with one supervisor.
Served(c) == \E w \in Workers : worker[w].for = c
Waits(c) == \E n \in DOMAIN requests : requests[n] = c

\* What a caller may see, a reply may be, a program and a supervisor may be at.
Results == {None, "waiting", "refused", "gave up", "failed", "output"}
Replies == {None, "failed", "output"}
Leaders == {"none", "running", "silent", "exited", "killed", "reaped"}
Supervisions == [at : {"idle", "start", "out", "err", "wait", "kill", "reap"},
                 for : Callers \cup {None}]
Pipe == [bytes : Nat, done : BOOLEAN]

\* The types.
PoolTypeOK ==
    /\ result \in [Callers -> Results]
    /\ late \in [Callers -> BOOLEAN]
    /\ requests \in Seq(Callers)
    /\ worker \in [Workers -> Supervisions]
    /\ got \in [Callers -> [Probes!Pipes -> Pipe]]
    /\ reply \in [Callers -> Replies]
    /\ leader \in [Callers -> Leaders]
    /\ helper \in [Callers -> BOOLEAN]
    /\ written \in [Callers -> [Probes!Pipes -> Nat]]
    /\ reused \in [Callers -> {"no", "alive", "killed"}]

\* A request is in one place of the queue, untouched, or with one supervisor.
RequestsAreOwned ==
    /\ \A n, m \in 1..Len(requests) : requests[n] = requests[m] => n = m
    /\ \A n \in 1..Len(requests) :
          /\ result[requests[n]] # None /\ reply[requests[n]] = None
          /\ leader[requests[n]] = "none"
          /\ \A w \in Workers : worker[w].for # requests[n]
    /\ \A w, v \in Workers : worker[w].for = worker[v].for => w = v \/ worker[w].for = None

\* What a supervisor knows of its request and of the program.
WorkerKnows(w) ==
    LET c == worker[w].for
    IN  /\ worker[w].at = "idle" <=> c = None
        /\ c # None =>
             /\ result[c] # None
             /\ worker[w].at = "start" => leader[c] = "none"
             /\ worker[w].at \in {"out", "err", "wait", "kill"} =>
                   leader[c] \in {"running", "silent", "exited"}
             /\ worker[w].at = "reap" => leader[c] \in {"killed", "exited"} /\ ~helper[c]
             /\ reply[c] = IF worker[w].at \in {"kill", "reap"} THEN "failed" ELSE None

\* What is known of the program of a request: its number is never another program's
\* while a supervisor may still use it.
ProgramIsKnown(c) ==
    /\ result[c] = None => leader[c] = "none" /\ reply[c] = None
    /\ leader[c] = "none" =>
          /\ ~helper[c]
          /\ \A p \in Probes!Pipes : written[c][p] = 0 /\ got[c][p].bytes = 0 /\ ~got[c][p].done
    /\ ~Served(c) => leader[c] \in {"none", "reaped"} /\ ~helper[c]
    /\ reused[c] = "no"
    /\ \A p \in Probes!Pipes :
          /\ got[c][p].bytes <= written[c][p]
          /\ got[c][p].done => Probes!AtEnd(c) /\ got[c][p].bytes = written[c][p]
    /\ got[c]["out"].bytes + got[c]["err"].bytes <= MaxBytes
    /\ reply[c] = "output" => \A p \in Probes!Pipes : got[c][p].done
    /\ result[c] = "waiting" /\ reply[c] = None => Waits(c) \/ Served(c)

\* The inductive invariant.
PoolInv ==
    /\ PoolTypeOK /\ RequestsAreOwned
    /\ \A w \in Workers : WorkerKnows(w)
    /\ \A c \in Callers : ProgramIsKnown(c)

\* Nobody has called, and no program runs.
LEMMA PoolStart ==
    ASSUME PoolAssumption, Probes!Init PROVE PoolInv
<1>1. PoolTypeOK
  <2>1. /\ result \in [Callers -> Results] /\ late \in [Callers -> BOOLEAN]
        /\ reply \in [Callers -> Replies]
    BY DEF Probes!Init, Results, Replies
  <2>2. requests \in Seq(Callers)
    BY DEF Probes!Init
  <2>3. worker \in [Workers -> Supervisions]
    BY DEF Probes!Init, Probes!Idle, Supervisions
  <2>4. got \in [Callers -> [Probes!Pipes -> Pipe]]
    BY DEF Probes!Init, Pipe
  <2>5. /\ leader \in [Callers -> Leaders] /\ helper \in [Callers -> BOOLEAN]
        /\ written \in [Callers -> [Probes!Pipes -> Nat]]
        /\ reused \in [Callers -> {"no", "alive", "killed"}]
    BY DEF Probes!Init, Leaders
  <2> QED  BY <2>1, <2>2, <2>3, <2>4, <2>5 DEF PoolTypeOK
<1>2. RequestsAreOwned  BY DEF RequestsAreOwned, Probes!Init, Probes!Idle
<1>3. \A w \in Workers : WorkerKnows(w)  BY DEF WorkerKnows, Probes!Init, Probes!Idle
<1>4. ASSUME NEW c \in Callers PROVE ProgramIsKnown(c)
  <2>1. /\ result[c] = None /\ reply[c] = None
        /\ leader[c] = "none" /\ ~helper[c] /\ reused[c] = "no"
    BY DEF Probes!Init
  <2>2. \A p \in Probes!Pipes :
          written[c][p] = 0 /\ got[c][p].bytes = 0 /\ ~got[c][p].done
    BY DEF Probes!Init
  <2>3. "out" \in Probes!Pipes /\ "err" \in Probes!Pipes
    BY DEF Probes!Pipes
  <2>4. None # "output" /\ None # "waiting"
    BY DEF PoolAssumption, NoneIsNothingElse
  <2>5. 0 + 0 <= MaxBytes
    BY DEF PoolAssumption
  <2> QED  BY <2>1, <2>2, <2>3, <2>4, <2>5 DEF ProgramIsKnown
<1> QED  BY <1>1, <1>2, <1>3, <1>4 DEF PoolInv

\* The names that a result, a reply and a pipe may have.
LEMMA PoolNames ==
    /\ None \in Results /\ "waiting" \in Results /\ "refused" \in Results /\ "gave up" \in Results
    /\ Replies \subseteq Results /\ None \in Replies /\ "failed" \in Replies /\ "output" \in Replies
    /\ "out" \in Probes!Pipes /\ "err" \in Probes!Pipes
BY DEF Results, Replies, Probes!Pipes

\* What a supervisor may be at keeps its type.
LEMMA Supervising ==
    /\ Probes!Idle \in Supervisions
    /\ \A c \in Callers : [at |-> "start", for |-> c] \in Supervisions
    /\ \A s \in Supervisions, to \in {"out", "err", "wait", "kill", "reap"} :
          [s EXCEPT !.at = to] \in Supervisions
BY DEF Supervisions, Probes!Idle

\* A caller's step keeps the types.
LEMMA CallerTypes ==
    ASSUME PoolAssumption, PoolTypeOK, NEW c \in Callers,
           Probes!Call(c) \/ Probes!GiveUp(c) \/ Probes!Receive(c) \/ Probes!TimePasses(c)
    PROVE  PoolTypeOK'
<1>1. result' \in [Callers -> Results]
  <2>1. result' = result \/ \E r \in Results : result' = [result EXCEPT ![c] = r]
    <3>1. CASE Probes!Call(c)  BY <3>1, PoolNames DEF Probes!Call
    <3>2. CASE Probes!GiveUp(c)  BY <3>2, PoolNames DEF Probes!GiveUp
    <3>3. CASE Probes!Receive(c)
      <4>1. reply[c] \in Results  BY PoolNames DEF PoolTypeOK
      <4> QED  BY <3>3, <4>1 DEF Probes!Receive
    <3>4. CASE Probes!TimePasses(c)  BY <3>4 DEF Probes!TimePasses
    <3> QED  BY <3>1, <3>2, <3>3, <3>4
  <2> QED  BY <2>1 DEF PoolTypeOK
<1>2. requests' \in Seq(Callers)
  <2>1. requests' = requests \/ requests' = Append(requests, c)
    BY DEF Probes!Call, Probes!GiveUp, Probes!Receive, Probes!TimePasses
  <2>2. requests \in Seq(Callers)  BY DEF PoolTypeOK
  <2> QED  BY <2>1, <2>2
<1>3. late' \in [Callers -> BOOLEAN]
  BY DEF PoolTypeOK, Probes!Call, Probes!GiveUp, Probes!Receive, Probes!TimePasses
<1>4. UNCHANGED <<worker, got, reply, leader, helper, written, reused>>
  BY DEF Probes!Call, Probes!GiveUp, Probes!Receive, Probes!TimePasses, Probes!programs
<1> QED  BY <1>1, <1>2, <1>3, <1>4 DEF PoolTypeOK

\* A program's step keeps the types, and touches only the program.
LEMMA ProgramTypes ==
    ASSUME PoolTypeOK, NEW c \in Callers, Probes!Program(c)
    PROVE  PoolTypeOK'
<1>1. UNCHANGED <<result, late, requests, worker, got, reply>>
  BY DEF Probes!Program, Probes!callers
<1>2. leader' \in [Callers -> Leaders]
  <2>1. leader' = leader \/ \E to \in Leaders : leader' = [leader EXCEPT ![c] = to]
    BY DEF Probes!Program, Probes!Write, Probes!StartHelper, Probes!HelperEnds, Probes!Reuse,
           Probes!Leader, Leaders
  <2> QED  BY <2>1 DEF PoolTypeOK
<1>3. helper' \in [Callers -> BOOLEAN]
  <2>1. helper' = helper \/ \E to \in BOOLEAN : helper' = [helper EXCEPT ![c] = to]
    BY DEF Probes!Program, Probes!Write, Probes!StartHelper, Probes!HelperEnds, Probes!Reuse,
           Probes!Leader
  <2> QED  BY <2>1 DEF PoolTypeOK
<1>4. written' \in [Callers -> [Probes!Pipes -> Nat]]
  <2>1. written' = written \/ \E p \in Probes!Pipes : written' = [written EXCEPT ![c][p] = @ + 1]
    BY DEF Probes!Program, Probes!Write, Probes!StartHelper, Probes!HelperEnds, Probes!Reuse,
           Probes!Leader
  <2>2. written \in [Callers -> [Probes!Pipes -> Nat]]  BY DEF PoolTypeOK
  <2>3. CASE written' = written  BY <2>2, <2>3
  <2>4. ASSUME NEW p \in Probes!Pipes, written' = [written EXCEPT ![c][p] = @ + 1]
        PROVE  written' \in [Callers -> [Probes!Pipes -> Nat]]
    <3>1. written[c] \in [Probes!Pipes -> Nat] /\ written[c][p] + 1 \in Nat  BY <2>2
    <3> QED  BY <2>2, <2>4, <3>1
  <2> QED  BY <2>1, <2>3, <2>4
<1>5. reused' \in [Callers -> {"no", "alive", "killed"}]
  <2>1. reused' = reused \/ reused' = [reused EXCEPT ![c] = "alive"]
    BY DEF Probes!Program, Probes!Write, Probes!StartHelper, Probes!HelperEnds, Probes!Reuse,
           Probes!Leader
  <2> QED  BY <2>1 DEF PoolTypeOK
<1> QED  BY <1>1, <1>2, <1>3, <1>4, <1>5 DEF PoolTypeOK

\* A supervisor that takes the first request keeps the types.
LEMMA TakeTypes ==
    ASSUME PoolTypeOK, NEW w \in Workers, Probes!Take(w)
    PROVE  PoolTypeOK'
<1>1. requests \in Seq(Callers) /\ requests # <<>>
  BY DEF PoolTypeOK, Probes!Take
<1>2. Head(requests) \in Callers /\ Tail(requests) \in Seq(Callers)
  BY <1>1
<1>3. worker' \in [Workers -> Supervisions]
  BY <1>2, Supervising DEF PoolTypeOK, Probes!Take
<1>4. requests' \in Seq(Callers)
  BY <1>2 DEF Probes!Take
<1> QED  BY <1>3, <1>4 DEF PoolTypeOK, Probes!Take, Probes!callers, Probes!programs

\* A supervisor that is not idle has a request.
LEMMA HasRequest ==
    ASSUME PoolTypeOK, NEW w \in Workers, worker[w].at # "idle", WorkerKnows(w)
    PROVE  worker[w].for \in Callers /\ worker[w].for # None
<1>1. worker[w].for \in Callers \cup {None}
  BY DEF PoolTypeOK, Supervisions
<1>2. worker[w].for # None
  BY DEF WorkerKnows
<1> QED  BY <1>1, <1>2

\* A supervisor goes on, is done, or stays where it is.
LEMMA WorkerTypes ==
    ASSUME PoolTypeOK, NEW w \in Workers,
           \/ worker' = worker
           \/ worker' = [worker EXCEPT ![w] = Probes!Idle]
           \/ \E to \in {"out", "err", "wait", "kill", "reap"} : Probes!Go(w, to)
    PROVE  worker' \in [Workers -> Supervisions]
<1>1. worker \in [Workers -> Supervisions] /\ worker[w] \in Supervisions
  BY DEF PoolTypeOK
<1>2. CASE worker' = worker  BY <1>1, <1>2
<1>3. CASE worker' = [worker EXCEPT ![w] = Probes!Idle]  BY <1>1, <1>3, Supervising
<1>4. ASSUME NEW to \in {"out", "err", "wait", "kill", "reap"}, Probes!Go(w, to)
      PROVE  worker' \in [Workers -> Supervisions]
  <2>1. worker' = [worker EXCEPT ![w] = [worker[w] EXCEPT !.at = to]]
    BY <1>4 DEF Probes!Go
  <2> QED  BY <1>1, <2>1, Supervising
<1> QED  BY <1>2, <1>3, <1>4

\* A reply is a failure or the output.
LEMMA ReplyTypes ==
    ASSUME PoolTypeOK, NEW c \in Callers,
           reply' = reply \/ Probes!Reply(c, "failed") \/ Probes!Reply(c, "output")
    PROVE  reply' \in [Callers -> Replies]
<1>1. reply \in [Callers -> Replies] /\ "failed" \in Replies /\ "output" \in Replies
  BY PoolNames DEF PoolTypeOK
<1> QED  BY <1>1 DEF Probes!Reply

\* A program is changed to one of its states.
LEMMA LeaderTypes ==
    ASSUME PoolTypeOK, NEW c \in Callers,
           leader' = leader \/ \E to \in Leaders : leader' = [leader EXCEPT ![c] = to]
    PROVE  leader' \in [Callers -> Leaders]
<1>1. leader \in [Callers -> Leaders]
  BY DEF PoolTypeOK
<1> QED  BY <1>1

\* A supervisor's step keeps the types and changes what belongs to its own request alone.
LEMMA SupervisorTypes ==
    ASSUME PoolTypeOK, NEW w \in Workers, worker[w].for \in Callers,
           \/ Probes!Start(w) \/ Probes!Wait(w) \/ Probes!Kill(w) \/ Probes!Reap(w)
           \/ \E p \in Probes!Pipes : Probes!Drain(w, p)
    PROVE  /\ PoolTypeOK'
           /\ UNCHANGED <<result, late, requests, written>>
           /\ \A v \in Workers \ {w} : worker'[v] = worker[v]
           /\ \A d \in Callers \ {worker[w].for} :
                 /\ got'[d] = got[d] /\ reply'[d] = reply[d] /\ leader'[d] = leader[d]
                 /\ helper'[d] = helper[d] /\ reused'[d] = reused[d]
<1> DEFINE c == worker[w].for
<1>1. UNCHANGED <<result, late, requests, written>>
  BY DEF Probes!Start, Probes!Wait, Probes!Kill, Probes!Reap, Probes!Drain, Probes!callers,
         Probes!programs, Probes!Leader, Probes!Fail
<1>2. \/ worker' = worker
      \/ worker' = [worker EXCEPT ![w] = Probes!Idle]
      \/ \E to \in {"out", "err", "wait", "kill", "reap"} : Probes!Go(w, to)
  <2>1. CASE \E p \in Probes!Pipes : Probes!Drain(w, p)
    <3>1. PICK p \in Probes!Pipes : Probes!Drain(w, p)  BY <2>1
    <3>2. Probes!After(p) \in {"err", "wait"}  BY DEF Probes!After
    <3> QED  BY <3>1, <3>2 DEF Probes!Drain, Probes!Fail
  <2>2. CASE Probes!Start(w)  BY <2>2 DEF Probes!Start
  <2>3. CASE Probes!Wait(w)  BY <2>3 DEF Probes!Wait
  <2>4. CASE Probes!Kill(w)  BY <2>4 DEF Probes!Kill
  <2>5. CASE Probes!Reap(w)  BY <2>5 DEF Probes!Reap
  <2> QED  BY <2>1, <2>2, <2>3, <2>4, <2>5
<1>3. /\ worker' \in [Workers -> Supervisions]
      /\ \A v \in Workers \ {w} : worker'[v] = worker[v]
  <2>1. \A v \in Workers \ {w} : worker'[v] = worker[v]
    BY <1>2 DEF PoolTypeOK, Probes!Go
  <2> QED  BY <1>2, <2>1, WorkerTypes
<1>4. reply' = reply \/ Probes!Reply(c, "failed") \/ Probes!Reply(c, "output")
  BY DEF Probes!Start, Probes!Wait, Probes!Kill, Probes!Reap, Probes!Drain, Probes!Fail
<1>5. leader' = leader \/ \E to \in Leaders : leader' = [leader EXCEPT ![c] = to]
  <2>1. CASE Probes!Kill(w)
    <3>1. leader[c] \in Leaders /\ "killed" \in Leaders  BY DEF PoolTypeOK, Leaders
    <3> QED  BY <2>1, <3>1 DEF Probes!Kill
  <2>2. "running" \in Leaders /\ "reaped" \in Leaders  BY DEF Leaders
  <2> QED  BY <2>1, <2>2 DEF Probes!Start, Probes!Wait, Probes!Reap, Probes!Drain, Probes!Fail,
                    Probes!Leader,
                     Probes!programs
<1>6. helper' = helper \/ helper' = [helper EXCEPT ![c] = FALSE]
  BY DEF Probes!Start, Probes!Wait, Probes!Kill, Probes!Reap, Probes!Drain, Probes!Fail,
         Probes!Leader,
         Probes!programs
<1>7. reused' = reused \/ reused' = [reused EXCEPT ![c] = IF @ = "alive" THEN "killed" ELSE @]
  BY DEF Probes!Start, Probes!Wait, Probes!Kill, Probes!Reap, Probes!Drain, Probes!Fail,
         Probes!Leader,
         Probes!programs
<1>8. \/ got' = got
      \/ \E p \in Probes!Pipes : got' = [got EXCEPT ![c][p].done = TRUE]
      \/ \E p \in Probes!Pipes, n \in Nat : got' = [got EXCEPT ![c][p].bytes = @ + n]
  <2>1. ASSUME NEW p \in Probes!Pipes, Probes!Drain(w, p)
        PROVE  \/ got' = got
               \/ got' = [got EXCEPT ![c][p].done = TRUE]
               \/ \E n \in Nat : got' = [got EXCEPT ![c][p].bytes = @ + n]
    <3>1. 1..(written[c][p] - got[c][p].bytes) \subseteq Nat
      OBVIOUS
    <3> QED  BY <2>1, <3>1 DEF Probes!Drain, Probes!Fail
  <2> QED  BY <2>1 DEF Probes!Start, Probes!Wait, Probes!Kill, Probes!Reap
<1>9. /\ leader' \in [Callers -> Leaders] /\ reply' \in [Callers -> Replies]
  BY <1>4, <1>5, ReplyTypes, LeaderTypes
<1>10. /\ helper' \in [Callers -> BOOLEAN] /\ reused' \in [Callers -> {"no", "alive", "killed"}]
  BY <1>6, <1>7 DEF PoolTypeOK
<1>11. got' \in [Callers -> [Probes!Pipes -> Pipe]]
  <2>1. got \in [Callers -> [Probes!Pipes -> Pipe]]  BY DEF PoolTypeOK
  <2>2. CASE got' = got  BY <2>1, <2>2
  <2>3. ASSUME NEW p \in Probes!Pipes, got' = [got EXCEPT ![c][p].done = TRUE]
        PROVE  got' \in [Callers -> [Probes!Pipes -> Pipe]]
    <3>1. got[c][p] \in Pipe  BY <2>1
    <3>2. [got[c][p] EXCEPT !.done = TRUE] \in Pipe  BY <3>1 DEF Pipe
    <3> QED  BY <2>1, <2>3, <3>2
  <2>4. ASSUME NEW p \in Probes!Pipes, NEW n \in Nat, got' = [got EXCEPT ![c][p].bytes = @ + n]
        PROVE  got' \in [Callers -> [Probes!Pipes -> Pipe]]
    <3>1. got[c][p] \in Pipe  BY <2>1
    <3>2. [got[c][p] EXCEPT !.bytes = @ + n] \in Pipe  BY <3>1 DEF Pipe
    <3> QED  BY <2>1, <2>4, <3>2
  <2> QED  BY <1>8, <2>2, <2>3, <2>4
<1>12. PoolTypeOK'
  BY <1>1, <1>3, <1>9, <1>10, <1>11 DEF PoolTypeOK
<1>13. ASSUME NEW d \in Callers \ {c}
       PROVE  /\ got'[d] = got[d] /\ reply'[d] = reply[d] /\ leader'[d] = leader[d]
              /\ helper'[d] = helper[d] /\ reused'[d] = reused[d]
  <2>1. got'[d] = got[d]  BY <1>8 DEF PoolTypeOK
  <2>2. reply'[d] = reply[d]  BY <1>4 DEF PoolTypeOK, Probes!Reply
  <2>3. leader'[d] = leader[d]  BY <1>5 DEF PoolTypeOK
  <2>4. helper'[d] = helper[d] /\ reused'[d] = reused[d]  BY <1>6, <1>7 DEF PoolTypeOK
  <2> QED  BY <2>1, <2>2, <2>3, <2>4
<1> QED  BY <1>1, <1>3, <1>12, <1>13

\* A supervisor's step that leaves the others' requests alone.
LEMMA OthersStay ==
    ASSUME PoolAssumption, PoolInv, PoolTypeOK', NEW w \in Workers, NEW c \in Callers,
           worker[w].for = c, worker'[w].for \in {c, None},
           UNCHANGED <<result, requests, written>>,
           \A v \in Workers \ {w} : worker'[v] = worker[v],
           \A d \in Callers \ {c} :
               /\ got'[d] = got[d] /\ reply'[d] = reply[d] /\ leader'[d] = leader[d]
               /\ helper'[d] = helper[d] /\ reused'[d] = reused[d],
           WorkerKnows(w)', ProgramIsKnown(c)'
    PROVE  PoolInv'
<1>0. c # None
  BY DEF PoolAssumption, NoneIsNothingElse
<1>1. RequestsAreOwned'
  <2>1. \A n \in 1..Len(requests) : requests[n] # c /\ requests[n] \in Callers /\ requests[n] # None
    <3>1. requests \in Seq(Callers)  BY DEF PoolInv, PoolTypeOK
    <3>2. \A n \in 1..Len(requests) : requests[n] \in Callers  BY <3>1
    <3> QED  BY <3>2 DEF PoolInv, RequestsAreOwned, PoolAssumption, NoneIsNothingElse
  <2>2. \A n, m \in 1..Len(requests)' : requests'[n] = requests'[m] => n = m
    BY DEF PoolInv, RequestsAreOwned
  <2>3. ASSUME NEW n \in 1..Len(requests)'
        PROVE  /\ result'[requests'[n]] # None /\ reply'[requests'[n]] = None
               /\ leader'[requests'[n]] = "none"
               /\ \A v \in Workers : worker'[v].for # requests'[n]
    BY <2>1 DEF PoolInv, RequestsAreOwned
  <2>4. ASSUME NEW v \in Workers, NEW u \in Workers, worker'[v].for = worker'[u].for
        PROVE  v = u \/ worker'[v].for = None
    BY <2>4 DEF PoolInv, RequestsAreOwned
  <2> QED  BY <2>2, <2>3, <2>4 DEF RequestsAreOwned
<1>2. ASSUME NEW v \in Workers \ {w} PROVE WorkerKnows(v)'
  <2>1. worker[v].for # c /\ worker[v].for \in Callers \cup {None}
    BY <1>0 DEF PoolInv, RequestsAreOwned, PoolTypeOK, Supervisions
  <2> QED  BY <2>1 DEF PoolInv, WorkerKnows
<1>3. ASSUME NEW d \in Callers \ {c} PROVE ProgramIsKnown(d)'
  <2>1. Served(d)' <=> Served(d)
    BY DEF Served, PoolAssumption, NoneIsNothingElse
  <2>2. Waits(d)' <=> Waits(d)
    BY DEF Waits
  <2>3. ProgramIsKnown(d)  BY DEF PoolInv
  <2> QED  BY <2>1, <2>2, <2>3 DEF ProgramIsKnown, Probes!AtEnd
<1> QED  BY <1>1, <1>2, <1>3 DEF PoolInv

\* A supervisor at work has a request that nobody else has, and that no longer waits.
LEMMA AtWork ==
    ASSUME PoolAssumption, PoolInv, NEW w \in Workers, worker[w].at # "idle"
    PROVE  /\ worker[w].for \in Callers /\ worker[w].for # None
           /\ \A v \in Workers \ {w} : worker[v].for # worker[w].for
           /\ ~Waits(worker[w].for)
           /\ WorkerKnows(w) /\ ProgramIsKnown(worker[w].for)
           /\ worker[w] \in Supervisions /\ DOMAIN worker = Workers
<1>1. PoolTypeOK /\ WorkerKnows(w) /\ RequestsAreOwned  BY DEF PoolInv
<1>2. worker[w].for \in Callers /\ worker[w].for # None  BY <1>1, HasRequest
<1>3. \A v \in Workers \ {w} : worker[v].for # worker[w].for
  BY <1>1, <1>2 DEF RequestsAreOwned
<1>4. ~Waits(worker[w].for)
  <2>1. requests \in Seq(Callers)  BY <1>1 DEF PoolTypeOK
  <2>2. DOMAIN requests = 1..Len(requests)  BY <2>1
  <2> QED  BY <1>1, <2>2 DEF RequestsAreOwned, Waits
<1> QED  BY <1>1, <1>2, <1>3, <1>4 DEF PoolInv, PoolTypeOK

\* Start: the program runs, or could not be started.
LEMMA PoolStarts ==
    ASSUME PoolAssumption, PoolInv, NEW w \in Workers, Probes!Start(w) PROVE PoolInv'
<1>1. worker[w].at = "start"  BY DEF Probes!Start
<1>0. PICK c \in Callers : c = worker[w].for  BY <1>1, AtWork
<1>2. /\ c = worker[w].for /\ c # None /\ \A v \in Workers \ {w} : worker[v].for # c
      /\ WorkerKnows(w) /\ ProgramIsKnown(c) /\ ~Waits(c)
  BY <1>0, <1>1, AtWork
<1>3. /\ PoolTypeOK' /\ UNCHANGED <<result, late, requests, written>>
      /\ \A v \in Workers \ {w} : worker'[v] = worker[v]
      /\ \A d \in Callers \ {c} :
            /\ got'[d] = got[d] /\ reply'[d] = reply[d] /\ leader'[d] = leader[d]
            /\ helper'[d] = helper[d] /\ reused'[d] = reused[d]
  BY <1>2, SupervisorTypes DEF PoolInv
<1>4. /\ leader[c] = "none" /\ ~helper[c] /\ result[c] # None /\ reply[c] = None /\ reused[c] = "no"
      /\ got' = got /\ helper' = helper /\ reused' = reused
      /\ \/ /\ worker'[w] = [worker[w] EXCEPT !.at = "out"] /\ worker'[w].for = c /\ worker'[w].at = "out"
            /\ leader'[c] = "running" /\ reply' = reply
         \/ worker'[w] = Probes!Idle /\ reply'[c] = "failed" /\ leader' = leader
  <2>1. leader[c] = "none" /\ ~helper[c] /\ result[c] # None /\ reused[c] = "no"
    BY <1>0, <1>1, <1>2 DEF WorkerKnows, ProgramIsKnown
  <2>2. reply[c] = None  BY <1>0, <1>1, <1>2 DEF WorkerKnows
  <2>3. got' = got /\ helper' = helper /\ reused' = reused
    BY DEF Probes!Start, Probes!Leader, Probes!programs
  <2>4. CASE Probes!Go(w, "out") /\ Probes!Leader(c, "running") /\ UNCHANGED reply
    <3>1. worker'[w] = [worker[w] EXCEPT !.at = "out"]
      BY <2>4 DEF PoolInv, PoolTypeOK, Probes!Go
    <3>2. worker'[w].for = c /\ worker'[w].at = "out"
      BY <1>0, <1>1, <3>1, AtWork DEF Supervisions
    <3>3. leader'[c] = "running"  BY <1>2, <2>4 DEF PoolInv, PoolTypeOK, Probes!Leader
    <3> QED  BY <2>1, <2>2, <2>3, <2>4, <3>1, <3>2, <3>3
  <2>5. CASE worker' = [worker EXCEPT ![w] = Probes!Idle] /\ Probes!Reply(c, "failed")
             /\ UNCHANGED Probes!programs
    <3>1. worker'[w] = Probes!Idle  BY <2>5 DEF PoolInv, PoolTypeOK
    <3>2. reply'[c] = "failed" /\ leader' = leader
      BY <1>2, <2>5 DEF PoolInv, PoolTypeOK, Probes!Reply, Probes!programs
    <3> QED  BY <2>1, <2>2, <2>3, <3>1, <3>2
  <2> QED  BY <1>0, <2>4, <2>5 DEF Probes!Start
<1>5. WorkerKnows(w)'
  BY <1>1, <1>2, <1>3, <1>4 DEF WorkerKnows, Probes!Idle
<1>6. ProgramIsKnown(c)'
  <2>1. "failed" # None /\ "output" # None  BY DEF PoolAssumption, NoneIsNothingElse
  <2>2. worker'[w].for = c => Served(c)'  BY DEF Served
  <2>3. worker'[w] = Probes!Idle => reply'[c] = "failed"  BY <1>4 DEF Probes!Idle
  <2>4. leader'[c] # "none" => Served(c)'  BY <1>4, <2>2
  <2>5. reply'[c] = None => Served(c)'  BY <1>4, <2>1, <2>2
  <2> QED  BY <1>2, <1>3, <1>4, <2>1, <2>4, <2>5 DEF ProgramIsKnown, Probes!AtEnd
<1>7. worker'[w].for \in {c, None}
  BY <1>4 DEF Probes!Idle
<1> QED  BY <1>0, <1>2, <1>3, <1>5, <1>6, <1>7, OthersStay

\* A supervisor's step that keeps its request: what it knows, and that it is with it.
LEMMA StaysAtWork ==
    ASSUME PoolAssumption, PoolInv, NEW w \in Workers, NEW c \in Callers, worker[w].for = c,
           worker[w].at \in {"out", "err", "wait", "kill"},
           NEW to \in {"out", "err", "wait", "kill", "reap"},
           (worker' = worker /\ worker[w].at = to) \/ Probes!Go(w, to)
    PROVE  /\ worker'[w].at = to /\ worker'[w].for = c
           /\ Served(c) /\ Served(c)'
           /\ result[c] # None /\ leader[c] \in {"running", "silent", "exited"}
           /\ reply[c] = IF worker[w].at = "kill" THEN "failed" ELSE None
<1>1. worker[w] \in Supervisions /\ worker[w].at # "idle" /\ WorkerKnows(w) /\ c # None
  BY AtWork
<1>2. worker'[w].at = to /\ worker'[w].for = c
  <2>1. CASE Probes!Go(w, to)
    <3>1. worker'[w] = [worker[w] EXCEPT !.at = to]
      BY <2>1 DEF PoolInv, PoolTypeOK, Probes!Go
    <3> QED  BY <1>1, <3>1 DEF Supervisions
  <2> QED  BY <2>1
<1>3. Served(c) /\ Served(c)'
  BY <1>2 DEF Served
<1> QED  BY <1>1, <1>2, <1>3 DEF WorkerKnows

\* Drain: one read of a pipe, the end of it, or a failure that leads to Kill.
LEMMA PoolDrains ==
    ASSUME PoolAssumption, PoolInv, NEW w \in Workers, NEW p \in Probes!Pipes, Probes!Drain(w, p)
    PROVE  PoolInv'
<1>1. worker[w].at = p /\ p \in {"out", "err"}  BY DEF Probes!Drain, Probes!Pipes
<1>2. PICK c \in Callers : c = worker[w].for  BY <1>1, AtWork
<1>3. /\ c # None /\ \A v \in Workers \ {w} : worker[v].for # c
      /\ WorkerKnows(w) /\ ProgramIsKnown(c) /\ ~Waits(c)
  BY <1>1, <1>2, AtWork
<1>4. /\ PoolTypeOK' /\ UNCHANGED <<result, late, requests, written>>
      /\ \A v \in Workers \ {w} : worker'[v] = worker[v]
      /\ \A d \in Callers \ {c} :
            /\ got'[d] = got[d] /\ reply'[d] = reply[d] /\ leader'[d] = leader[d]
            /\ helper'[d] = helper[d] /\ reused'[d] = reused[d]
  BY <1>2, <1>3, SupervisorTypes DEF PoolInv
<1>5. UNCHANGED <<leader, helper, reused>>
  BY DEF Probes!Drain, Probes!Fail, Probes!programs
<1>6. PICK to \in {"out", "err", "wait", "kill"} :
        /\ (worker' = worker /\ worker[w].at = to) \/ Probes!Go(w, to)
        /\ IF to = "kill" THEN Probes!Reply(c, "failed") ELSE reply' = reply
  <2>1. Probes!After(p) \in {"err", "wait"}  BY DEF Probes!After
  <2>2. Probes!Fail(w) => Probes!Go(w, "kill") /\ Probes!Reply(c, "failed")
    BY <1>2 DEF Probes!Fail
  <2>3. \/ Probes!Fail(w)
        \/ Probes!Go(w, Probes!After(p)) /\ reply' = reply
        \/ worker' = worker /\ reply' = reply
    BY DEF Probes!Drain
  <2> QED  BY <1>1, <2>1, <2>2, <2>3
<1>7. /\ worker'[w].at = to /\ worker'[w].for = c
      /\ Served(c) /\ Served(c)'
      /\ result[c] # None /\ leader[c] \in {"running", "silent", "exited"}
      /\ reply[c] = None
  BY <1>1, <1>2, <1>6, StaysAtWork
<1>8. reply'[c] = IF to = "kill" THEN "failed" ELSE None
  BY <1>6, <1>7 DEF Probes!Reply, PoolInv, PoolTypeOK
<1>9. WorkerKnows(w)'
  BY <1>3, <1>4, <1>5, <1>7, <1>8 DEF WorkerKnows
<1>10. /\ \A q \in Probes!Pipes :
            /\ got'[c][q].bytes <= written[c][q]
            /\ got'[c][q].done => Probes!AtEnd(c) /\ got'[c][q].bytes = written[c][q]
       /\ got'[c]["out"].bytes + got'[c]["err"].bytes <= MaxBytes
  <2>0. /\ \A q \in Probes!Pipes :
             /\ got[c][q].bytes <= written[c][q]
             /\ got[c][q].done => Probes!AtEnd(c) /\ got[c][q].bytes = written[c][q]
             /\ got[c][q] \in Pipe /\ written[c][q] \in Nat /\ got[c][q].bytes \in Nat
        /\ got[c]["out"].bytes + got[c]["err"].bytes <= MaxBytes
    <3>1. \A q \in Probes!Pipes : got[c][q] \in Pipe /\ written[c][q] \in Nat
      BY DEF PoolInv, PoolTypeOK
    <3>2. \A q \in Probes!Pipes : got[c][q].bytes \in Nat
      BY <3>1 DEF Pipe
    <3> QED  BY <1>3, <3>1, <3>2 DEF ProgramIsKnown
  <2>1. CASE got' = got
    BY <2>0, <2>1
  <2>2. CASE /\ got' = [got EXCEPT ![c][p].done = TRUE]
             /\ written[c][p] - got[c][p].bytes = 0 /\ Probes!AtEnd(c)
    <3>1. got[c][p].bytes = written[c][p]
      BY <2>0, <2>2
    <3>2. \A q \in Probes!Pipes : got'[c][q].bytes = got[c][q].bytes
      BY <2>0, <2>2 DEF PoolInv, PoolTypeOK, Pipe
    <3>3. \A q \in Probes!Pipes \ {p} : got'[c][q] = got[c][q]
      BY <2>2 DEF PoolInv, PoolTypeOK
    <3>4. "out" \in Probes!Pipes /\ "err" \in Probes!Pipes  BY PoolNames
    <3> QED  BY <2>0, <2>2, <3>1, <3>2, <3>3, <3>4
  <2>3. ASSUME NEW n \in 1..(written[c][p] - got[c][p].bytes),
               ~(got[c][p].bytes + n > MaxBytes - got[c][Probes!Other(p)].bytes),
               ~got[c][p].done,
               got' = [got EXCEPT ![c][p].bytes = @ + n]
        PROVE  /\ \A q \in Probes!Pipes :
                    /\ got'[c][q].bytes <= written[c][q]
                    /\ got'[c][q].done => Probes!AtEnd(c) /\ got'[c][q].bytes = written[c][q]
               /\ got'[c]["out"].bytes + got'[c]["err"].bytes <= MaxBytes
    <3>1. /\ \A q \in Probes!Pipes \ {p} : got'[c][q] = got[c][q]
          /\ got'[c][p] = [got[c][p] EXCEPT !.bytes = @ + n]
      BY <2>3 DEF PoolInv, PoolTypeOK
    <3>2. got'[c][p].bytes = got[c][p].bytes + n /\ got'[c][p].done = got[c][p].done
      BY <2>0, <3>1 DEF Pipe
    <3>3. n \in Nat /\ got[c][p].bytes + n <= written[c][p]
      BY <2>0
    <3>4. Probes!Other(p) \in Probes!Pipes /\ {p, Probes!Other(p)} = {"out", "err"} /\ p # Probes!Other(p)
      BY <1>1 DEF Probes!Other, Probes!Pipes
    <3>5. MaxBytes \in Nat  BY DEF PoolAssumption
    <3>6. got'[c][p].bytes + got'[c][Probes!Other(p)].bytes <= MaxBytes
      BY <2>0, <2>3, <3>1, <3>2, <3>3, <3>4, <3>5
    <3>7. got'[c]["out"].bytes + got'[c]["err"].bytes <= MaxBytes
      <4>1. p = "out" => Probes!Other(p) = "err"  BY DEF Probes!Other
      <4>2. p = "err" => Probes!Other(p) = "out"  BY DEF Probes!Other
      <4>3. got'[c]["out"].bytes \in Nat /\ got'[c]["err"].bytes \in Nat
        BY <1>4, PoolNames DEF PoolTypeOK, Pipe
      <4> QED  BY <1>1, <3>6, <4>1, <4>2, <4>3
    <3> QED  BY <2>0, <2>3, <3>1, <3>2, <3>3, <3>7
  <2>4. \/ got' = got
        \/ /\ got' = [got EXCEPT ![c][p].done = TRUE]
           /\ written[c][p] - got[c][p].bytes = 0 /\ Probes!AtEnd(c)
        \/ /\ ~got[c][p].done
           /\ \E n \in 1..(written[c][p] - got[c][p].bytes) :
                /\ ~(got[c][p].bytes + n > MaxBytes - got[c][Probes!Other(p)].bytes)
                /\ got' = [got EXCEPT ![c][p].bytes = @ + n]
    BY <1>2 DEF Probes!Drain, Probes!Fail
  <2> QED  BY <2>1, <2>2, <2>3, <2>4
<1>11. ProgramIsKnown(c)'
  <2>1. "failed" # "output" /\ None # "output"  BY DEF PoolAssumption, NoneIsNothingElse
  <2> QED  BY <1>3, <1>4, <1>5, <1>7, <1>8, <1>10, <2>1 DEF ProgramIsKnown, Probes!AtEnd
<1> QED  BY <1>2, <1>4, <1>7, <1>9, <1>11, OthersStay

\* Wait: nothing is reaped before both pipes are at their end.
LEMMA PoolWaits ==
    ASSUME PoolAssumption, PoolInv, NEW w \in Workers, Probes!Wait(w)
    PROVE  PoolInv'
<1>1. worker[w].at = "wait"  BY DEF Probes!Wait
<1>2. PICK c \in Callers : c = worker[w].for  BY <1>1, AtWork
<1>3. /\ c # None /\ \A v \in Workers \ {w} : worker[v].for # c
      /\ WorkerKnows(w) /\ ProgramIsKnown(c) /\ ~Waits(c)
  BY <1>1, <1>2, AtWork
<1>4. /\ PoolTypeOK' /\ UNCHANGED <<result, late, requests, written>>
      /\ \A v \in Workers \ {w} : worker'[v] = worker[v]
      /\ \A d \in Callers \ {c} :
            /\ got'[d] = got[d] /\ reply'[d] = reply[d] /\ leader'[d] = leader[d]
            /\ helper'[d] = helper[d] /\ reused'[d] = reused[d]
  BY <1>2, <1>3, SupervisorTypes DEF PoolInv
<1>5. UNCHANGED <<got, helper, reused>>
  BY DEF Probes!Wait, Probes!Leader, Probes!programs
<1>6. CASE Probes!Go(w, "out") /\ UNCHANGED <<reply, leader>>
  <2>1. /\ worker'[w].at = "out" /\ worker'[w].for = c /\ Served(c) /\ Served(c)'
        /\ result[c] # None /\ leader[c] \in {"running", "silent", "exited"} /\ reply[c] = None
    BY <1>1, <1>2, <1>6, StaysAtWork
  <2>2. WorkerKnows(w)'
    BY <1>3, <1>4, <1>5, <1>6, <2>1 DEF WorkerKnows
  <2>3. ProgramIsKnown(c)'
    BY <1>3, <1>4, <1>5, <1>6, <2>1 DEF ProgramIsKnown, Probes!AtEnd
  <2> QED  BY <1>2, <1>4, <2>1, <2>2, <2>3, OthersStay
<1>7. CASE /\ \A p \in Probes!Pipes : got[c][p].done
           /\ leader[c] = "exited" /\ Probes!Leader(c, "reaped") /\ Probes!Reply(c, "output")
           /\ worker' = [worker EXCEPT ![w] = Probes!Idle]
  <2>1. worker'[w].at = "idle" /\ worker'[w].for = None
    BY <1>7 DEF Probes!Idle, PoolInv, PoolTypeOK
  <2>2. leader'[c] = "reaped" /\ reply'[c] = "output"
    BY <1>7 DEF Probes!Leader, Probes!Reply, PoolInv, PoolTypeOK
  <2>3. WorkerKnows(w)'
    BY <2>1 DEF WorkerKnows
  <2>4. ~helper[c] /\ result[c] # None
    <3>1. "out" \in Probes!Pipes  BY PoolNames
    <3> QED  BY <1>1, <1>2, <1>3, <1>7, <3>1 DEF ProgramIsKnown, WorkerKnows, Probes!AtEnd
  <2>5. ProgramIsKnown(c)'
    <3>1. "output" # None  BY DEF PoolAssumption, NoneIsNothingElse
    <3> QED  BY <1>3, <1>4, <1>5, <1>7, <2>2, <2>4, <3>1 DEF ProgramIsKnown, Probes!AtEnd
  <2> QED  BY <1>2, <1>4, <2>1, <2>3, <2>5, OthersStay
<1> QED  BY <1>2, <1>6, <1>7 DEF Probes!Wait, Probes!programs

\* Kill: the number is still that of the program.
LEMMA PoolKills ==
    ASSUME PoolAssumption, PoolInv, NEW w \in Workers, Probes!Kill(w)
    PROVE  PoolInv'
<1>1. worker[w].at = "kill" /\ Probes!Go(w, "reap")  BY DEF Probes!Kill
<1>2. PICK c \in Callers : c = worker[w].for  BY <1>1, AtWork
<1>3. /\ c # None /\ \A v \in Workers \ {w} : worker[v].for # c
      /\ WorkerKnows(w) /\ ProgramIsKnown(c) /\ ~Waits(c)
  BY <1>1, <1>2, AtWork
<1>4. /\ PoolTypeOK' /\ UNCHANGED <<result, late, requests, written>>
      /\ \A v \in Workers \ {w} : worker'[v] = worker[v]
      /\ \A d \in Callers \ {c} :
            /\ got'[d] = got[d] /\ reply'[d] = reply[d] /\ leader'[d] = leader[d]
            /\ helper'[d] = helper[d] /\ reused'[d] = reused[d]
  BY <1>2, <1>3, SupervisorTypes DEF PoolInv
<1>5. UNCHANGED <<got, reply>>
  BY DEF Probes!Kill
<1>6. /\ worker'[w].at = "reap" /\ worker'[w].for = c /\ Served(c) /\ Served(c)'
      /\ result[c] # None /\ leader[c] \in {"running", "silent", "exited"} /\ reply[c] = "failed"
  BY <1>1, <1>2, StaysAtWork
<1>7. reused[c] = "no"  BY <1>3 DEF ProgramIsKnown
<1>8. /\ leader'[c] \in {"killed", "exited"} /\ ~helper'[c] /\ reused'[c] = "no"
  <2>1. leader'[c] = IF Probes!Running(c) THEN "killed" ELSE leader[c]
    BY <1>2 DEF Probes!Kill, PoolInv, PoolTypeOK
  <2>2. leader'[c] \in {"killed", "exited"}
    BY <1>6, <2>1 DEF Probes!Running
  <2>3. ~helper'[c]  BY <1>2 DEF Probes!Kill, PoolInv, PoolTypeOK
  <2>4. reused'[c] = IF reused[c] = "alive" THEN "killed" ELSE reused[c]
    BY <1>2 DEF Probes!Kill, PoolInv, PoolTypeOK
  <2> QED  BY <1>7, <2>2, <2>3, <2>4
<1>9. WorkerKnows(w)'
  BY <1>3, <1>4, <1>5, <1>6, <1>8 DEF WorkerKnows
<1>10. ProgramIsKnown(c)'
  <2>1. "failed" # None  BY DEF PoolAssumption, NoneIsNothingElse
  <2> QED  BY <1>3, <1>4, <1>5, <1>6, <1>8, <2>1 DEF ProgramIsKnown, Probes!AtEnd
<1> QED  BY <1>2, <1>4, <1>6, <1>9, <1>10, OthersStay

\* Reap: the program is gone and so is its helper.
LEMMA PoolReaps ==
    ASSUME PoolAssumption, PoolInv, NEW w \in Workers, Probes!Reap(w)
    PROVE  PoolInv'
<1>1. worker[w].at = "reap"  BY DEF Probes!Reap
<1>2. PICK c \in Callers : c = worker[w].for  BY <1>1, AtWork
<1>3. /\ c # None /\ \A v \in Workers \ {w} : worker[v].for # c
      /\ WorkerKnows(w) /\ ProgramIsKnown(c) /\ ~Waits(c)
  BY <1>1, <1>2, AtWork
<1>4. /\ PoolTypeOK' /\ UNCHANGED <<result, late, requests, written>>
      /\ \A v \in Workers \ {w} : worker'[v] = worker[v]
      /\ \A d \in Callers \ {c} :
            /\ got'[d] = got[d] /\ reply'[d] = reply[d] /\ leader'[d] = leader[d]
            /\ helper'[d] = helper[d] /\ reused'[d] = reused[d]
  BY <1>2, <1>3, SupervisorTypes DEF PoolInv
<1>5. UNCHANGED <<got, reply, helper, reused>>
  BY DEF Probes!Reap, Probes!Leader
<1>6. worker'[w].at = "idle" /\ worker'[w].for = None
  BY DEF Probes!Reap, Probes!Idle, PoolInv, PoolTypeOK
<1>7. leader'[c] = "reaped"
  BY <1>2 DEF Probes!Reap, Probes!Leader, PoolInv, PoolTypeOK
<1>8. ~helper[c] /\ result[c] # None /\ reply[c] = "failed" /\ leader[c] \in {"killed", "exited"}
  BY <1>1, <1>2, <1>3 DEF WorkerKnows
<1>9. WorkerKnows(w)'
  BY <1>6 DEF WorkerKnows
<1>10. ProgramIsKnown(c)'
  <2>1. "failed" # None  BY DEF PoolAssumption, NoneIsNothingElse
  <2> QED  BY <1>3, <1>4, <1>5, <1>7, <1>8, <2>1 DEF ProgramIsKnown, Probes!AtEnd
<1> QED  BY <1>2, <1>4, <1>6, <1>9, <1>10, OthersStay

\* Call: the request waits in the queue, or is refused.
LEMMA PoolIsCalled ==
    ASSUME PoolAssumption, PoolInv, NEW c \in Callers, Probes!Call(c) PROVE PoolInv'
<1>1. /\ PoolTypeOK' /\ result[c] = None
      /\ UNCHANGED <<late, worker, got, reply, leader, helper, written, reused>>
  BY CallerTypes DEF PoolInv, Probes!Call, Probes!programs
<1>2. /\ leader[c] = "none" /\ reply[c] = None /\ ProgramIsKnown(c)
      /\ \A w \in Workers : worker[w].for # c
  <2>1. ProgramIsKnown(c)  BY DEF PoolInv
  <2>2. c # None  BY DEF PoolAssumption, NoneIsNothingElse
  <2> QED  BY <1>1, <2>1, <2>2 DEF PoolInv, ProgramIsKnown, WorkerKnows
<1>3. requests \in Seq(Callers) /\ \A n \in 1..Len(requests) : requests[n] # c
  BY <1>1 DEF PoolInv, PoolTypeOK, RequestsAreOwned
<1>4. /\ result'[c] # None /\ \A d \in Callers \ {c} : result'[d] = result[d]
      /\ (requests' = requests \/ requests' = Append(requests, c))
      /\ result'[c] = "waiting" => requests' = Append(requests, c)
  <2>1. "refused" # None /\ "waiting" # None  BY DEF PoolAssumption, NoneIsNothingElse
  <2>0. DOMAIN result = Callers  BY DEF PoolInv, PoolTypeOK
  <2>2. \/ result' = [result EXCEPT ![c] = "refused"] /\ requests' = requests
        \/ result' = [result EXCEPT ![c] = "waiting"] /\ requests' = Append(requests, c)
    BY DEF Probes!Call
  <2>3. \A d \in Callers \ {c} : result'[d] = result[d]
    BY <2>0, <2>2
  <2>4. \/ result'[c] = "refused" /\ requests' = requests
        \/ result'[c] = "waiting" /\ requests' = Append(requests, c)
    BY <2>0, <2>2
  <2> QED  BY <2>1, <2>3, <2>4
<1>5. /\ Len(requests') \in Nat /\ requests' \in Seq(Callers)
      /\ \A n \in 1..Len(requests') :
           \/ n \in 1..Len(requests) /\ requests'[n] = requests[n]
           \/ n = Len(requests) + 1 /\ requests'[n] = c
      /\ \A n \in 1..Len(requests) : n \in 1..Len(requests') /\ requests'[n] = requests[n]
  BY <1>3, <1>4
<1>6. RequestsAreOwned'
  <2>1. \A n, m \in 1..Len(requests') : requests'[n] = requests'[m] => n = m
    <3> SUFFICES ASSUME NEW n \in 1..Len(requests'), NEW m \in 1..Len(requests'), requests'[n] = requests'[m]
                 PROVE  n = m
      OBVIOUS
    <3>1. \A i, k \in 1..Len(requests) : requests[i] = requests[k] => i = k
      BY DEF PoolInv, RequestsAreOwned
    <3> QED  BY <1>3, <1>5, <3>1
  <2>2. ASSUME NEW n \in 1..Len(requests')
        PROVE  /\ result'[requests'[n]] # None /\ reply'[requests'[n]] = None
               /\ leader'[requests'[n]] = "none"
               /\ \A w \in Workers : worker'[w].for # requests'[n]
    <3>1. CASE requests'[n] = c  BY <1>1, <1>2, <1>4, <3>1
    <3>2. CASE n \in 1..Len(requests) /\ requests'[n] = requests[n]
      <4>1. requests[n] \in Callers \ {c}  BY <1>3, <3>2
      <4>2. /\ result[requests[n]] # None /\ reply[requests[n]] = None
            /\ leader[requests[n]] = "none"
            /\ \A w \in Workers : worker[w].for # requests[n]
        BY <3>2 DEF PoolInv, RequestsAreOwned
      <4> QED  BY <1>1, <1>4, <3>2, <4>1, <4>2
    <3> QED  BY <1>5, <3>1, <3>2
  <2>3. \A w, v \in Workers : worker'[w].for = worker'[v].for => w = v \/ worker'[w].for = None
    BY <1>1 DEF PoolInv, RequestsAreOwned
  <2> QED  BY <2>1, <2>2, <2>3 DEF RequestsAreOwned
<1>7. ASSUME NEW w \in Workers PROVE WorkerKnows(w)'
  <2>1. WorkerKnows(w) /\ worker[w].for # c /\ worker[w].for \in Callers \cup {None}
    BY <1>2 DEF PoolInv, PoolTypeOK, Supervisions
  <2> QED  BY <1>1, <1>4, <2>1 DEF WorkerKnows
<1>8. ASSUME NEW d \in Callers PROVE ProgramIsKnown(d)'
  <2>1. ProgramIsKnown(d) /\ (Served(d)' <=> Served(d))  BY <1>1 DEF PoolInv, Served
  <2>2. Waits(d) => Waits(d)'
    <3>1. DOMAIN requests = 1..Len(requests) /\ DOMAIN requests' = 1..Len(requests')  BY <1>3, <1>5
    <3> QED  BY <1>5, <3>1 DEF Waits
  <2>3. CASE d # c  BY <1>1, <1>4, <2>1, <2>2, <2>3 DEF ProgramIsKnown, Probes!AtEnd
  <2>4. CASE d = c
    <3>1. result'[c] = "waiting" => Waits(c)'
      <4>1. ASSUME requests' = Append(requests, c) PROVE Waits(c)'
        <5>1. Len(requests) + 1 \in DOMAIN requests' /\ requests'[Len(requests) + 1] = c  BY <1>3, <4>1
        <5> QED  BY <5>1 DEF Waits
      <4> QED  BY <1>4, <4>1
    <3> QED  BY <1>1, <1>4, <2>1, <2>4, <3>1 DEF ProgramIsKnown, Probes!AtEnd
  <2> QED  BY <2>3, <2>4
<1> QED  BY <1>1, <1>6, <1>7, <1>8 DEF PoolInv

\* GiveUp, Receive and TimePasses change only what the caller sees.
LEMMA CallerIsAnswered ==
    ASSUME PoolAssumption, PoolInv, NEW c \in Callers,
           Probes!GiveUp(c) \/ Probes!Receive(c) \/ Probes!TimePasses(c)
    PROVE  PoolInv'
<1>1. /\ PoolTypeOK'
      /\ UNCHANGED <<requests, worker, got, reply, leader, helper, written, reused>>
  BY CallerTypes DEF PoolInv, Probes!GiveUp, Probes!Receive, Probes!TimePasses, Probes!programs
<1>2. \A d \in Callers : result[d] = result'[d]
                         \/ (result[d] # None /\ result'[d] # None /\ result'[d] # "waiting")
  <2>1. "gave up" # None /\ "gave up" # "waiting" /\ "waiting" # None
    BY DEF PoolAssumption, NoneIsNothingElse
  <2>0. DOMAIN result = Callers  BY DEF PoolInv, PoolTypeOK
  <2>2. \/ result' = result
        \/ \E r \in Results \ {None, "waiting"} : result[c] = "waiting" /\ result' = [result EXCEPT ![c] = r]
    <3>1. CASE Probes!GiveUp(c)
      <4>1. "gave up" \in Results  BY PoolNames
      <4> QED  BY <2>1, <3>1, <4>1 DEF Probes!GiveUp
    <3>2. CASE Probes!TimePasses(c)  BY <3>2 DEF Probes!TimePasses
    <3>3. CASE Probes!Receive(c)
      <4>1. reply[c] # None  BY <3>3 DEF Probes!Receive
      <4>2. reply[c] \in Replies  BY DEF PoolInv, PoolTypeOK
      <4>3. reply[c] # "waiting"  BY <4>1, <4>2 DEF Replies
      <4> QED  BY <3>3, <4>1, <4>2, <4>3, PoolNames DEF Probes!Receive
    <3> QED  BY <3>1, <3>2, <3>3
  <2>3. CASE result' = result  BY <2>3
  <2>4. ASSUME NEW r \in Results \ {None, "waiting"}, result[c] = "waiting", result' = [result EXCEPT ![c] = r],
               NEW d \in Callers
        PROVE  result[d] = result'[d] \/ (result[d] # None /\ result'[d] # None /\ result'[d] # "waiting")
    BY <2>0, <2>1, <2>4
  <2> QED  BY <2>2, <2>3, <2>4
<1>3. RequestsAreOwned'
  <2>1. \A n \in 1..Len(requests) : requests[n] \in Callers
    <3>1. requests \in Seq(Callers)  BY DEF PoolInv, PoolTypeOK
    <3> QED  BY <3>1
  <2> QED  BY <1>1, <1>2, <2>1 DEF PoolInv, RequestsAreOwned
<1>4. ASSUME NEW w \in Workers PROVE WorkerKnows(w)'
  <2>1. WorkerKnows(w) /\ worker[w].for \in Callers \cup {None}
    BY DEF PoolInv, PoolTypeOK, Supervisions
  <2> QED  BY <1>1, <1>2, <2>1 DEF WorkerKnows
<1>5. ASSUME NEW d \in Callers PROVE ProgramIsKnown(d)'
  <2>1. /\ ProgramIsKnown(d) /\ (Served(d)' <=> Served(d)) /\ (Waits(d)' <=> Waits(d))
    BY <1>1 DEF PoolInv, Served, Waits
  <2> QED  BY <1>1, <1>2, <2>1 DEF ProgramIsKnown, Probes!AtEnd
<1> QED  BY <1>1, <1>3, <1>4, <1>5 DEF PoolInv

\* Program: what a program does is known to its supervisor; its number is not reused.
LEMMA ProgramRuns ==
    ASSUME PoolAssumption, PoolInv, NEW c \in Callers, Probes!Program(c) PROVE PoolInv'
<1>1. PoolTypeOK' /\ UNCHANGED <<result, late, requests, worker, got, reply>>
  BY ProgramTypes DEF PoolInv, Probes!Program, Probes!callers
<1>2. ProgramIsKnown(c) /\ \A w \in Workers : WorkerKnows(w)
  BY DEF PoolInv
<1>3. ~Probes!Reuse(c)
  <2> SUFFICES ASSUME NEW w \in Workers, worker[w].for = c, leader[c] = "reaped" PROVE FALSE
    BY DEF Probes!Reuse
  <2>1. c # None /\ WorkerKnows(w)  BY <1>2 DEF PoolAssumption, NoneIsNothingElse
  <2>2. worker[w].at \in {"idle", "start", "out", "err", "wait", "kill", "reap"}
    BY DEF PoolInv, PoolTypeOK, Supervisions
  <2> QED  BY <2>1, <2>2 DEF WorkerKnows
<1>4. \/ \E p \in Probes!Pipes : Probes!Write(c, p)
      \/ Probes!StartHelper(c) \/ Probes!HelperEnds(c)
      \/ leader[c] = "running" /\ Probes!Leader(c, "silent")
      \/ Probes!Running(c) /\ Probes!Leader(c, "exited")
      \/ leader[c] = "killed" /\ Probes!Leader(c, "exited")
  BY <1>3 DEF Probes!Program
<1>5. /\ reused' = reused
      /\ \A d \in Callers \ {c} : /\ leader'[d] = leader[d] /\ helper'[d] = helper[d]
                                  /\ written'[d] = written[d]
  <2>1. reused' = reused
    BY <1>4 DEF Probes!Write, Probes!StartHelper, Probes!HelperEnds, Probes!Leader
  <2>2. \A d \in Callers \ {c} : leader'[d] = leader[d] /\ helper'[d] = helper[d]
    BY <1>4 DEF Probes!Write, Probes!StartHelper, Probes!HelperEnds, Probes!Leader, PoolInv,
                PoolTypeOK
  <2>3. \A d \in Callers \ {c} : written'[d] = written[d]
    BY <1>4 DEF Probes!Write, Probes!StartHelper, Probes!HelperEnds, Probes!Leader, PoolInv,
                PoolTypeOK
  <2> QED  BY <2>1, <2>2, <2>3
<1>6. /\ leader[c] \in {"none", "reaped"} => leader'[c] = leader[c]
      /\ leader[c] \in {"running", "silent", "exited"} => leader'[c] \in {"running", "silent", "exited"}
      /\ leader[c] \in {"killed", "exited"} => leader'[c] \in {"killed", "exited"}
      /\ leader[c] # "running" => leader'[c] # "running"
      /\ leader'[c] = "none" => leader[c] = "none"
  <2>1. \/ leader'[c] = leader[c]
        \/ leader[c] = "running" /\ leader'[c] = "silent"
        \/ leader[c] \in {"running", "silent", "killed"} /\ leader'[c] = "exited"
    BY <1>4 DEF Probes!Write, Probes!StartHelper, Probes!HelperEnds, Probes!Leader,
                Probes!Running,
                PoolInv, PoolTypeOK
  <2> QED  BY <2>1
<1>7. leader[c] # "running" => (helper'[c] => helper[c])
  BY <1>4 DEF Probes!Write, Probes!StartHelper, Probes!HelperEnds, Probes!Leader, PoolInv,
              PoolTypeOK
<1>8. \A p \in Probes!Pipes :
        /\ written[c][p] \in Nat /\ written'[c][p] \in Nat /\ got[c][p].bytes \in Nat
        /\ written'[c][p] >= written[c][p]
        /\ Probes!AtEnd(c) => written'[c][p] = written[c][p]
  <2>1. \A p \in Probes!Pipes : written[c][p] \in Nat /\ written'[c][p] \in Nat /\ got[c][p].bytes \in Nat
    BY <1>1 DEF PoolInv, PoolTypeOK, Pipe
  <2>2. CASE written' = written  BY <2>1, <2>2
  <2>3. ASSUME NEW q \in Probes!Pipes, ~Probes!AtEnd(c), written' = [written EXCEPT ![c][q] = @ + 1]
        PROVE  \A p \in Probes!Pipes : written'[c][p] >= written[c][p]
    <3>1. written'[c][q] = written[c][q] + 1 /\ \A p \in Probes!Pipes \ {q} : written'[c][p] = written[c][p]
      BY <2>3 DEF PoolInv, PoolTypeOK
    <3> QED  BY <2>1, <3>1
  <2>4. \/ written' = written
        \/ \E q \in Probes!Pipes : ~Probes!AtEnd(c) /\ written' = [written EXCEPT ![c][q] = @ + 1]
    BY <1>4 DEF Probes!Write, Probes!StartHelper, Probes!HelperEnds, Probes!Leader
  <2> QED  BY <2>1, <2>2, <2>3, <2>4
<1>9. RequestsAreOwned'
  <2>1. \A n \in 1..Len(requests) : requests[n] \in Callers
    <3>1. requests \in Seq(Callers)  BY DEF PoolInv, PoolTypeOK
    <3> QED  BY <3>1
  <2> QED  BY <1>1, <1>5, <1>6, <2>1 DEF PoolInv, RequestsAreOwned
<1>10. ASSUME NEW w \in Workers PROVE WorkerKnows(w)'
  <2>1. WorkerKnows(w) /\ worker[w].for \in Callers \cup {None}
    BY DEF PoolInv, PoolTypeOK, Supervisions
  <2>2. CASE worker[w].for = c  BY <1>1, <1>6, <1>7, <2>1, <2>2 DEF WorkerKnows
  <2>3. CASE worker[w].for # c  BY <1>1, <1>5, <2>1, <2>3 DEF WorkerKnows
  <2> QED  BY <2>2, <2>3
<1>11. ASSUME NEW d \in Callers \ {c} PROVE ProgramIsKnown(d)'
  <2>1. /\ ProgramIsKnown(d) /\ (Served(d)' <=> Served(d)) /\ (Waits(d)' <=> Waits(d))
    BY <1>1 DEF PoolInv, Served, Waits
  <2> QED  BY <1>1, <1>5, <2>1 DEF ProgramIsKnown, Probes!AtEnd
<1>12. ProgramIsKnown(c)'
  <2>1. /\ (Served(c)' <=> Served(c)) /\ (Waits(c)' <=> Waits(c))
    BY <1>1 DEF Served, Waits
  <2>2. Probes!AtEnd(c) => Probes!AtEnd(c)'
    BY <1>6, <1>7 DEF Probes!AtEnd
  <2>3. leader'[c] = "none" =>
          /\ ~helper'[c]
          /\ \A p \in Probes!Pipes : written'[c][p] = 0 /\ got'[c][p].bytes = 0 /\ ~got'[c][p].done
    BY <1>1, <1>2, <1>6, <1>7, <1>8 DEF ProgramIsKnown, Probes!AtEnd
  <2>4. \A p \in Probes!Pipes :
          /\ got'[c][p].bytes <= written'[c][p]
          /\ got'[c][p].done => Probes!AtEnd(c)' /\ got'[c][p].bytes = written'[c][p]
    BY <1>1, <1>2, <1>8, <2>2 DEF ProgramIsKnown
  <2>5. ~Served(c) => leader'[c] \in {"none", "reaped"} /\ ~helper'[c]
    BY <1>2, <1>6, <1>7 DEF ProgramIsKnown
  <2>6. result'[c] = None => leader'[c] = "none" /\ reply'[c] = None
    BY <1>1, <1>2, <1>6 DEF ProgramIsKnown
  <2> QED  BY <1>1, <1>2, <1>5, <2>1, <2>3, <2>4, <2>5, <2>6 DEF ProgramIsKnown
<1> QED  BY <1>1, <1>9, <1>10, <1>11, <1>12 DEF PoolInv

\* Take: the first request of the queue goes to one supervisor.
LEMMA PoolTakes ==
    ASSUME PoolAssumption, PoolInv, NEW w \in Workers, Probes!Take(w) PROVE PoolInv'
<1>1. /\ PoolTypeOK'
      /\ UNCHANGED <<result, late, got, reply, leader, helper, written, reused>>
  BY TakeTypes DEF PoolInv, Probes!Take, Probes!callers, Probes!programs
<1>2. requests \in Seq(Callers) /\ requests # <<>> /\ requests' = Tail(requests)
  BY DEF PoolInv, PoolTypeOK, Probes!Take
<1>3. PICK c \in Callers : c = Head(requests)  BY <1>2
<1>4. /\ c # None /\ 1 \in 1..Len(requests) /\ c = requests[1]
      /\ DOMAIN requests = 1..Len(requests) /\ DOMAIN requests' = 1..Len(requests')
      /\ \A n \in 1..Len(requests') :
            n + 1 \in 1..Len(requests) /\ n + 1 # 1 /\ requests'[n] = requests[n + 1]
      /\ \A n \in 1..Len(requests) : n # 1 =>
            n - 1 \in 1..Len(requests') /\ requests'[n - 1] = requests[n]
  <2>1. c # None  BY DEF PoolAssumption, NoneIsNothingElse
  <2> QED  BY <1>2, <1>3, <2>1
<1>5. /\ worker[w].for = None /\ worker'[w].at = "start" /\ worker'[w].for = c
      /\ \A v \in Workers \ {w} : worker'[v] = worker[v]
  <2>1. worker[w].for = None  BY DEF Probes!Take, Probes!Idle
  <2>2. DOMAIN worker = Workers  BY DEF PoolInv, PoolTypeOK
  <2>3. worker' = [worker EXCEPT ![w] = [at |-> "start", for |-> c]]  BY <1>3 DEF Probes!Take
  <2> QED  BY <2>1, <2>2, <2>3
<1>6. /\ result[c] # None /\ reply[c] = None /\ leader[c] = "none" /\ \A v \in Workers : worker[v].for # c
      /\ \A n \in 1..Len(requests) : n # 1 => requests[n] # c
  BY <1>4 DEF PoolInv, RequestsAreOwned
<1>7. RequestsAreOwned'
  <2>1. \A n, m \in 1..Len(requests') : requests'[n] = requests'[m] => n = m
    <3> SUFFICES ASSUME NEW n \in 1..Len(requests'), NEW m \in 1..Len(requests'), requests'[n] = requests'[m]
                 PROVE  n = m
      OBVIOUS
    <3>1. n + 1 = m + 1
      BY <1>4 DEF PoolInv, RequestsAreOwned
    <3> QED  BY <3>1
  <2>2. ASSUME NEW n \in 1..Len(requests')
        PROVE  /\ result'[requests'[n]] # None /\ reply'[requests'[n]] = None
               /\ leader'[requests'[n]] = "none"
               /\ \A v \in Workers : worker'[v].for # requests'[n]
    <3>1. /\ n + 1 \in 1..Len(requests) /\ requests'[n] = requests[n + 1] /\ requests[n + 1] # c
      BY <1>4, <1>6
    <3>2. /\ result[requests[n + 1]] # None /\ reply[requests[n + 1]] = None
          /\ leader[requests[n + 1]] = "none"
          /\ \A v \in Workers : worker[v].for # requests[n + 1]
      BY <3>1 DEF PoolInv, RequestsAreOwned
    <3> QED  BY <1>1, <1>5, <3>1, <3>2
  <2>3. ASSUME NEW v \in Workers, NEW u \in Workers, worker'[v].for = worker'[u].for
        PROVE  v = u \/ worker'[v].for = None
    BY <1>5, <1>6, <2>3 DEF PoolInv, RequestsAreOwned
  <2> QED  BY <2>1, <2>2, <2>3 DEF RequestsAreOwned
<1>8. ASSUME NEW v \in Workers PROVE WorkerKnows(v)'
  <2>1. CASE v = w  BY <1>1, <1>4, <1>5, <1>6, <2>1 DEF WorkerKnows
  <2>2. CASE v # w
    <3>1. WorkerKnows(v)  BY DEF PoolInv
    <3> QED  BY <1>1, <1>5, <2>2, <3>1 DEF WorkerKnows
  <2> QED  BY <2>1, <2>2
<1>9. ASSUME NEW d \in Callers PROVE ProgramIsKnown(d)'
  <2>1. Served(d)' <=> Served(d) \/ d = c
    <3>1. d # None  BY DEF PoolAssumption, NoneIsNothingElse
    <3> QED  BY <1>5, <3>1 DEF Served
  <2>2. Waits(d) => Waits(d)' \/ d = c
    BY <1>4 DEF Waits
  <2>3. ProgramIsKnown(d)  BY DEF PoolInv
  <2> QED  BY <1>1, <2>1, <2>2, <2>3 DEF ProgramIsKnown, Probes!AtEnd
<1> QED  BY <1>1, <1>7, <1>8, <1>9 DEF PoolInv

\* Every step of the pool keeps PoolInv.
LEMMA PoolStep ==
    ASSUME PoolAssumption, PoolInv, [Probes!Next]_(Probes!vars) PROVE PoolInv'
<1>1. CASE UNCHANGED Probes!vars
  <2>1. UNCHANGED <<result, late, requests, worker, got, reply, leader, helper, written, reused>>
    BY <1>1 DEF Probes!vars
  <2>2. PoolTypeOK' /\ RequestsAreOwned'
    BY <2>1 DEF PoolInv, PoolTypeOK, RequestsAreOwned
  <2>3. ASSUME NEW w \in Workers PROVE WorkerKnows(w)'
    BY <2>1 DEF PoolInv, WorkerKnows
  <2>4. ASSUME NEW c \in Callers PROVE ProgramIsKnown(c)'
    <3>1. (Served(c)' <=> Served(c)) /\ (Waits(c)' <=> Waits(c)) /\ ProgramIsKnown(c)
      BY <2>1 DEF PoolInv, Served, Waits
    <3> QED  BY <2>1, <3>1 DEF ProgramIsKnown, Probes!AtEnd
  <2> QED  BY <2>2, <2>3, <2>4 DEF PoolInv
<1>2. ASSUME NEW c \in Callers,
             \/ Probes!Call(c) \/ Probes!GiveUp(c) \/ Probes!Receive(c) \/ Probes!TimePasses(c)
             \/ Probes!Program(c)
      PROVE  PoolInv'
  BY <1>2, PoolIsCalled, CallerIsAnswered, ProgramRuns
<1>3. ASSUME NEW w \in Workers,
             \/ Probes!Take(w) \/ Probes!Start(w) \/ (\E p \in Probes!Pipes : Probes!Drain(w, p))
             \/ Probes!Wait(w) \/ Probes!Kill(w) \/ Probes!Reap(w)
      PROVE  PoolInv'
  BY <1>3, PoolTakes, PoolStarts, PoolDrains, PoolWaits, PoolKills, PoolReaps
<1> QED  BY <1>1, <1>2, <1>3 DEF Probes!Next

\* PoolInv holds for any number of callers and supervisors.
LEMMA PoolHolds ==
    ASSUME PoolAssumption PROVE Probes!Spec => []PoolInv
<1>1. Probes!Init => PoolInv  BY PoolStart
<1>2. PoolInv /\ [Probes!Next]_(Probes!vars) => PoolInv'  BY PoolStep
<1> QED  BY <1>1, <1>2, PTL DEF Probes!Spec

\* No program is killed for another one that had its number (probe.rs supervise: "Until
\* here its PID cannot be reused"), for any number of callers, supervisors and bytes.
THEOREM NoStrangerIsKilled ==
    ASSUME PoolAssumption PROVE Probes!Spec => []Probes!OnlyItsOwnIsKilled
<1>1. PoolInv => Probes!OnlyItsOwnIsKilled
  BY DEF PoolInv, ProgramIsKnown, Probes!OnlyItsOwnIsKilled
<1> QED  BY <1>1, PoolHolds, PTL

\* There is never a program without its supervisor, and when one is done with a request
\* then the program is reaped and nobody holds its pipes (probe.rs supervise), for any
\* number of callers, supervisors and bytes.
THEOREM NoProgramIsLeft ==
    ASSUME PoolAssumption PROVE Probes!Spec => []Probes!NothingIsLeftRunning
<1>1. PoolInv => Probes!NothingIsLeftRunning
  BY DEF PoolInv, ProgramIsKnown, Served, Probes!NothingIsLeftRunning
<1> QED  BY <1>1, PoolHolds, PTL

\* What a caller gets as output is all that was written, within the limit of both pipes,
\* and no request is lost (probe.rs call, collect and drain), for any number of callers,
\* supervisors and bytes.
THEOREM WholeOutputOrNone ==
    ASSUME PoolAssumption PROVE Probes!Spec => []Probes!OutputIsWhole
<1>1. ASSUME PoolInv, NEW c \in Callers
      PROVE  /\ reply[c] = "output" =>
                  /\ \A p \in Probes!Pipes : got[c][p].bytes = written[c][p]
                  /\ written[c]["out"] + written[c]["err"] <= MaxBytes
             /\ result[c] = "waiting" /\ reply[c] = None => Waits(c) \/ Served(c)
  BY <1>1, PoolNames DEF PoolInv, ProgramIsKnown
<1>2. PoolInv => Probes!OutputIsWhole
  BY <1>1 DEF Probes!OutputIsWhole, Waits, Served
<1> QED  BY <1>2, PoolHolds, PTL

-----------------------------------------------------------------------------
(* ActivityCheck: who uses what is about to be cleaned, of activity.rs      *)

CONSTANTS Self, Pids, Uses, Gates, Apps, Local, Identifiers, MaxProcesses, MaxBundles, MaxAge, MaxTime,
          MaxMoves, MaxChanges
VARIABLES now, changes, cancel, runs, since, plist, touched, gate, asked, at, cached, todo, here, seen,
          read, verdict

Activity == INSTANCE ActivityCheck WITH written <- touched

\* MaxAge is a time, a process is not None, and owners have names.
ActivityAssumption ==
    /\ MaxAge \in Nat \ {0} /\ None \notin Pids /\ Self # None /\ Local \subseteq Apps
    /\ \A g \in Gates : g.kind = "cache" => None \notin g.owners

\* What a file and the Contents of an app may be.
FileRows == [inode : Nat, version : Nat, id : Identifiers \cup {None}, is : {"file", "other", "absent"}]
AppRows == [contents : {1, 2}, info : [{1, 2} -> FileRows]]

\* The places at which an Info.plist is read, and those after it was looked at.
Pinned == {"open", "same", "part", "after", "folder again", "again"}
Reading == {"folder", "before"} \cup Pinned
\* There is a look, of this check or of an earlier one.
Kept == at # "idle" \/ cached # None

\* The world; what is written has a version that was never there before.
WorldFits ==
    /\ now \in Nat /\ changes \in Nat
    /\ DOMAIN runs = Activity!Processes /\ since \in [Activity!Processes -> Nat]
    /\ plist \in [Apps -> AppRows] /\ touched \in [Apps -> Nat]
    /\ \A a \in Apps : \A n \in {1, 2} : plist[a].info[n].version <= changes
\* What the check keeps, and that the look is young enough.
ChecksFit ==
    /\ seen = [paths |-> seen.paths, folders |-> seen.folders]
    /\ read = [app |-> read.app, left |-> read.left, folder |-> read.folder, before |-> read.before,
               fd |-> read.fd, parts |-> read.parts, was |-> read.was]
    /\ Kept =>
          /\ cached = [time |-> cached.time, failed |-> cached.failed, look |-> cached.look,
                       asked |-> cached.asked, ids |-> cached.ids]
          /\ cached.time \in Nat /\ cached.time <= now /\ cached.asked \in {"no", "yes", "failed"}
    /\ at # "idle" => gate \in Gates /\ asked \in Nat /\ asked < cached.time + MaxAge

\* A process that has been doing the same since before the look.
Steady(p) == since[p] < cached.time /\ ~Activity!Gone(p)
\* It is in the look.
LookFits ==
    /\ at \in {"list", "look"} => cached.asked = "no"
    /\ at = "look" => \A p \in Activity!Processes : Steady(p) =>
          \/ p \in todo
          \/ runs[p] \in seen.paths /\ (p = Self \/ here = p \/ runs[p].cwd \in seen.folders)
    /\ Kept /\ at \notin {"list", "look"} /\ ~cached.failed =>
          \A p \in Activity!Processes : Steady(p) =>
             runs[p] \in cached.look.paths /\ (p = Self \/ runs[p].cwd \in cached.look.folders)

\* The apps that were found, and one that has had its identifier since before the look.
Found == UNION {use.apps : use \in cached.look.paths}
Lasting(a) == a \in Local /\ touched[a] < cached.time /\ Activity!Shown(plist[a]) # None
\* Its identifier is among those that were read.
OwnersFit ==
    /\ Kept /\ cached.asked = "yes" => \A a \in Found :
          Lasting(a) => Activity!Shown(plist[a]) \in cached.ids
    /\ at \in {"next"} \cup Reading => \A a \in Found :
          Lasting(a) =>
             \/ a \in read.left \/ (at \in Reading /\ a = read.app)
             \/ Activity!Shown(plist[a]) \in cached.ids

\* The Info.plist that was looked at, if it is the one that is there.
AsItWas == Activity!Info(read.folder).version = read.before.version
\* What is known of it then, and what is known if it has been there since before the look.
ReadFits ==
    /\ at \in Reading => Activity!Shown(plist[read.app]) \in read.was
    /\ at \in Reading \ {"folder"} => read.app \in Local /\ read.folder \in {1, 2}
    /\ at \in Pinned =>
          /\ read.before \in FileRows /\ read.before.version <= changes /\ read.before.is = "file"
          /\ AsItWas => Activity!Info(read.folder) = read.before
    /\ at = "part" =>
          \/ read.parts = <<>>
          \/ \E x : read.parts = <<x>> /\ (AsItWas => x = read.before.id)
    /\ at \in {"after", "folder again", "again"} =>
          \E x, y : read.parts = <<x, y>> /\ (AsItWas => x = read.before.id /\ y = read.before.id)
    /\ at \in {"folder", "before", "open", "same"} => read.parts = <<>>
    /\ at = "again" /\ AsItWas => read.before.id \in read.was
    /\ at \in Reading \ {"folder"} /\ Lasting(read.app) =>
          /\ read.folder = plist[read.app].contents
          /\ at \in Pinned => AsItWas
          /\ at \in Pinned \ {"open"} => read.fd = Activity!Info(read.folder).inode

\* The inductive invariant.
ActivityInv == WorldFits /\ ChecksFit /\ LookFits /\ OwnersFit /\ ReadFits

\* The apps are looked up at their own rows.
LEMMA RowFacts ==
    ASSUME WorldFits, NEW a \in Apps
    PROVE  /\ plist[a] \in AppRows /\ touched[a] \in Nat /\ plist[a].contents \in {1, 2}
           /\ \A n \in {1, 2} : plist[a].info[n] \in FileRows /\ plist[a].info[n].version <= changes
<1>1. plist[a] \in AppRows /\ touched[a] \in Nat  BY DEF WorldFits
<1>2. plist[a].contents \in {1, 2} /\ plist[a].info \in [{1, 2} -> FileRows]  BY <1>1 DEF AppRows
<1> QED  BY <1>1, <1>2 DEF WorldFits

\* At the start nobody has looked yet.
LEMMA ActivityStarts ==
    ASSUME ActivityAssumption, Activity!Init PROVE ActivityInv
<1>1. WorldFits
  <2>1. now \in Nat /\ changes \in Nat  BY DEF Activity!Init, ActivityAssumption
  <2>2. DOMAIN runs = Activity!Processes /\ since \in [Activity!Processes -> Nat]
    <3>1. since \in [Activity!Processes -> Nat]  BY DEF Activity!Init
    <3>2. DOMAIN runs = Activity!Processes  BY DEF Activity!Init
    <3> QED  BY <3>1, <3>2
  <2>3. touched \in [Apps -> Nat]  BY DEF Activity!Init
  <2>4. PICK id \in Identifiers :
          plist = [a \in Apps |-> [contents |-> 1, info |-> [n \in {1, 2} |-> Activity!File(0, id, "file")]]]
    BY DEF Activity!Init
  <2> DEFINE f == Activity!File(0, id, "file")
  <2>5. f \in FileRows /\ f.version = 0  BY DEF FileRows, Activity!File
  <2> HIDE DEF f
  <2>6. [contents |-> 1, info |-> [n \in {1, 2} |-> f]] \in AppRows  BY <2>5 DEF AppRows
  <2>7. plist \in [Apps -> AppRows]  BY <2>4, <2>6 DEF f
  <2>8. \A a \in Apps : \A n \in {1, 2} : plist[a].info[n] = f  BY <2>4 DEF f
  <2>9. changes = 0  BY DEF Activity!Init
  <2> QED  BY <2>1, <2>2, <2>3, <2>5, <2>7, <2>8, <2>9 DEF WorldFits
<1>2. at = "idle" /\ cached = None  BY DEF Activity!Init
<1>3. ~Kept  BY <1>2 DEF Kept
<1>4. ChecksFit  BY <1>2, <1>3 DEF ChecksFit, Activity!Init, Activity!Nothing, Activity!NoRead
<1>5. LookFits  BY <1>2, <1>3 DEF LookFits
<1>6. OwnersFit  BY <1>2, <1>3 DEF OwnersFit, Reading, Pinned
<1>7. ReadFits  BY <1>2 DEF ReadFits, Reading, Pinned
<1> QED  BY <1>1, <1>4, <1>5, <1>6, <1>7 DEF ActivityInv

-----------------------------------------------------------------------------
(* What other programs do                                                  *)

\* A process that moves is not steady from then on; nothing else is touched.
LEMMA MoveKeeps ==
    ASSUME ActivityAssumption, ActivityInv, NEW p \in Pids, Activity!Move(p) PROVE ActivityInv'
<1>1. UNCHANGED <<now, cancel, plist, touched, read, gate, asked, at, cached, todo, here, seen, verdict>>
  BY DEF Activity!Move, Activity!check
<1>2. /\ cached # None /\ changes' = changes + 1 /\ since' = [since EXCEPT ![p] = now]
      /\ \E use : runs' = [runs EXCEPT ![p] = use]
  BY DEF Activity!Move, Activity!Changed
<1>3. WorldFits /\ ChecksFit /\ LookFits /\ OwnersFit /\ ReadFits  BY DEF ActivityInv
<1>4. p \in Activity!Processes  BY DEF Activity!Processes
<1>5. WorldFits'
  <2>1. DOMAIN runs' = Activity!Processes  BY <1>2, <1>3 DEF WorldFits
  <2>2. since' \in [Activity!Processes -> Nat]  BY <1>2, <1>3 DEF WorldFits
  <2>3. changes' \in Nat /\ changes <= changes' /\ changes \in Nat  BY <1>2, <1>3 DEF WorldFits
  <2>4. \A a \in Apps : \A n \in {1, 2} : plist[a].info[n].version <= changes'
    <3> TAKE a \in Apps
    <3> TAKE n \in {1, 2}
    <3>1. plist[a].info[n] \in FileRows /\ plist[a].info[n].version <= changes  BY <1>3, RowFacts
    <3>2. plist[a].info[n].version \in Nat  BY <3>1 DEF FileRows
    <3> QED  BY <3>1, <3>2, <2>3
  <2> QED  BY <1>1, <1>3, <2>1, <2>2, <2>3, <2>4 DEF WorldFits
<1>6. ChecksFit'  BY <1>1, <1>3 DEF ChecksFit, Kept
<1>7. \A q \in Activity!Processes : Steady(q)' => Steady(q) /\ runs'[q] = runs[q]
  <2> SUFFICES ASSUME NEW q \in Activity!Processes, Steady(q)' PROVE Steady(q) /\ runs'[q] = runs[q]
    OBVIOUS
  <2>1. since'[q] < cached.time  BY <1>1 DEF Steady
  <2>2. cached.time \in Nat /\ cached.time <= now /\ now \in Nat
    BY <1>2, <1>3 DEF ChecksFit, Kept, WorldFits
  <2>3. q # p
    <3>1. since'[p] = now  BY <1>2, <1>3, <1>4 DEF WorldFits
    <3> QED  BY <2>1, <2>2, <3>1
  <2>4. since'[q] = since[q] /\ runs'[q] = runs[q]  BY <1>2, <1>3, <2>3 DEF WorldFits
  <2> QED  BY <1>1, <2>1, <2>4 DEF Steady, Activity!Gone
<1>8. LookFits'
  <2>1. (at' \in {"list", "look"} => cached'.asked = "no")  BY <1>1, <1>3 DEF LookFits
  <2>2. at' = "look" => \A q \in Activity!Processes : Steady(q)' =>
          \/ q \in todo'
          \/ runs'[q] \in seen'.paths /\ (q = Self \/ here' = q \/ runs'[q].cwd \in seen'.folders)
    BY <1>1, <1>3, <1>7 DEF LookFits
  <2>3. Kept' /\ at' \notin {"list", "look"} /\ ~cached'.failed =>
          \A q \in Activity!Processes : Steady(q)' =>
             runs'[q] \in cached'.look.paths /\ (q = Self \/ runs'[q].cwd \in cached'.look.folders)
    BY <1>1, <1>3, <1>7 DEF LookFits, Kept
  <2> QED  BY <2>1, <2>2, <2>3 DEF LookFits
<1>9. OwnersFit'
  BY <1>1, <1>3 DEF OwnersFit, Kept, Found, Lasting, Activity!Shown
<1>10. ReadFits'
  <2>1. changes \in Nat /\ changes' = changes + 1  BY <1>2, <1>3 DEF WorldFits
  <2>2. at \in Pinned => read.before \in FileRows /\ read.before.version <= changes'
    <3>1. ASSUME at \in Pinned PROVE read.before \in FileRows /\ read.before.version <= changes
      BY <1>3, <3>1 DEF ReadFits
    <3>2. at \in Pinned => read.before.version \in Nat  BY <3>1 DEF FileRows
    <3> QED  BY <2>1, <3>1, <3>2
  <2>3. (AsItWas' <=> AsItWas) /\ Lasting(read.app)' = Lasting(read.app)
    BY <1>1 DEF AsItWas, Lasting, Activity!Info, Activity!Here, Activity!Shown
  <2> QED
    BY <1>1, <1>3, <2>2, <2>3 DEF ReadFits, Activity!Info, Activity!Here, Activity!Shown
<1> QED  BY <1>5, <1>6, <1>8, <1>9, <1>10 DEF ActivityInv

\* What a Touch leaves of the Info.plist in each folder: it is as it was, or has a version of its own.
Touched(a, p) ==
    \A n \in {1, 2} : p.info[n] = plist[a].info[n] \/ p.info[n].version = changes + 1

\* Every update is such a touch.
LEMMA UpdateTouches ==
    ASSUME ActivityAssumption, ActivityInv, NEW a \in Local, Activity!Update(a)
    PROVE  \E p \in AppRows : Activity!Touch(a, p) /\ Touched(a, p)
<1>1. WorldFits /\ a \in Apps  BY DEF ActivityInv, ActivityAssumption
<1>2. plist[a] \in AppRows /\ \A n \in {1, 2} : plist[a].info[n] \in FileRows
  BY <1>1, RowFacts
<1>3. plist[a].contents \in {1, 2} /\ plist[a].info \in [{1, 2} -> FileRows]  BY <1>2 DEF AppRows
<1>4. plist[a] = [contents |-> plist[a].contents, info |-> plist[a].info]  BY <1>2 DEF AppRows
<1>5. changes + 1 \in Nat  BY <1>1 DEF WorldFits
<1>6. ASSUME NEW n \in {1, 2}, NEW f \in FileRows, f.version = changes + 1,
             Activity!Touch(a, [contents |-> plist[a].contents, info |-> [plist[a].info EXCEPT ![n] = f]])
      PROVE \E p \in AppRows : Activity!Touch(a, p) /\ Touched(a, p)
  <2> DEFINE i == [plist[a].info EXCEPT ![n] = f]
  <2> DEFINE p == [contents |-> plist[a].contents, info |-> i]
  <2>1. i \in [{1, 2} -> FileRows] /\ \A m \in {1, 2} : i[m] = IF m = n THEN f ELSE plist[a].info[m]
    BY <1>3
  <2> HIDE DEF i
  <2>2. p \in AppRows /\ p.info = i  BY <1>3, <2>1 DEF AppRows
  <2>3. Touched(a, p)  BY <1>6, <2>1, <2>2 DEF Touched
  <2>4. Activity!Touch(a, p)  BY <1>6 DEF i
  <2> QED  BY <2>2, <2>3, <2>4
<1>7. CASE \E n \in {1, 2} : \E id \in Identifiers :
              Activity!Touch(a, [plist[a] EXCEPT !.info[n] = [@ EXCEPT !.id = id, !.version = changes + 1]])
  <2>1. PICK n \in {1, 2}, id \in Identifiers :
           Activity!Touch(a, [plist[a] EXCEPT !.info[n] = [@ EXCEPT !.id = id, !.version = changes + 1]])
    BY <1>7
  <2> DEFINE f == [plist[a].info[n] EXCEPT !.id = id, !.version = changes + 1]
  <2>2. f \in FileRows /\ f.version = changes + 1  BY <1>2, <1>5 DEF FileRows
  <2>3. [plist[a] EXCEPT !.info[n] = [@ EXCEPT !.id = id, !.version = changes + 1]]
          = [contents |-> plist[a].contents, info |-> [plist[a].info EXCEPT ![n] = f]]
    BY <1>3, <1>4
  <2> HIDE DEF f
  <2> QED  BY <2>1, <2>2, <2>3, <1>6
<1>8. ASSUME NEW n \in {1, 2}, NEW id \in Identifiers \cup {None}, NEW is \in {"file", "other", "absent"},
             Activity!Touch(a, [plist[a] EXCEPT !.info[n] = Activity!File(changes + 1, id, is)])
      PROVE \E p \in AppRows : Activity!Touch(a, p) /\ Touched(a, p)
  <2> DEFINE f == Activity!File(changes + 1, id, is)
  <2>1. f \in FileRows /\ f.version = changes + 1  BY <1>5 DEF FileRows, Activity!File
  <2> HIDE DEF f
  <2>2. [plist[a] EXCEPT !.info[n] = f]
          = [contents |-> plist[a].contents, info |-> [plist[a].info EXCEPT ![n] = f]]
    BY <1>3, <1>4
  <2>3. Activity!Touch(a, [plist[a] EXCEPT !.info[n] = f])  BY <1>8 DEF f
  <2> QED  BY <2>1, <2>2, <2>3, <1>6
<1>9. CASE Activity!Touch(a, [plist[a] EXCEPT !.contents = 3 - @])
  <2> DEFINE p == [contents |-> 3 - plist[a].contents, info |-> plist[a].info]
  <2>1. 3 - plist[a].contents \in {1, 2}  BY <1>3
  <2>2. p = [plist[a] EXCEPT !.contents = 3 - @]  BY <1>4
  <2>3. p \in AppRows  BY <1>3, <2>1 DEF AppRows
  <2>4. Touched(a, p)  BY DEF Touched
  <2>5. Activity!Touch(a, p)  BY <1>9, <2>2
  <2> QED  BY <2>3, <2>4, <2>5
<1> QED  BY <1>7, <1>8, <1>9 DEF Activity!Update

\* An Info.plist that is touched while it is read lasts no longer, and does not pass for the one
\* that was looked at.
LEMMA TouchKeeps ==
    ASSUME ActivityAssumption, ActivityInv, NEW a \in Local, NEW p \in AppRows,
           Activity!Touch(a, p), Touched(a, p)
    PROVE  ActivityInv'
<1>1. UNCHANGED <<now, cancel, runs, since, gate, asked, at, cached, todo, here, seen, verdict>>
  BY DEF Activity!Touch, Activity!check
<1>2. /\ read.app = a /\ changes' = changes + 1 /\ plist' = [plist EXCEPT ![a] = p]
      /\ touched' = [touched EXCEPT ![a] = now]
      /\ read' = [read EXCEPT !.was = @ \cup {Activity!Shown(p)}]
  BY DEF Activity!Touch, Activity!Changed
<1>3. WorldFits /\ ChecksFit /\ LookFits /\ OwnersFit /\ ReadFits  BY DEF ActivityInv
<1>4. a \in Apps  BY DEF ActivityAssumption
<1>5. /\ plist' \in [Apps -> AppRows] /\ plist'[a] = p /\ (\A b \in Apps : b # a => plist'[b] = plist[b])
      /\ touched' \in [Apps -> Nat] /\ touched'[a] = now
      /\ (\A b \in Apps : b # a => touched'[b] = touched[b])
  BY <1>2, <1>3, <1>4 DEF WorldFits
<1>6. changes \in Nat /\ changes' = changes + 1  BY <1>2, <1>3 DEF WorldFits
<1>7. \A n \in {1, 2} : p.info[n] \in FileRows  BY DEF AppRows
<1>8. WorldFits'
  <2>1. \A b \in Apps : \A n \in {1, 2} : plist'[b].info[n].version <= changes'
    <3> TAKE b \in Apps
    <3> TAKE n \in {1, 2}
    <3>1. plist[b].info[n] \in FileRows /\ plist[b].info[n].version <= changes  BY <1>3, RowFacts
    <3>2. plist[b].info[n].version \in Nat  BY <3>1 DEF FileRows
    <3>3. CASE b = a  BY <1>5, <1>6, <3>1, <3>2, <3>3 DEF Touched
    <3>4. CASE b # a  BY <1>5, <1>6, <3>1, <3>2, <3>4
    <3> QED  BY <3>3, <3>4
  <2> QED  BY <1>1, <1>3, <1>5, <1>6, <2>1 DEF WorldFits
<1>9. /\ read'.app = read.app /\ read'.left = read.left /\ read'.folder = read.folder
      /\ read'.before = read.before /\ read'.fd = read.fd /\ read'.parts = read.parts
      /\ read'.was = read.was \cup {Activity!Shown(p)}
  BY <1>2, <1>3 DEF ChecksFit
<1>10. ChecksFit'
  <2>1. read' = [app |-> read'.app, left |-> read'.left, folder |-> read'.folder, before |-> read'.before,
                 fd |-> read'.fd, parts |-> read'.parts, was |-> read'.was]
    BY <1>2, <1>3 DEF ChecksFit
  <2> QED  BY <1>1, <1>3, <2>1 DEF ChecksFit, Kept
<1>11. LookFits'  BY <1>1, <1>3 DEF LookFits, Kept, Steady, Activity!Gone
<1>12. ASSUME Kept PROVE \A b : Lasting(b)' => b # a /\ Lasting(b) /\ plist'[b] = plist[b]
  <2>1. cached.time \in Nat /\ cached.time <= now /\ now \in Nat
    BY <1>3, <1>12 DEF ChecksFit, WorldFits
  <2> SUFFICES ASSUME NEW b, Lasting(b)' PROVE b # a /\ Lasting(b) /\ plist'[b] = plist[b]
    OBVIOUS
  <2>2. b \in Local /\ touched'[b] < cached.time /\ Activity!Shown(plist'[b]) # None
    BY <1>1 DEF Lasting, Activity!Shown
  <2>3. b # a  BY <1>5, <2>1, <2>2
  <2>4. b \in Apps  BY <2>2 DEF ActivityAssumption
  <2> QED  BY <1>5, <2>2, <2>3, <2>4 DEF Lasting
<1>13. OwnersFit'
  <2>1. Found' = Found  BY <1>1 DEF Found
  <2>2. (Kept' /\ cached'.asked = "yes") => \A b \in Found' : Lasting(b)' => Activity!Shown(plist'[b]) \in cached'.ids
    BY <1>1, <1>3, <1>12, <2>1 DEF OwnersFit, Kept
  <2>3. at' \in {"next"} \cup Reading => \A b \in Found' : Lasting(b)' =>
             \/ b \in read'.left \/ (at' \in Reading /\ b = read'.app)
             \/ Activity!Shown(plist'[b]) \in cached'.ids
    <3>1. at \in {"next"} \cup Reading => Kept  BY DEF Kept, Reading, Pinned
    <3> QED  BY <1>1, <1>3, <1>9, <1>12, <2>1, <3>1 DEF OwnersFit
  <2> QED  BY <2>2, <2>3 DEF OwnersFit, Activity!Shown
<1>14. ReadFits'
  <2>1. ASSUME at \in Pinned, AsItWas' PROVE AsItWas /\ Activity!Info(read.folder)' = Activity!Info(read.folder)
    <3>1. read.folder \in {1, 2} /\ read.before \in FileRows /\ read.before.version <= changes
      BY <1>3, <2>1 DEF ReadFits, Reading, Pinned
    <3>2. Activity!Info(read.folder)' = p.info[read.folder] /\ Activity!Info(read.folder) = plist[a].info[read.folder]
      BY <1>2, <1>5, <1>9 DEF Activity!Info, Activity!Here
    <3>3. p.info[read.folder].version = read.before.version
      BY <1>9, <2>1, <3>2 DEF AsItWas, Activity!Info, Activity!Here
    <3>4. read.before.version \in Nat  BY <3>1 DEF FileRows
    <3>5. p.info[read.folder].version # changes + 1  BY <1>6, <3>1, <3>3, <3>4
    <3>6. p.info[read.folder] = plist[a].info[read.folder]  BY <3>1, <3>5 DEF Touched
    <3> QED  BY <3>2, <3>3, <3>6 DEF AsItWas
  <2>2. at' \in Reading => ~Lasting(read.app)'
    <3>1. at \in Reading => Kept  BY DEF Kept, Reading, Pinned
    <3> QED  BY <1>1, <1>2, <1>9, <1>12, <3>1 DEF Lasting, Activity!Shown
  <2>3. at \in Reading => Activity!Shown(plist'[read'.app]) \in read'.was
    BY <1>2, <1>5, <1>9
  <2>4. at \in Reading \ {"folder"} => read'.app \in Local /\ read'.folder \in {1, 2}
    BY <1>3, <1>9 DEF ReadFits
  <2>5. at \in Pinned =>
          /\ read'.before \in FileRows /\ read'.before.version <= changes' /\ read'.before.is = "file"
    <3> HAVE at \in Pinned
    <3>1. read.before \in FileRows /\ read.before.version <= changes /\ read.before.is = "file"
      BY <1>3 DEF ReadFits
    <3>2. read.before.version \in Nat  BY <3>1 DEF FileRows
    <3> QED  BY <1>6, <1>9, <3>1, <3>2
  <2>6. at \in Pinned => (AsItWas' => Activity!Info(read.folder)' = read'.before)
    BY <1>3, <1>9, <2>1 DEF ReadFits
  <2>7. at = "part" =>
          \/ read'.parts = <<>>
          \/ \E x : read'.parts = <<x>> /\ (AsItWas' => x = read'.before.id)
    BY <1>3, <1>9, <2>1 DEF ReadFits, Pinned
  <2>8. at \in {"after", "folder again", "again"} =>
          \E x, y : read'.parts = <<x, y>> /\ (AsItWas' => x = read'.before.id /\ y = read'.before.id)
    BY <1>3, <1>9, <2>1 DEF ReadFits, Pinned
  <2>9. at \in {"folder", "before", "open", "same"} => read'.parts = <<>>
    BY <1>3, <1>9 DEF ReadFits
  <2>10. at = "again" /\ AsItWas' => read'.before.id \in read'.was
    BY <1>3, <1>9, <2>1 DEF ReadFits, Pinned
  <2>11. at' = at  BY <1>1
  <2>12. Reading' = Reading /\ Pinned' = Pinned  BY DEF Reading, Pinned
  <2> QED
    BY <2>2, <2>3, <2>4, <2>5, <2>6, <2>7, <2>8, <2>9, <2>10, <2>11, <2>12
    DEF ReadFits, Activity!Shown
<1> QED  BY <1>8, <1>10, <1>11, <1>13, <1>14 DEF ActivityInv

-----------------------------------------------------------------------------
(* The look                                                                *)

\* What is read of an app matters only while it is read.
LEMMA NotReading == ASSUME at' \notin Reading PROVE ReadFits'
BY DEF ReadFits, Reading, Pinned

\* A step of the check leaves the world as it is.
LEMMA WorldKeeps == ASSUME WorldFits, UNCHANGED Activity!world PROVE WorldFits'
BY DEF WorldFits, Activity!world

\* A look that is used again is young enough, as a new one is.
LEMMA AskKeeps ==
    ASSUME ActivityAssumption, ActivityInv, NEW g \in Gates, Activity!Ask(g) PROVE ActivityInv'
<1>1. WorldFits /\ ChecksFit /\ LookFits /\ OwnersFit /\ ReadFits  BY DEF ActivityInv
<1>2. /\ at = "idle" /\ gate' = g /\ asked' = now
      /\ UNCHANGED <<now, changes, cancel, runs, since, plist, touched, todo, here, seen, read, verdict>>
  BY DEF Activity!Ask, Activity!world
<1>3. WorldFits'  BY <1>1, WorldKeeps DEF Activity!Ask
<1>4. now \in Nat /\ now' = now /\ MaxAge \in Nat \ {0}  BY <1>1, <1>2 DEF WorldFits, ActivityAssumption
<1>5. CASE cached = None \/ now - cached.time >= MaxAge
  <2>1. /\ cached' = [time |-> now, failed |-> FALSE, look |-> Activity!Nothing, asked |-> "no", ids |-> {}]
        /\ at' = "list"
    BY <1>5 DEF Activity!Ask, Activity!Go
  <2>2. /\ cached' = [time |-> cached'.time, failed |-> cached'.failed, look |-> cached'.look,
                      asked |-> cached'.asked, ids |-> cached'.ids]
        /\ cached'.time = now /\ cached'.asked = "no"
    BY <2>1
  <2>3. ChecksFit'
    <3>1. asked' < cached'.time + MaxAge  BY <1>2, <1>4, <2>2
    <3> QED  BY <1>1, <1>2, <1>4, <2>2, <3>1 DEF ChecksFit
  <2>4. LookFits'  BY <2>1, <2>2 DEF LookFits
  <2>5. OwnersFit'  BY <2>1, <2>2 DEF OwnersFit, Reading, Pinned
  <2>6. ReadFits'  BY <2>1, NotReading DEF Reading, Pinned
  <2> QED  BY <1>3, <2>3, <2>4, <2>5, <2>6 DEF ActivityInv
<1>6. CASE ~(cached = None \/ now - cached.time >= MaxAge)
  <2>1. cached # None /\ cached' = cached /\ at' = "decide"
    BY <1>6 DEF Activity!Ask, Activity!Go
  <2>2. Kept /\ Kept'  BY <2>1 DEF Kept
  <2>3. ChecksFit'
    <3>1. cached.time \in Nat  BY <1>1, <2>2 DEF ChecksFit
    <3>2. ~(now - cached.time >= MaxAge)  BY <1>6
    <3>3. asked' < cached'.time + MaxAge  BY <1>2, <1>4, <2>1, <3>1, <3>2
    <3> QED  BY <1>1, <1>2, <1>4, <2>1, <2>2, <3>3 DEF ChecksFit
  <2>4. LookFits'
    <3>1. \A p : Steady(p)' = Steady(p)  BY <1>2, <2>1 DEF Steady, Activity!Gone
    <3> QED  BY <1>1, <1>2, <2>1, <2>2, <3>1 DEF LookFits
  <2>5. OwnersFit'
    <3>1. \A a : Lasting(a)' = Lasting(a)  BY <1>2, <2>1 DEF Lasting, Activity!Shown
    <3> QED
      BY <1>1, <1>2, <2>1, <2>2, <3>1 DEF OwnersFit, Reading, Pinned, Found, Activity!Shown
  <2>6. ReadFits'  BY <2>1, NotReading DEF Reading, Pinned
  <2> QED  BY <1>3, <2>3, <2>4, <2>5, <2>6 DEF ActivityInv
<1> QED  BY <1>5, <1>6

\* A look that failed has nothing to say.
LEMMA FailsKeeps ==
    ASSUME ActivityAssumption, ActivityInv, at \in {"list", "look"}, Activity!Fails,
           UNCHANGED <<Activity!world, gate, asked, read, verdict>>
    PROVE  ActivityInv'
<1>1. WorldFits /\ ChecksFit /\ LookFits /\ OwnersFit /\ ReadFits  BY DEF ActivityInv
<1>2. /\ at' = "decide" /\ cached' = [cached EXCEPT !.failed = TRUE] /\ seen' = Activity!Nothing
      /\ UNCHANGED <<now, gate, asked, read>>
  BY DEF Activity!Fails, Activity!Go, Activity!world
<1>3. Kept /\ cached.asked = "no"  BY <1>1 DEF Kept, LookFits
<1>4. /\ cached' = [time |-> cached.time, failed |-> TRUE, look |-> cached.look,
                    asked |-> cached.asked, ids |-> cached.ids]
  BY <1>1, <1>2, <1>3 DEF ChecksFit
<1>5. WorldFits'  BY <1>1, WorldKeeps
<1>6. ChecksFit'
  BY <1>1, <1>2, <1>3, <1>4 DEF ChecksFit, Kept, Activity!Nothing
<1>7. LookFits'  BY <1>2, <1>4 DEF LookFits
<1>8. OwnersFit'  BY <1>2, <1>3, <1>4 DEF OwnersFit, Reading, Pinned
<1>9. ReadFits'  BY <1>2, NotReading DEF Reading, Pinned
<1> QED  BY <1>5, <1>6, <1>7, <1>8, <1>9 DEF ActivityInv

\* Whoever is steady is in the list.
LEMMA ListKeeps ==
    ASSUME ActivityAssumption, ActivityInv, Activity!List PROVE ActivityInv'
<1>1. WorldFits /\ ChecksFit /\ LookFits /\ OwnersFit /\ ReadFits  BY DEF ActivityInv
<1>2. at = "list" /\ UNCHANGED <<Activity!world, gate, asked, read, verdict>>  BY DEF Activity!List
<1> DEFINE all == {p \in Activity!Processes : runs[p] # None}
<1>3. CASE Activity!Fails  BY <1>2, <1>3, FailsKeeps
<1>4. CASE Activity!Go("look") /\ todo' = all /\ UNCHANGED <<cached, here, seen>>
  <2>1. at' = "look" /\ UNCHANGED <<now, runs, since, gate, asked, read, cached, here, seen>>
    BY <1>2, <1>4 DEF Activity!Go, Activity!world
  <2>2. WorldFits'  BY <1>1, <1>2, WorldKeeps
  <2>3. ChecksFit'  BY <1>1, <1>2, <2>1 DEF ChecksFit, Kept
  <2>4. LookFits'
    <3>1. \A p \in Activity!Processes : Steady(p)' => p \in todo'
      BY <1>4, <2>1 DEF Steady, Activity!Gone
    <3> QED  BY <1>1, <1>2, <2>1, <3>1 DEF LookFits
  <2>5. OwnersFit'
    <3>1. cached.asked = "no"  BY <1>1, <1>2 DEF LookFits
    <3> QED  BY <2>1, <3>1 DEF OwnersFit, Reading, Pinned
  <2>6. ReadFits'  BY <2>1, NotReading DEF Reading, Pinned
  <2> QED  BY <2>2, <2>3, <2>4, <2>5, <2>6 DEF ActivityInv
<1> QED  BY <1>3, <1>4 DEF Activity!List

\* A step within the look, in which only todo, here and seen change.
LEMMA LookingKeeps ==
    ASSUME ActivityAssumption, ActivityInv, at = "look",
           UNCHANGED <<Activity!world, gate, asked, read, verdict, at, cached>>,
           seen' = [paths |-> seen'.paths, folders |-> seen'.folders],
           \A p \in Activity!Processes : Steady(p) =>
              \/ p \in todo'
              \/ runs[p] \in seen'.paths /\ (p = Self \/ here' = p \/ runs[p].cwd \in seen'.folders)
    PROVE  ActivityInv'
<1>1. WorldFits /\ ChecksFit /\ LookFits /\ OwnersFit /\ ReadFits  BY DEF ActivityInv
<1>2. at' = "look" /\ UNCHANGED <<now, runs, since, gate, asked, read, cached>>
  BY DEF Activity!world
<1>3. WorldFits'  BY <1>1, WorldKeeps
<1>4. ChecksFit'  BY <1>1, <1>2 DEF ChecksFit, Kept
<1>5. LookFits'
  <2>1. \A p : Steady(p)' = Steady(p)  BY <1>2 DEF Steady, Activity!Gone
  <2> QED  BY <1>1, <1>2, <2>1 DEF LookFits
<1>6. OwnersFit'
  <2>1. cached.asked = "no"  BY <1>1 DEF LookFits
  <2> QED  BY <1>2, <2>1 DEF OwnersFit, Reading, Pinned
<1>7. ReadFits'  BY <1>2, NotReading DEF Reading, Pinned
<1> QED  BY <1>3, <1>4, <1>5, <1>6, <1>7 DEF ActivityInv

\* The program of a process that is steady is seen.
LEMMA LookKeeps ==
    ASSUME ActivityAssumption, ActivityInv, NEW p \in Activity!Processes, Activity!Look(p)
    PROVE  ActivityInv'
<1>1. WorldFits /\ ChecksFit /\ LookFits /\ OwnersFit /\ ReadFits  BY DEF ActivityInv
<1>2. /\ at = "look" /\ here = None /\ p \in todo
      /\ UNCHANGED <<Activity!world, gate, asked, read, verdict>>
  BY DEF Activity!Look
<1>3. CASE Activity!Fails  BY <1>2, <1>3, FailsKeeps
<1>4. CASE /\ todo' = todo \ {p} /\ UNCHANGED <<at, cached>>
           /\ here' = IF Activity!Gone(p) \/ p = Self THEN None ELSE p
           /\ seen' = IF Activity!Gone(p) THEN seen ELSE [seen EXCEPT !.paths = @ \cup {runs[p]}]
  <2>1. seen = [paths |-> seen.paths, folders |-> seen.folders]  BY <1>1 DEF ChecksFit
  <2>2. /\ seen' = [paths |-> seen'.paths, folders |-> seen'.folders]
        /\ seen.paths \subseteq seen'.paths /\ seen'.folders = seen.folders
        /\ ~Activity!Gone(p) => runs[p] \in seen'.paths
    <3>1. CASE Activity!Gone(p)
      <4>1. seen' = seen  BY <1>4, <3>1
      <4> QED  BY <2>1, <3>1, <4>1
    <3>2. CASE ~Activity!Gone(p)
      <4>1. seen' = [seen EXCEPT !.paths = @ \cup {runs[p]}]  BY <1>4, <3>2
      <4> QED  BY <2>1, <4>1
    <3> QED  BY <3>1, <3>2
  <2>3. \A q \in Activity!Processes : q # None
    BY DEF Activity!Processes, ActivityAssumption
  <2>4. ASSUME NEW q \in Activity!Processes, Steady(q)
        PROVE  \/ q \in todo'
               \/ runs[q] \in seen'.paths /\ (q = Self \/ here' = q \/ runs[q].cwd \in seen'.folders)
    <3>1. CASE q = p
      <4>1. ~Activity!Gone(p)  BY <2>4, <3>1 DEF Steady
      <4>2. q = Self \/ here' = q  BY <1>4, <3>1, <4>1
      <4> QED  BY <2>2, <3>1, <4>1, <4>2
    <3>2. CASE q # p
      <4>1. \/ q \in todo
            \/ runs[q] \in seen.paths /\ (q = Self \/ here = q \/ runs[q].cwd \in seen.folders)
        BY <1>1, <1>2, <2>4 DEF LookFits
      <4>2. here # q  BY <1>2, <2>3
      <4>3. q \in todo => q \in todo'  BY <1>4, <3>2
      <4> QED  BY <2>2, <4>1, <4>2, <4>3
    <3> QED  BY <3>1, <3>2
  <2>5. UNCHANGED <<at, cached>>  BY <1>4
  <2>6. UNCHANGED <<Activity!world, gate, asked, read, verdict, at, cached>>  BY <1>2, <2>5
  <2>7. seen' = [paths |-> seen'.paths, folders |-> seen'.folders]  BY <2>2
  <2> QED  BY <1>2, <2>4, <2>6, <2>7, LookingKeeps
<1> QED  BY <1>3, <1>4 DEF Activity!Look

\* And so is its working directory.
LEMMA LookAgainKeeps ==
    ASSUME ActivityAssumption, ActivityInv, Activity!LookAgain PROVE ActivityInv'
<1>1. WorldFits /\ ChecksFit /\ LookFits /\ OwnersFit /\ ReadFits  BY DEF ActivityInv
<1>2. at = "look" /\ UNCHANGED <<Activity!world, gate, asked, read, verdict>>
  BY DEF Activity!LookAgain
<1>3. CASE Activity!Fails  BY <1>2, <1>3, FailsKeeps
<1>4. seen = [paths |-> seen.paths, folders |-> seen.folders]  BY <1>1 DEF ChecksFit
<1>5. CASE Activity!Gone(here) /\ here' = None /\ UNCHANGED <<at, cached, todo, seen>>
  <2>1. UNCHANGED <<Activity!world, gate, asked, read, verdict, at, cached>> /\ seen' = seen /\ todo' = todo
    BY <1>2, <1>5
  <2>2. ASSUME NEW q \in Activity!Processes, Steady(q)
        PROVE  \/ q \in todo'
               \/ runs[q] \in seen'.paths /\ (q = Self \/ here' = q \/ runs[q].cwd \in seen'.folders)
    <3>1. here # q  BY <1>5, <2>2 DEF Steady
    <3> QED  BY <1>1, <1>2, <2>1, <2>2, <3>1 DEF LookFits
  <2>3. seen' = [paths |-> seen'.paths, folders |-> seen'.folders]  BY <1>4, <2>1
  <2> QED  BY <1>2, <2>1, <2>2, <2>3, LookingKeeps
<1>6. CASE /\ here' = None /\ UNCHANGED <<at, cached, todo>>
           /\ seen' = [seen EXCEPT !.folders = @ \cup {runs[here].cwd}]
  <2>1. UNCHANGED <<Activity!world, gate, asked, read, verdict, at, cached>> /\ todo' = todo
    BY <1>2, <1>6
  <2>2. seen' = [paths |-> seen.paths, folders |-> seen.folders \cup {runs[here].cwd}]
    BY <1>4, <1>6
  <2>3. /\ seen' = [paths |-> seen'.paths, folders |-> seen'.folders]
        /\ seen'.paths = seen.paths /\ seen'.folders = seen.folders \cup {runs[here].cwd}
    BY <2>2
  <2>4. ASSUME NEW q \in Activity!Processes, Steady(q)
        PROVE  \/ q \in todo'
               \/ runs[q] \in seen'.paths /\ (q = Self \/ here' = q \/ runs[q].cwd \in seen'.folders)
    <3>1. \/ q \in todo
          \/ runs[q] \in seen.paths /\ (q = Self \/ here = q \/ runs[q].cwd \in seen.folders)
      BY <1>1, <1>2, <2>4 DEF LookFits
    <3> QED  BY <2>1, <2>3, <3>1
  <2> QED  BY <1>2, <2>1, <2>3, <2>4, LookingKeeps
<1> QED  BY <1>3, <1>5, <1>6 DEF Activity!LookAgain

\* What was seen is the look.
LEMMA CapturedKeeps ==
    ASSUME ActivityAssumption, ActivityInv, Activity!Captured PROVE ActivityInv'
<1>1. WorldFits /\ ChecksFit /\ LookFits /\ OwnersFit /\ ReadFits  BY DEF ActivityInv
<1>2. /\ at = "look" /\ here = None /\ todo = {} /\ at' = "decide"
      /\ cached' = [cached EXCEPT !.look = seen] /\ seen' = Activity!Nothing
      /\ UNCHANGED <<Activity!world, gate, asked, read>>
  BY DEF Activity!Captured, Activity!Go
<1>3. UNCHANGED <<now, runs, since, gate, asked, read>>  BY <1>2 DEF Activity!world
<1>4. Kept /\ cached.asked = "no"  BY <1>1, <1>2 DEF Kept, LookFits
<1>5. cached' = [time |-> cached.time, failed |-> cached.failed, look |-> seen,
                 asked |-> cached.asked, ids |-> cached.ids]
  BY <1>1, <1>2, <1>4 DEF ChecksFit
<1>6. WorldFits'  BY <1>1, <1>2, WorldKeeps
<1>7. ChecksFit'
  BY <1>1, <1>2, <1>3, <1>4, <1>5 DEF ChecksFit, Kept, Activity!Nothing
<1>8. LookFits'
  <2>1. \A p \in Activity!Processes : p # None
    BY DEF Activity!Processes, ActivityAssumption
  <2>2. \A p \in Activity!Processes : Steady(p) => runs[p] \in seen.paths /\ (p = Self \/ runs[p].cwd \in seen.folders)
    BY <1>1, <1>2, <2>1 DEF LookFits
  <2>3. \A p : Steady(p)' = Steady(p)  BY <1>3, <1>5 DEF Steady, Activity!Gone
  <2>4. cached'.look = seen  BY <1>5
  <2> QED  BY <1>2, <1>3, <2>2, <2>3, <2>4 DEF LookFits
<1>9. OwnersFit'  BY <1>2, <1>4, <1>5 DEF OwnersFit, Reading, Pinned
<1>10. ReadFits'  BY <1>2, NotReading DEF Reading, Pinned
<1> QED  BY <1>6, <1>7, <1>8, <1>9, <1>10 DEF ActivityInv

\* The clock and a cancel change nothing that is known of the others.
LEMMA WaitKeeps ==
    ASSUME ActivityAssumption, ActivityInv, Activity!Tick \/ Activity!Cancel PROVE ActivityInv'
<1>1. WorldFits /\ ChecksFit /\ LookFits /\ OwnersFit /\ ReadFits  BY DEF ActivityInv
<1>2. /\ now' = now \/ now' = now + 1
      /\ UNCHANGED <<changes, runs, since, plist, touched, read, gate, asked, at, cached, todo, here, seen, verdict>>
  BY DEF Activity!Tick, Activity!Cancel, Activity!check
<1>3. now \in Nat /\ now' \in Nat /\ now <= now'  BY <1>1, <1>2 DEF WorldFits
<1>4. WorldFits'  BY <1>1, <1>2, <1>3 DEF WorldFits
<1>5. ChecksFit'
  <2>1. Kept' => cached'.time \in Nat /\ cached'.time <= now'
    BY <1>1, <1>2, <1>3 DEF ChecksFit, Kept
  <2> QED  BY <1>1, <1>2, <2>1 DEF ChecksFit, Kept
<1>6. LookFits'  BY <1>1, <1>2 DEF LookFits, Kept, Steady, Activity!Gone
<1>7. OwnersFit'
  BY <1>1, <1>2 DEF OwnersFit, Kept, Found, Lasting, Activity!Shown
<1>8. ReadFits'
  BY <1>1, <1>2
  DEF ReadFits, AsItWas, Lasting, Activity!Info, Activity!Here, Activity!Shown
<1> QED  BY <1>4, <1>5, <1>6, <1>7, <1>8 DEF ActivityInv

-----------------------------------------------------------------------------
(* The answer, and the identifiers of the apps                             *)

\* After the look, its result is kept as it is.
LEMMA ResultKeeps ==
    ASSUME ActivityAssumption, ActivityInv, at \notin {"idle", "list", "look"}, at' \notin {"list", "look"},
           UNCHANGED <<Activity!world, seen>>, at' # "idle" => UNCHANGED <<gate, asked>>,
           read' = [app |-> read'.app, left |-> read'.left, folder |-> read'.folder, before |-> read'.before,
                    fd |-> read'.fd, parts |-> read'.parts, was |-> read'.was],
           cached' = [time |-> cached.time, failed |-> cached.failed, look |-> cached.look,
                      asked |-> cached'.asked, ids |-> cached'.ids],
           cached'.asked \in {"no", "yes", "failed"}
    PROVE  WorldFits' /\ ChecksFit' /\ LookFits'
<1>1. WorldFits /\ ChecksFit /\ LookFits  BY DEF ActivityInv
<1>2. Kept /\ UNCHANGED <<now, runs, since>>  BY DEF Kept, Activity!world
<1>3. /\ cached'.time = cached.time /\ cached'.failed = cached.failed /\ cached'.look = cached.look
      /\ cached' = [time |-> cached'.time, failed |-> cached'.failed, look |-> cached'.look,
                    asked |-> cached'.asked, ids |-> cached'.ids]
  OBVIOUS
<1>4. WorldFits'  BY <1>1, WorldKeeps
<1>5. ChecksFit'
  <2>1. cached'.time \in Nat /\ cached'.time <= now'  BY <1>1, <1>2, <1>3 DEF ChecksFit
  <2>2. at' # "idle" => gate' \in Gates /\ asked' \in Nat /\ asked' < cached'.time + MaxAge
    BY <1>1, <1>3 DEF ChecksFit
  <2>3. seen' = [paths |-> seen'.paths, folders |-> seen'.folders]  BY <1>1 DEF ChecksFit
  <2> QED  BY <1>3, <2>1, <2>2, <2>3 DEF ChecksFit
<1>6. LookFits'
  <2>1. \A p : Steady(p)' = Steady(p)  BY <1>2, <1>3 DEF Steady, Activity!Gone
  <2>2. ~cached.failed => \A p \in Activity!Processes : Steady(p) =>
             runs[p] \in cached.look.paths /\ (p = Self \/ runs[p].cwd \in cached.look.folders)
    BY <1>1, <1>2 DEF LookFits
  <2> QED  BY <1>2, <1>3, <2>1, <2>2 DEF LookFits
<1> QED  BY <1>4, <1>5, <1>6

\* What lasts is a matter of the world and of the time of the look.
LEMMA LastingKeeps ==
    ASSUME UNCHANGED Activity!world, cached'.time = cached.time
    PROVE  \A a : Lasting(a)' = Lasting(a) /\ Activity!Shown(plist'[a]) = Activity!Shown(plist[a])
BY DEF Lasting, Activity!Shown, Activity!world

\* The answer comes from what is kept.
LEMMA DecideKeeps ==
    ASSUME ActivityAssumption, ActivityInv, Activity!Decide \/ Activity!Return PROVE ActivityInv'
<1>1. WorldFits /\ ChecksFit /\ LookFits /\ OwnersFit /\ ReadFits  BY DEF ActivityInv
<1>2. /\ at \in {"decide", "done"} /\ at' \in {"done", "bundles", "idle"}
      /\ UNCHANGED <<Activity!world, cached, seen, read>>
      /\ at' # "idle" => UNCHANGED <<gate, asked>>
  BY DEF Activity!Decide, Activity!Return, Activity!Go, Activity!Decided
<1>3. Kept  BY <1>2 DEF Kept
<1>4. /\ cached' = [time |-> cached.time, failed |-> cached.failed, look |-> cached.look,
                    asked |-> cached'.asked, ids |-> cached'.ids]
      /\ cached'.asked \in {"no", "yes", "failed"}
  BY <1>1, <1>2, <1>3 DEF ChecksFit
<1>5. read' = [app |-> read'.app, left |-> read'.left, folder |-> read'.folder, before |-> read'.before,
               fd |-> read'.fd, parts |-> read'.parts, was |-> read'.was]
  BY <1>1, <1>2 DEF ChecksFit
<1>6. at \notin {"idle", "list", "look"} /\ at' \notin {"list", "look"}  BY <1>2
<1>7. WorldFits' /\ ChecksFit' /\ LookFits'  BY <1>2, <1>4, <1>5, <1>6, ResultKeeps
<1>8. OwnersFit'
  <2>1. cached' = cached  BY <1>2
  <2>2. at' \notin {"next"} \cup Reading  BY <1>2 DEF Reading, Pinned
  <2>3. \A a : Lasting(a)' = Lasting(a) /\ Activity!Shown(plist'[a]) = Activity!Shown(plist[a])
    BY <1>2, <2>1, LastingKeeps
  <2> QED  BY <1>1, <1>3, <2>1, <2>2, <2>3 DEF OwnersFit, Found, Activity!Shown
<1>9. ReadFits'
  <2>1. at' \notin Reading  BY <1>2 DEF Reading, Pinned
  <2> QED  BY <2>1, NotReading
<1> QED  BY <1>7, <1>8, <1>9 DEF ActivityInv

\* Reading ends, completely or not.
LEMMA KeepKeeps ==
    ASSUME ActivityAssumption, ActivityInv, at \in {"bundles", "next"} \cup Reading,
           NEW how \in {"yes", "failed"}, Activity!Keep(how),
           UNCHANGED <<Activity!world, gate, asked, todo, here, seen, verdict>>,
           how = "yes" => \A a \in Found : Lasting(a) => Activity!Shown(plist[a]) \in cached.ids
    PROVE  ActivityInv'
<1>1. WorldFits /\ ChecksFit /\ LookFits /\ OwnersFit /\ ReadFits  BY DEF ActivityInv
<1>2. cached' = [cached EXCEPT !.asked = how] /\ at' = "decide" /\ read' = Activity!NoRead
  BY DEF Activity!Keep, Activity!Go
<1>3. at \notin {"idle", "list", "look"} /\ at' \notin {"list", "look"}  BY <1>2 DEF Reading, Pinned
<1>4. Kept  BY <1>3 DEF Kept
<1>5. cached' = [time |-> cached.time, failed |-> cached.failed, look |-> cached.look,
                 asked |-> how, ids |-> cached.ids]
  BY <1>1, <1>2, <1>4 DEF ChecksFit
<1>6. /\ cached'.asked = how /\ cached'.time = cached.time /\ cached'.look = cached.look /\ cached'.ids = cached.ids
      /\ cached' = [time |-> cached.time, failed |-> cached.failed, look |-> cached.look,
                    asked |-> cached'.asked, ids |-> cached'.ids]
  BY <1>5
<1>7. read' = [app |-> read'.app, left |-> read'.left, folder |-> read'.folder, before |-> read'.before,
               fd |-> read'.fd, parts |-> read'.parts, was |-> read'.was]
  BY <1>2 DEF Activity!NoRead
<1>8. cached'.asked \in {"no", "yes", "failed"} /\ UNCHANGED <<gate, asked>> /\ UNCHANGED <<Activity!world, seen>>
  BY <1>6
<1>9. WorldFits' /\ ChecksFit' /\ LookFits'  BY <1>3, <1>6, <1>7, <1>8, ResultKeeps
<1>10. OwnersFit'
  <2>1. at' \notin {"next"} \cup Reading  BY <1>2 DEF Reading, Pinned
  <2>2. \A a : Lasting(a)' = Lasting(a) /\ Activity!Shown(plist'[a]) = Activity!Shown(plist[a])
    BY <1>6, LastingKeeps
  <2>3. Found' = Found  BY <1>6 DEF Found
  <2> QED  BY <1>6, <2>1, <2>2, <2>3 DEF OwnersFit, Activity!Shown
<1>11. ReadFits'
  <2>1. at' \notin Reading  BY <1>2 DEF Reading, Pinned
  <2> QED  BY <2>1, NotReading
<1> QED  BY <1>9, <1>10, <1>11 DEF ActivityInv

\* All that were found are left to be read.
LEMMA BundlesKeeps ==
    ASSUME ActivityAssumption, ActivityInv, Activity!Bundles PROVE ActivityInv'
<1>1. WorldFits /\ ChecksFit /\ LookFits /\ OwnersFit /\ ReadFits  BY DEF ActivityInv
<1>2. at = "bundles" /\ UNCHANGED <<Activity!world, gate, asked, todo, here, seen, verdict>>
  BY DEF Activity!Bundles
<1>3. CASE Activity!Keep("failed")  BY <1>2, <1>3, KeepKeeps
<1>4. CASE /\ Activity!Go("next") /\ UNCHANGED cached
           /\ read' = [Activity!NoRead EXCEPT !.left = Found]
  <2>1. at' = "next" /\ cached' = cached  BY <1>4 DEF Activity!Go
  <2>2. Kept  BY <1>2 DEF Kept
  <2>3. /\ cached' = [time |-> cached.time, failed |-> cached.failed, look |-> cached.look,
                      asked |-> cached'.asked, ids |-> cached'.ids]
        /\ cached'.asked \in {"no", "yes", "failed"}
    BY <1>1, <2>1, <2>2 DEF ChecksFit
  <2>4. /\ read' = [app |-> read'.app, left |-> read'.left, folder |-> read'.folder, before |-> read'.before,
                    fd |-> read'.fd, parts |-> read'.parts, was |-> read'.was]
        /\ read'.left = Found
    BY <1>4 DEF Activity!NoRead
  <2>5. at \notin {"idle", "list", "look"} /\ at' \notin {"list", "look"}  BY <1>2, <2>1
  <2>6. UNCHANGED <<gate, asked>> /\ UNCHANGED <<Activity!world, seen>>  BY <1>2
  <2>7. WorldFits' /\ ChecksFit' /\ LookFits'  BY <2>3, <2>4, <2>5, <2>6, ResultKeeps
  <2>8. OwnersFit'
    <3>1. \A a : Lasting(a)' = Lasting(a) /\ Activity!Shown(plist'[a]) = Activity!Shown(plist[a])
      BY <1>2, <2>1, LastingKeeps
    <3>2. Found' = Found  BY <2>1 DEF Found
    <3>3. (Kept' /\ cached'.asked = "yes") => \A b \in Found' : Lasting(b)' => Activity!Shown(plist'[b]) \in cached'.ids
      BY <1>1, <2>1, <2>2, <3>1, <3>2 DEF OwnersFit
    <3>4. \A b \in Found' : b \in read'.left  BY <2>4, <3>2
    <3> QED  BY <3>3, <3>4 DEF OwnersFit, Activity!Shown
  <2>9. ReadFits'
    <3>1. at' \notin Reading  BY <2>1 DEF Reading, Pinned
    <3> QED  BY <3>1, NotReading
  <2> QED  BY <2>7, <2>8, <2>9 DEF ActivityInv
<1> QED  BY <1>3, <1>4 DEF Activity!Bundles, Found

\* From one app to the next; what lasts has been read before it is left.
LEMMA TurnKeeps ==
    ASSUME ActivityAssumption, ActivityInv, at \in {"next"} \cup Reading, at' \in {"next"} \cup Reading,
           UNCHANGED <<Activity!world, gate, asked, todo, here, seen, verdict>>,
           cached' = [time |-> cached.time, failed |-> cached.failed, look |-> cached.look,
                      asked |-> cached.asked, ids |-> cached'.ids],
           cached.ids \subseteq cached'.ids,
           read' = [app |-> read'.app, left |-> read'.left, folder |-> read'.folder, before |-> read'.before,
                    fd |-> read'.fd, parts |-> read'.parts, was |-> read'.was],
           \A a \in read.left : a \in read'.left \/ (at' \in Reading /\ a = read'.app),
           at \in Reading /\ Lasting(read.app) =>
              \/ at' \in Reading /\ read'.app = read.app
              \/ Activity!Shown(plist[read.app]) \in cached'.ids
    PROVE  WorldFits' /\ ChecksFit' /\ LookFits' /\ OwnersFit'
<1>1. WorldFits /\ ChecksFit /\ LookFits /\ OwnersFit /\ ReadFits  BY DEF ActivityInv
<1>2. at \notin {"idle", "list", "look"} /\ at' \notin {"list", "look"}  BY DEF Reading, Pinned
<1>3. Kept  BY <1>2 DEF Kept
<1>4. /\ cached'.time = cached.time /\ cached'.look = cached.look /\ cached'.asked = cached.asked
      /\ cached' = [time |-> cached.time, failed |-> cached.failed, look |-> cached.look,
                    asked |-> cached'.asked, ids |-> cached'.ids]
  OBVIOUS
<1>5. cached'.asked \in {"no", "yes", "failed"} /\ UNCHANGED <<gate, asked>> /\ UNCHANGED <<Activity!world, seen>>
  BY <1>1, <1>3, <1>4 DEF ChecksFit
<1>6. WorldFits' /\ ChecksFit' /\ LookFits'  BY <1>2, <1>4, <1>5, ResultKeeps
<1>7. \A a : Lasting(a)' = Lasting(a) /\ Activity!Shown(plist'[a]) = Activity!Shown(plist[a])
  BY <1>4, LastingKeeps
<1>8. Found' = Found  BY <1>4 DEF Found
<1>9. (Kept' /\ cached'.asked = "yes") => \A b \in Found' : Lasting(b)' => Activity!Shown(plist'[b]) \in cached'.ids
  BY <1>1, <1>3, <1>4, <1>7, <1>8 DEF OwnersFit
<1>10. ASSUME NEW b \in Found', Lasting(b)'
       PROVE  \/ b \in read'.left \/ (at' \in Reading /\ b = read'.app)
              \/ Activity!Shown(plist'[b]) \in cached'.ids
  <2>1. Lasting(b) /\ b \in Found /\ Activity!Shown(plist'[b]) = Activity!Shown(plist[b])
    BY <1>7, <1>8, <1>10
  <2>2. \/ b \in read.left \/ (at \in Reading /\ b = read.app)
        \/ Activity!Shown(plist[b]) \in cached.ids
    BY <1>1, <2>1 DEF OwnersFit
  <2> QED  BY <2>1, <2>2
<1>11. Reading' = Reading  BY DEF Reading, Pinned
<1>12. OwnersFit'  BY <1>9, <1>10, <1>11 DEF OwnersFit, Activity!Shown
<1> QED  BY <1>6, <1>12

-----------------------------------------------------------------------------
(* The reading of an Info.plist                                            *)

\* What is read is a row of seven fields.
Row(r) == r = [app |-> r.app, left |-> r.left, folder |-> r.folder, before |-> r.before,
               fd |-> r.fd, parts |-> r.parts, was |-> r.was]

\* The identifiers are complete, or there is one more app to read.
LEMMA NextAppKeeps ==
    ASSUME ActivityAssumption, ActivityInv, Activity!NextApp PROVE ActivityInv'
<1>1. WorldFits /\ ChecksFit /\ LookFits /\ OwnersFit /\ ReadFits  BY DEF ActivityInv
<1>2. at = "next" /\ UNCHANGED <<Activity!world, gate, asked, todo, here, seen, verdict>>
  BY DEF Activity!NextApp
<1>3. at \notin Reading /\ Kept  BY <1>2 DEF Reading, Pinned, Kept
<1>4. CASE Activity!Keep("failed")  BY <1>2, <1>4, KeepKeeps
<1>5. CASE Activity!Keep("yes") /\ read.left = {}
  <2>1. \A a \in Found : Lasting(a) => Activity!Shown(plist[a]) \in cached.ids
    BY <1>1, <1>2, <1>3, <1>5 DEF OwnersFit
  <2> QED  BY <1>2, <1>5, <2>1, KeepKeeps
<1>6. CASE /\ \E a \in read.left :
                 read' = [Activity!NoRead EXCEPT !.app = a, !.left = read.left \ {a},
                                                 !.was = {Activity!Shown(plist[a])}]
           /\ Activity!Go("folder") /\ UNCHANGED cached
  <2>1. at' = "folder" /\ cached' = cached  BY <1>6 DEF Activity!Go
  <2>2. PICK a \in read.left :
           read' = [Activity!NoRead EXCEPT !.app = a, !.left = read.left \ {a},
                                           !.was = {Activity!Shown(plist[a])}]
    BY <1>6
  <2>3. /\ read' = [app |-> a, left |-> read.left \ {a}, folder |-> 0, before |-> None, fd |-> 0,
                    parts |-> <<>>, was |-> {Activity!Shown(plist[a])}]
    BY <2>2 DEF Activity!NoRead
  <2>4. /\ read' = [app |-> read'.app, left |-> read'.left, folder |-> read'.folder, before |-> read'.before,
                    fd |-> read'.fd, parts |-> read'.parts, was |-> read'.was]
        /\ read'.app = a /\ read'.left = read.left \ {a} /\ read'.parts = <<>>
        /\ read'.was = {Activity!Shown(plist[a])}
    BY <2>3
  <2>5. cached' = [time |-> cached.time, failed |-> cached.failed, look |-> cached.look,
                   asked |-> cached.asked, ids |-> cached'.ids] /\ cached.ids \subseteq cached'.ids
    BY <1>1, <1>3, <2>1 DEF ChecksFit
  <2>6. at' \in Reading /\ at \in {"next"} \cup Reading /\ at' \in {"next"} \cup Reading
    BY <1>2, <2>1 DEF Reading
  <2>7. \A b \in read.left : b \in read'.left \/ (at' \in Reading /\ b = read'.app)
    BY <2>4, <2>6
  <2>8. WorldFits' /\ ChecksFit' /\ LookFits' /\ OwnersFit'
    BY <1>2, <1>3, <2>4, <2>5, <2>6, <2>7, TurnKeeps
  <2>9. ReadFits'
    <3>1. Activity!Shown(plist'[read'.app]) \in read'.was
      BY <1>2, <2>4 DEF Activity!Shown, Activity!world
    <3> QED  BY <2>1, <2>4, <3>1 DEF ReadFits, Reading, Pinned, Activity!Shown
  <2> QED  BY <2>8, <2>9 DEF ActivityInv
<1> QED  BY <1>4, <1>5, <1>6 DEF Activity!NextApp

\* An app of which nothing becomes known does not last.
LEMMA UnknownKeeps ==
    ASSUME ActivityAssumption, ActivityInv, at \in Reading, Activity!Unknown, ~Lasting(read.app),
           UNCHANGED <<Activity!world, gate, asked, todo, here, seen, verdict>>
    PROVE  ActivityInv'
<1>1. ChecksFit  BY DEF ActivityInv
<1>2. at' = "next" /\ cached' = cached /\ read' = read  BY DEF Activity!Unknown, Activity!Go
<1>3. Kept /\ at \in {"next"} \cup Reading /\ at' \in {"next"} \cup Reading
  BY <1>2 DEF Kept, Reading, Pinned
<1>4. cached' = [time |-> cached.time, failed |-> cached.failed, look |-> cached.look,
                 asked |-> cached.asked, ids |-> cached'.ids] /\ cached.ids \subseteq cached'.ids
  BY <1>1, <1>2, <1>3 DEF ChecksFit
<1>5. read' = [app |-> read'.app, left |-> read'.left, folder |-> read'.folder, before |-> read'.before,
               fd |-> read'.fd, parts |-> read'.parts, was |-> read'.was]
  BY <1>1, <1>2 DEF ChecksFit
<1>6. WorldFits' /\ ChecksFit' /\ LookFits' /\ OwnersFit'
  BY <1>2, <1>3, <1>4, <1>5, TurnKeeps
<1>7. ReadFits'
  <2>1. at' \notin Reading  BY <1>2 DEF Reading, Pinned
  <2> QED  BY <2>1, NotReading
<1> QED  BY <1>6, <1>7 DEF ActivityInv

\* A step of the reading goes on with the same app.
LEMMA StepKeeps ==
    ASSUME ActivityAssumption, ActivityInv, at \in Reading, NEW from, NEW ok \in BOOLEAN, NEW to \in Reading, NEW r,
           Activity!Step(from, ok, to, r),
           Row(r), r.app = read.app, r.left = read.left,
           ~ok => ~Lasting(read.app),
           ok /\ at' = to /\ read' = r /\ UNCHANGED <<Activity!world, cached>> => ReadFits'
    PROVE  ActivityInv'
<1>1. UNCHANGED <<Activity!world, gate, asked, todo, here, seen, verdict>>  BY DEF Activity!Step
<1>2. CASE Activity!Keep("failed")
  <2>1. at \in {"bundles", "next"} \cup Reading  OBVIOUS
  <2> QED  BY <1>1, <1>2, <2>1, KeepKeeps
<1>3. CASE ~ok /\ Activity!Unknown  BY <1>1, <1>3, UnknownKeeps
<1>4. CASE ok /\ Activity!Go(to) /\ read' = r /\ UNCHANGED cached
  <2>1. ChecksFit  BY DEF ActivityInv
  <2>2. at' = to /\ cached' = cached /\ read' = r  BY <1>4 DEF Activity!Go
  <2>3. Kept /\ at \in {"next"} \cup Reading /\ at' \in {"next"} \cup Reading /\ at' \in Reading
    BY <2>2 DEF Kept, Reading, Pinned
  <2>4. cached' = [time |-> cached.time, failed |-> cached.failed, look |-> cached.look,
                   asked |-> cached.asked, ids |-> cached'.ids] /\ cached.ids \subseteq cached'.ids
    BY <2>1, <2>2, <2>3 DEF ChecksFit
  <2>5. read' = [app |-> read'.app, left |-> read'.left, folder |-> read'.folder, before |-> read'.before,
                 fd |-> read'.fd, parts |-> read'.parts, was |-> read'.was]
    BY <2>2 DEF Row
  <2>6. read'.app = read.app /\ read'.left = read.left  BY <2>2
  <2>7. WorldFits' /\ ChecksFit' /\ LookFits' /\ OwnersFit'
    BY <1>1, <2>3, <2>4, <2>5, <2>6, TurnKeeps
  <2>8. ReadFits'  BY <1>1, <1>4, <2>2
  <2> QED  BY <2>7, <2>8 DEF ActivityInv
<1> QED  BY <1>2, <1>3, <1>4 DEF Activity!Step

\* What is known while an Info.plist is read.
LEMMA ReadFacts ==
    ASSUME ActivityAssumption, ActivityInv, at \in Reading
    PROVE  /\ Row(read) /\ Activity!Shown(plist[read.app]) \in read.was
           /\ read.app \in Local => /\ plist[read.app].contents \in {1, 2}
                                    /\ \A n \in {1, 2} : plist[read.app].info[n] \in FileRows
                                         /\ plist[read.app].info[n].version <= changes
<1>1. WorldFits /\ ChecksFit /\ ReadFits  BY DEF ActivityInv
<1>2. Row(read)  BY <1>1 DEF ChecksFit, Row
<1>3. Activity!Shown(plist[read.app]) \in read.was  BY <1>1 DEF ReadFits
<1>4. read.app \in Local => read.app \in Apps  BY DEF ActivityAssumption
<1> QED  BY <1>1, <1>2, <1>3, <1>4, RowFacts

\* In the world as it was, what is read means the same.
LEMMA SameFile ==
    ASSUME UNCHANGED <<Activity!world, cached>>, read'.app = read.app, read'.folder = read.folder
    PROVE  /\ Activity!Info(read.folder)' = Activity!Info(read.folder)
           /\ Lasting(read.app)' = Lasting(read.app) /\ changes' = changes
           /\ Activity!Shown(plist[read.app])' = Activity!Shown(plist[read.app])
           /\ plist[read.app]' = plist[read.app]
BY DEF Activity!Info, Activity!Here, Lasting, Activity!Shown, Activity!world

\* The folder is the one the app has now.
LEMMA FolderKeeps ==
    ASSUME ActivityAssumption, ActivityInv, Activity!Folder PROVE ActivityInv'
<1> DEFINE r == [read EXCEPT !.folder = Activity!Here.contents]
           ok == read.app \in Local
<1>1. at = "folder" /\ Activity!Step("folder", ok, "before", r)
  BY DEF Activity!Folder, Activity!Step
<1>2. at \in Reading /\ "before" \in Reading  BY <1>1 DEF Reading, Pinned
<1>3. Row(read) /\ Activity!Shown(plist[read.app]) \in read.was  BY <1>2, ReadFacts
<1>4. /\ Row(r) /\ r.app = read.app /\ r.left = read.left /\ r.parts = read.parts /\ r.was = read.was
      /\ r.folder = plist[read.app].contents
  BY <1>3 DEF Row, Activity!Here
<1>5. read.parts = <<>>  BY <1>1 DEF ActivityInv, ReadFits
<1> HIDE DEF r
<1>6. ASSUME ok, at' = "before", read' = r, UNCHANGED <<Activity!world, cached>> PROVE ReadFits'
  <2>1. plist[read.app].contents \in {1, 2}  BY <1>2, <1>6, ReadFacts
  <2>2. plist' = plist  BY <1>6 DEF Activity!world
  <2>3. Activity!Shown(plist'[read'.app]) \in read'.was  BY <1>3, <1>4, <1>6, <2>2
  <2>4. read'.app \in Local /\ read'.folder \in {1, 2} /\ read'.folder = plist'[read'.app].contents
    BY <1>4, <1>6, <2>1, <2>2
  <2>5. read'.parts = <<>>  BY <1>4, <1>5, <1>6
  <2> QED  BY <1>6, <2>3, <2>4, <2>5 DEF ReadFits, Pinned, Activity!Shown
<1>7. ~ok => ~Lasting(read.app)  BY DEF Lasting
<1>8. ok \in BOOLEAN  OBVIOUS
<1> HIDE DEF ok
<1> QED  BY <1>1, <1>2, <1>4, <1>6, <1>7, <1>8, StepKeeps

\* What lasts is a file, whose identifier is the one it shows.
LEMMA LastingFile ==
    ASSUME ActivityInv, at \in Reading \ {"folder"}, Lasting(read.app)
    PROVE  /\ Activity!Info(read.folder).is = "file"
           /\ Activity!Info(read.folder).id = Activity!Shown(plist[read.app])
           /\ Activity!Info(read.folder).id # None /\ read.folder = plist[read.app].contents
           /\ at \in Pinned => AsItWas /\ Activity!Info(read.folder) = read.before
           /\ at \in Pinned \ {"open"} => read.fd = Activity!Info(read.folder).inode
<1>1. ReadFits  BY DEF ActivityInv
<1>2. read.folder = plist[read.app].contents  BY <1>1 DEF ReadFits
<1>3. Activity!Shown(plist[read.app]) # None  BY DEF Lasting
<1>4. Activity!Info(read.folder).is = "file" /\ Activity!Info(read.folder).id = Activity!Shown(plist[read.app])
  BY <1>2, <1>3 DEF Activity!Info, Activity!Here, Activity!Shown
<1>5. at \in Pinned => AsItWas /\ Activity!Info(read.folder) = read.before  BY <1>1 DEF ReadFits
<1>6. at \in Pinned \ {"open"} => read.fd = Activity!Info(read.folder).inode
  BY <1>1 DEF ReadFits
<1> QED  BY <1>2, <1>3, <1>4, <1>5, <1>6

\* It is looked at before it is opened.
LEMMA BeforeKeeps ==
    ASSUME ActivityAssumption, ActivityInv, Activity!Before PROVE ActivityInv'
<1> DEFINE f == Activity!Info(read.folder)
           r == [read EXCEPT !.before = f]
           ok == f.is = "file"
<1>1. at = "before" /\ Activity!Step("before", ok, "open", r)
  BY DEF Activity!Before, Activity!Step
<1>2. at \in Reading \ {"folder"} /\ "open" \in Reading  BY <1>1 DEF Reading, Pinned
<1>3. Row(read) /\ Activity!Shown(plist[read.app]) \in read.was  BY <1>2, ReadFacts
<1>4. read.app \in Local /\ read.folder \in {1, 2} /\ read.parts = <<>>
  BY <1>1, <1>2 DEF ActivityInv, ReadFits
<1>5. f \in FileRows /\ f.version <= changes
  BY <1>2, <1>4, ReadFacts DEF Activity!Info, Activity!Here
<1>6. /\ Row(r) /\ r.app = read.app /\ r.left = read.left /\ r.parts = read.parts /\ r.was = read.was
      /\ r.folder = read.folder /\ r.before = f
  BY <1>3 DEF Row
<1>7. ~ok => ~Lasting(read.app)  BY <1>2, LastingFile
<1>8. ok \in BOOLEAN  OBVIOUS
<1> HIDE DEF r
<1>9. ASSUME ok, at' = "open", read' = r, UNCHANGED <<Activity!world, cached>> PROVE ReadFits'
  <2>1. /\ read'.app = read.app /\ read'.folder = read.folder /\ read'.before = f /\ read'.was = read.was
        /\ read'.parts = read.parts
    BY <1>6, <1>9
  <2>2. /\ Activity!Info(read.folder)' = f /\ Lasting(read.app)' = Lasting(read.app) /\ changes' = changes
        /\ Activity!Shown(plist[read.app])' \in read'.was /\ plist[read.app]' = plist[read.app]
    BY <1>3, <1>9, <2>1, SameFile
  <2>3. AsItWas'  BY <2>1, <2>2 DEF AsItWas
  <2>4. Lasting(read.app)' => read'.folder = plist[read.app]'.contents
    BY <1>2, <2>1, <2>2, LastingFile
  <2>5. f.is = "file"  BY <1>9
  <2> HIDE DEF f
  <2> QED
    BY <1>4, <1>5, <1>9, <2>1, <2>2, <2>3, <2>4, <2>5 DEF ReadFits, Reading, Pinned
<1> HIDE DEF ok
<1> QED  BY <1>1, <1>2, <1>6, <1>7, <1>8, <1>9, StepKeeps

\* Between being looked at and the end of the reading, a step that leaves what was looked at and
\* what was open keeps what is known of them.
PinnedFits ==
    /\ Activity!Shown(plist[read.app]) \in read.was
    /\ read.app \in Local /\ read.folder \in {1, 2}
    /\ read.before \in FileRows /\ read.before.version <= changes /\ read.before.is = "file"
    /\ AsItWas => Activity!Info(read.folder) = read.before
    /\ Lasting(read.app) => read.folder = plist[read.app].contents /\ AsItWas

\* It is known at every place from the opening on.
LEMMA PinnedKnown ==
    ASSUME ActivityInv, at \in Pinned PROVE PinnedFits
<1>1. ReadFits  BY DEF ActivityInv
<1>2. at \in Reading \ {"folder"}  BY DEF Reading, Pinned
<1> QED  BY <1>1, <1>2 DEF ReadFits, PinnedFits

\* And it stays known.
LEMMA PinnedStays ==
    ASSUME ActivityInv, at \in Pinned, UNCHANGED <<Activity!world, cached>>, read'.app = read.app,
           read'.folder = read.folder, read'.before = read.before, read'.was = read.was
    PROVE  PinnedFits' /\ AsItWas' = AsItWas
<1>1. PinnedFits  BY PinnedKnown
<1>2. /\ Activity!Info(read.folder)' = Activity!Info(read.folder)
      /\ Lasting(read.app)' = Lasting(read.app) /\ changes' = changes
      /\ Activity!Shown(plist[read.app])' = Activity!Shown(plist[read.app])
      /\ plist[read.app]' = plist[read.app]
  BY SameFile
<1>3. AsItWas' = AsItWas  BY <1>2 DEF AsItWas
<1> QED  BY <1>1, <1>2, <1>3 DEF PinnedFits

\* What is opened, if it lasts, is what was looked at.
LEMMA OpenKeeps ==
    ASSUME ActivityAssumption, ActivityInv, Activity!Open PROVE ActivityInv'
<1> DEFINE f == Activity!Info(read.folder)
           r == [read EXCEPT !.fd = f.inode]
           ok == f.is # "absent"
<1>1. at = "open" /\ Activity!Step("open", ok, "same", r)
  BY DEF Activity!Open, Activity!Step
<1>2. at \in Reading \ {"folder"} /\ at \in Pinned /\ "same" \in Reading  BY <1>1 DEF Reading, Pinned
<1>3. Row(read) /\ read.parts = <<>>  BY <1>1, <1>2, ReadFacts DEF ActivityInv, ReadFits
<1>4. /\ Row(r) /\ r.app = read.app /\ r.left = read.left /\ r.parts = read.parts /\ r.was = read.was
      /\ r.folder = read.folder /\ r.before = read.before /\ r.fd = f.inode
  BY <1>3 DEF Row
<1>5. ~ok => ~Lasting(read.app)  BY <1>2, LastingFile
<1>6. ok \in BOOLEAN  OBVIOUS
<1> HIDE DEF r
<1>7. ASSUME ok, at' = "same", read' = r, UNCHANGED <<Activity!world, cached>> PROVE ReadFits'
  <2>1. /\ read'.app = read.app /\ read'.folder = read.folder /\ read'.before = read.before
        /\ read'.was = read.was /\ read'.parts = <<>> /\ read'.fd = f.inode
    BY <1>3, <1>4, <1>7
  <2>2. PinnedFits'  BY <1>2, <1>7, <2>1, PinnedStays
  <2>3. read'.fd = Activity!Info(read.folder)'.inode  BY <1>7, <2>1, SameFile
  <2> QED  BY <1>7, <2>1, <2>2, <2>3 DEF ReadFits, PinnedFits, Reading, Pinned
<1> HIDE DEF ok
<1> QED  BY <1>1, <1>2, <1>4, <1>5, <1>6, <1>7, StepKeeps

\* A step that only compares.
LEMMA CompareKeeps ==
    ASSUME ActivityAssumption, ActivityInv, NEW from \in {"same", "after", "folder again"}, NEW ok \in BOOLEAN,
           NEW to, Activity!Step(from, ok, to, read), ~ok => ~Lasting(read.app),
           <<from, to>> \in {<<"same", "part">>, <<"after", "folder again">>, <<"folder again", "again">>},
           from = "folder again" /\ ok /\ AsItWas => read.before.id \in read.was
    PROVE  ActivityInv'
<1>1. at = from  BY DEF Activity!Step
<1>2. at \in Reading \ {"folder"} /\ at \in Pinned /\ to \in Reading  BY <1>1 DEF Reading, Pinned
<1>3. Row(read)  BY <1>2, ReadFacts
<1>4. ASSUME ok, at' = to, read' = read, UNCHANGED <<Activity!world, cached>> PROVE ReadFits'
  <2>1. PinnedFits' /\ AsItWas' = AsItWas  BY <1>2, <1>4, PinnedStays
  <2>2. Activity!Info(read.folder)' = Activity!Info(read.folder) /\ Lasting(read.app)' = Lasting(read.app)
    BY <1>4, SameFile
  <2>3. Lasting(read.app) => read.fd = Activity!Info(read.folder).inode
    BY <1>1, <1>2, LastingFile
  <2>4. ReadFits  BY DEF ActivityInv
  <2>5. CASE from = "same"
    <3>1. to = "part" /\ read'.parts = <<>>  BY <1>1, <1>4, <2>4, <2>5 DEF ReadFits
    <3> QED  BY <1>4, <2>1, <2>2, <2>3, <3>1 DEF ReadFits, PinnedFits, Reading, Pinned
  <2>6. CASE from \in {"after", "folder again"}
    <3>1. \E x, y : read.parts = <<x, y>> /\ (AsItWas => x = read.before.id /\ y = read.before.id)
      BY <1>1, <2>4, <2>6 DEF ReadFits
    <3>2. \E x, y : read'.parts = <<x, y>> /\ (AsItWas' => x = read'.before.id /\ y = read'.before.id)
      BY <1>4, <2>1, <3>1
    <3>3. to \in {"folder again", "again"} /\ (to = "again" => from = "folder again")  BY <2>6
    <3>4. to = "again" /\ AsItWas' => read'.before.id \in read'.was  BY <1>4, <2>1, <3>3
    <3> QED  BY <1>4, <2>1, <2>2, <2>3, <3>2, <3>3, <3>4 DEF ReadFits, PinnedFits, Reading, Pinned
  <2> QED  BY <2>5, <2>6
<1>5. read.app = read.app /\ read.left = read.left  OBVIOUS
<1> QED  BY <1>1, <1>2, <1>3, <1>4, <1>5, StepKeeps

\* A sequence with one more at its end.
LEMMA OneMore == ASSUME NEW a, NEW b PROVE Append(<<a>>, b) = <<a, b>> /\ Len(<<a, b>>) = 2
<1>1. <<a>> \in Seq({a, b}) /\ b \in {a, b} /\ Len(<<a>>) = 1 /\ <<a>>[1] = a  OBVIOUS
<1>2. <<a, b>> \in Seq({a, b}) /\ Len(<<a, b>>) = 2 /\ <<a, b>>[1] = a /\ <<a, b>>[2] = b  OBVIOUS
<1> DEFINE s == Append(<<a>>, b)
<1>3. s \in Seq({a, b}) /\ Len(s) = 2 /\ s[1] = a /\ s[2] = b
  <2>1. s \in Seq({a, b}) /\ Len(s) = 1 + 1 /\ (\A i \in 1..1 : s[i] = <<a>>[i]) /\ s[1 + 1] = b
    BY <1>1, AppendProperties
  <2>2. 1 + 1 = 2 /\ 1 \in 1..1  OBVIOUS
  <2> QED  BY <1>1, <2>1, <2>2
<1> HIDE DEF s
<1>4. \A i \in 1..2 : i = 1 \/ i = 2  OBVIOUS
<1>5. \A i \in 1..Len(s) : s[i] = <<a, b>>[i]  BY <1>2, <1>3, <1>4
<1>6. s = <<a, b>>  BY <1>2, <1>3, <1>5, SeqEqual
<1> QED  BY <1>2, <1>6 DEF s


\* What lasts is unchanged whenever it is compared with what was looked at.
LEMMA CompareAll ==
    ASSUME ActivityAssumption, ActivityInv, Activity!Same \/ Activity!After \/ Activity!FolderAgain
    PROVE  ActivityInv'
<1>1. CASE Activity!Same
  <2> DEFINE ok == Activity!Unchanged
  <2>1. at = "same" /\ Activity!Step("same", ok, "part", read)
    BY <1>1 DEF Activity!Same, Activity!Step
  <2>2. at \in Reading \ {"folder"} /\ at \in Pinned \ {"open"}  BY <2>1 DEF Reading, Pinned
  <2>3. ~ok => ~Lasting(read.app)  BY <2>2, LastingFile DEF Activity!Unchanged
  <2>4. ok \in BOOLEAN  BY DEF Activity!Unchanged
  <2> HIDE DEF ok
  <2> QED  BY <2>1, <2>3, <2>4, CompareKeeps
<1>2. CASE Activity!After
  <2> DEFINE ok == Activity!Unchanged
  <2>1. at = "after" /\ Activity!Step("after", ok, "folder again", read)
    BY <1>2 DEF Activity!After, Activity!Step
  <2>2. at \in Reading \ {"folder"} /\ at \in Pinned \ {"open"}  BY <2>1 DEF Reading, Pinned
  <2>3. ~ok => ~Lasting(read.app)  BY <2>2, LastingFile DEF Activity!Unchanged
  <2>4. ok \in BOOLEAN  BY DEF Activity!Unchanged
  <2> HIDE DEF ok
  <2> QED  BY <2>1, <2>3, <2>4, CompareKeeps
<1>3. CASE Activity!FolderAgain
  <2> DEFINE ok == Activity!Here.contents = read.folder
  <2>1. at = "folder again" /\ Activity!Step("folder again", ok, "again", read)
    BY <1>3 DEF Activity!FolderAgain, Activity!Step
  <2>2. at \in Reading \ {"folder"} /\ at \in Pinned  BY <2>1 DEF Reading, Pinned
  <2>3. ~ok => ~Lasting(read.app)  BY <2>2, LastingFile DEF Activity!Here
  <2>4. ok \in BOOLEAN  OBVIOUS
  <2>5. ok /\ AsItWas => read.before.id \in read.was
    <3> HAVE ok /\ AsItWas
    <3>1. PinnedFits  BY <2>2, PinnedKnown
    <3>2. Activity!Info(read.folder) = read.before /\ read.before.is = "file"  BY <3>1 DEF PinnedFits
    <3>3. Activity!Shown(plist[read.app]) = read.before.id
      BY <3>2 DEF Activity!Shown, Activity!Info, Activity!Here
    <3> QED  BY <3>1, <3>3 DEF PinnedFits
  <2> HIDE DEF ok
  <2> QED  BY <2>1, <2>3, <2>4, <2>5, CompareKeeps
<1> QED  BY <1>1, <1>2, <1>3

\* A part of what was looked at, if that is still there.
LEMMA PartKeeps ==
    ASSUME ActivityAssumption, ActivityInv, Activity!Part PROVE ActivityInv'
<1> DEFINE f == Activity!Info(read.folder)
           x == IF f.inode = read.fd THEN f.id ELSE read.before.id
           r == [read EXCEPT !.parts = Append(@, x)]
           to == IF Len(read.parts) = 1 THEN "after" ELSE "part"
<1>1. at = "part" /\ Activity!Step("part", TRUE, to, r)
  BY DEF Activity!Part, Activity!Step
<1>2. at \in Reading \ {"folder"} /\ at \in Pinned /\ to \in Reading  BY <1>1 DEF Reading, Pinned
<1>3. Row(read)  BY <1>2, ReadFacts
<1>4. /\ Row(r) /\ r.app = read.app /\ r.left = read.left /\ r.was = read.was
      /\ r.folder = read.folder /\ r.before = read.before /\ r.fd = read.fd
      /\ r.parts = Append(read.parts, x)
  BY <1>3 DEF Row
<1>5. AsItWas => x = read.before.id
  BY <1>2, PinnedKnown DEF PinnedFits
<1>6. \/ to = "part" /\ \E y : r.parts = <<y>> /\ (AsItWas => y = read.before.id)
      \/ to = "after" /\ \E y, z : r.parts = <<y, z>> /\ (AsItWas => y = read.before.id /\ z = read.before.id)
  <2> HIDE DEF x
  <2>1. \/ read.parts = <<>>
        \/ \E y : read.parts = <<y>> /\ (AsItWas => y = read.before.id)
    BY <1>1 DEF ActivityInv, ReadFits
  <2>2. CASE read.parts = <<>>
    <3>1. Len(read.parts) # 1  BY <2>2
    <3>2. Append(read.parts, x) = <<x>>  BY <2>2
    <3> QED  BY <1>4, <1>5, <3>1, <3>2
  <2>3. ASSUME NEW y, read.parts = <<y>>, AsItWas => y = read.before.id
        PROVE to = "after" /\ r.parts = <<y, x>>
    <3>1. Len(read.parts) = 1  BY <2>3
    <3>2. Append(<<y>>, x) = <<y, x>>  BY OneMore
    <3> QED  BY <1>4, <2>3, <3>1, <3>2
  <2> QED  BY <1>5, <2>1, <2>2, <2>3
<1> HIDE DEF r, x, to
<1>7. ASSUME at' = to, read' = r, UNCHANGED <<Activity!world, cached>> PROVE ReadFits'
  <2>1. /\ read'.app = read.app /\ read'.folder = read.folder /\ read'.before = read.before
        /\ read'.was = read.was /\ read'.fd = read.fd /\ read'.parts = r.parts
    BY <1>4, <1>7
  <2>2. PinnedFits' /\ AsItWas' = AsItWas  BY <1>2, <1>7, <2>1, PinnedStays
  <2>3. Activity!Info(read.folder)' = Activity!Info(read.folder) /\ Lasting(read.app)' = Lasting(read.app)
    BY <1>7, <2>1, SameFile
  <2>4. Lasting(read.app) => read.fd = Activity!Info(read.folder).inode
    BY <1>1, <1>2, LastingFile
  <2>5. CASE to = "part" /\ \E y : r.parts = <<y>> /\ (AsItWas => y = read.before.id)
    <3>1. \E y : read'.parts = <<y>> /\ (AsItWas' => y = read'.before.id)  BY <2>1, <2>2, <2>5
    <3> QED  BY <1>7, <2>1, <2>2, <2>3, <2>4, <2>5, <3>1 DEF ReadFits, PinnedFits, Reading, Pinned
  <2>6. CASE to = "after" /\ \E y, z : r.parts = <<y, z>> /\ (AsItWas => y = read.before.id /\ z = read.before.id)
    <3>1. \E y, z : read'.parts = <<y, z>> /\ (AsItWas' => y = read'.before.id /\ z = read'.before.id)
      BY <2>1, <2>2, <2>6
    <3> QED  BY <1>7, <2>1, <2>2, <2>3, <2>4, <2>6, <3>1 DEF ReadFits, PinnedFits, Reading, Pinned
  <2> QED  BY <1>6, <2>5, <2>6
<1> QED  BY <1>1, <1>2, <1>4, <1>7, StepKeeps

\* What is read of a file that is still the one that was looked at.
LEMMA AgainReads ==
    ASSUME ActivityInv, at = "again"
    PROVE  AsItWas =>
             /\ read.parts[1] = read.before.id /\ read.parts[2] = read.before.id
             /\ read.before.id \in read.was
<1> HAVE AsItWas
<1>1. ReadFits  BY DEF ActivityInv
<1>2. PICK x, y : read.parts = <<x, y>> /\ (AsItWas => x = read.before.id /\ y = read.before.id)
  BY <1>1 DEF ReadFits
<1>3. read.parts[1] = x /\ read.parts[2] = y  BY <1>2
<1>4. read.before.id \in read.was  BY <1>1 DEF ReadFits
<1> QED  BY <1>2, <1>3, <1>4

\* What lasts is known in the end.
LEMMA AgainKeeps ==
    ASSUME ActivityAssumption, ActivityInv, Activity!Again PROVE ActivityInv'
<1>1. at = "again" /\ UNCHANGED <<Activity!world, gate, asked, todo, here, seen, verdict>>
  BY DEF Activity!Again
<1>2. at \in Reading \ {"folder"} /\ at \in Pinned /\ at \in {"bundles", "next"} \cup Reading /\ Kept
  BY <1>1 DEF Reading, Pinned, Kept
<1>3. CASE Activity!Keep("failed")  BY <1>1, <1>2, <1>3, KeepKeeps
<1> DEFINE good == /\ Activity!Info(read.folder) = read.before
                   /\ read.parts[1] = read.parts[2] /\ read.parts[1] # None
<1>4. CASE /\ Activity!Go("next") /\ UNCHANGED read
           /\ cached' = IF good THEN [cached EXCEPT !.ids = @ \cup {read.parts[1]}] ELSE cached
  <2>1. at' = "next" /\ read' = read  BY <1>4 DEF Activity!Go
  <2>2. ChecksFit  BY DEF ActivityInv
  <2>3. cached = [time |-> cached.time, failed |-> cached.failed, look |-> cached.look,
                  asked |-> cached.asked, ids |-> cached.ids]
    BY <1>2, <2>2 DEF ChecksFit
  <2>4. /\ cached' = [time |-> cached.time, failed |-> cached.failed, look |-> cached.look,
                      asked |-> cached.asked, ids |-> cached'.ids]
        /\ cached.ids \subseteq cached'.ids
        /\ good => read.parts[1] \in cached'.ids
    <3> HIDE DEF good
    <3>1. CASE good
      <4>1. cached' = [cached EXCEPT !.ids = @ \cup {read.parts[1]}]  BY <1>4, <3>1
      <4> QED  BY <2>3, <4>1
    <3>2. CASE ~good
      <4>1. cached' = cached  BY <1>4, <3>2
      <4> QED  BY <2>3, <3>2, <4>1
    <3> QED  BY <3>1, <3>2
  <2>5. Lasting(read.app) => Activity!Shown(plist[read.app]) \in cached'.ids
    <3> HAVE Lasting(read.app)
    <3>1. /\ AsItWas /\ Activity!Info(read.folder) = read.before
          /\ read.before.id = Activity!Shown(plist[read.app]) /\ read.before.id # None
      BY <1>2, LastingFile
    <3>2. good /\ read.parts[1] = Activity!Shown(plist[read.app])  BY <1>1, <3>1, AgainReads
    <3> QED  BY <2>4, <3>2
  <2>6. read' = [app |-> read'.app, left |-> read'.left, folder |-> read'.folder, before |-> read'.before,
                 fd |-> read'.fd, parts |-> read'.parts, was |-> read'.was]
    BY <2>1, <2>2 DEF ChecksFit
  <2>7. at \in {"next"} \cup Reading /\ at' \in {"next"} \cup Reading  BY <1>2, <2>1
  <2>8. \A a \in read.left : a \in read'.left  BY <2>1
  <2> HIDE DEF good
  <2>9. WorldFits' /\ ChecksFit' /\ LookFits' /\ OwnersFit'
    BY <1>1, <2>4, <2>5, <2>6, <2>7, <2>8, TurnKeeps
  <2>10. ReadFits'
    <3>1. at' \notin Reading  BY <2>1 DEF Reading, Pinned
    <3> QED  BY <3>1, NotReading
  <2> QED  BY <2>9, <2>10 DEF ActivityInv
<1> QED  BY <1>3, <1>4 DEF Activity!Again

-----------------------------------------------------------------------------
(* The theorems                                                            *)

\* Every step keeps the invariant.
LEMMA ActivityKeeps ==
    ASSUME ActivityAssumption, ActivityInv, [Activity!Next]_(Activity!vars) PROVE ActivityInv'
<1>1. CASE UNCHANGED Activity!vars
  <2>1. UNCHANGED <<now, changes, cancel, runs, since, plist, touched, gate, asked, at, cached, todo, here,
                    seen, read, verdict>>
    BY <1>1 DEF Activity!vars, Activity!world
  <2>2. WorldFits'  BY <2>1 DEF ActivityInv, WorldFits
  <2>3. ChecksFit'  BY <2>1 DEF ActivityInv, ChecksFit, Kept
  <2>4. LookFits'  BY <2>1 DEF ActivityInv, LookFits, Kept, Steady, Activity!Gone
  <2>5. OwnersFit'  BY <2>1 DEF ActivityInv, OwnersFit, Kept, Found, Lasting, Activity!Shown
  <2>6. ReadFits'
    BY <2>1 DEF ActivityInv, ReadFits, AsItWas, Lasting, Activity!Info, Activity!Here, Activity!Shown
  <2> QED  BY <2>2, <2>3, <2>4, <2>5, <2>6 DEF ActivityInv
<1>2. ASSUME NEW p \in Pids, Activity!Move(p) PROVE ActivityInv'  BY <1>2, MoveKeeps
<1>3. ASSUME NEW p \in Activity!Processes, Activity!Look(p) PROVE ActivityInv'  BY <1>3, LookKeeps
<1>4. ASSUME NEW a \in Local, Activity!Update(a) PROVE ActivityInv'
  BY <1>4, UpdateTouches, TouchKeeps
<1>5. CASE Activity!Tick \/ Activity!Cancel  BY <1>5, WaitKeeps
<1>6. ASSUME NEW g \in Gates, Activity!Ask(g) PROVE ActivityInv'  BY <1>6, AskKeeps
<1>7. CASE Activity!List  BY <1>7, ListKeeps
<1>8. CASE Activity!LookAgain  BY <1>8, LookAgainKeeps
<1>9. CASE Activity!Captured  BY <1>9, CapturedKeeps
<1>10. CASE Activity!Decide \/ Activity!Return  BY <1>10, DecideKeeps
<1>11. CASE Activity!Bundles  BY <1>11, BundlesKeeps
<1>12. CASE Activity!NextApp  BY <1>12, NextAppKeeps
<1>13. CASE Activity!Folder  BY <1>13, FolderKeeps
<1>14. CASE Activity!Before  BY <1>14, BeforeKeeps
<1>15. CASE Activity!Open  BY <1>15, OpenKeeps
<1>16. CASE Activity!Same \/ Activity!After \/ Activity!FolderAgain  BY <1>16, CompareAll
<1>17. CASE Activity!Part  BY <1>17, PartKeeps
<1>18. CASE Activity!Again  BY <1>18, AgainKeeps
<1>19. Pids \subseteq Activity!Processes /\ Self \in Activity!Processes  BY DEF Activity!Processes
<1> QED
  BY <1>1, <1>2, <1>3, <1>4, <1>5, <1>6, <1>7, <1>8, <1>9, <1>10, <1>11, <1>12, <1>13, <1>14, <1>15,
     <1>16, <1>17, <1>18, <1>19
  DEF Activity!Next

\* It holds throughout.
LEMMA ActivityHolds ==
    ASSUME ActivityAssumption PROVE Activity!Spec => []ActivityInv
<1>1. Activity!Init => ActivityInv  BY ActivityStarts
<1>2. ActivityInv /\ [Activity!Next]_(Activity!vars) => ActivityInv'  BY ActivityKeeps
<1> QED  BY <1>1, <1>2, PTL DEF Activity!Spec

\* A step that clears finds nobody in what is kept.
LEMMA ClearDecides ==
    ASSUME ActivityInv, [Activity!Next]_(Activity!vars), at = "decide", at' = "done", verdict' = "clear"
    PROVE  /\ ~cached.failed /\ ~Activity!Named(cached.look, gate) /\ ~Activity!Inside(cached.look)
           /\ gate.kind = "cache" => cached.asked = "yes" /\ ~Activity!Owned(cached.ids, gate)
<1>1. Activity!Decide
  BY DEF Activity!Next, Activity!Move, Activity!Look, Activity!Update, Activity!Touch, Activity!check,
         Activity!Tick, Activity!Cancel, Activity!Ask, Activity!List, Activity!LookAgain,
         Activity!Captured, Activity!Return, Activity!Bundles, Activity!NextApp, Activity!Folder,
         Activity!Before, Activity!Open, Activity!Same, Activity!Part, Activity!After,
         Activity!FolderAgain, Activity!Again, Activity!Step, Activity!vars
<1>2. ~cached.failed /\ ~Activity!Named(cached.look, gate) /\ ~Activity!Inside(cached.look)
  BY <1>1 DEF Activity!Decide, Activity!Decided, Activity!Go
<1>3. gate.kind = "cache" => cached.asked \notin {"no", "failed"} /\ ~Activity!Owned(cached.ids, gate)
  BY <1>1, <1>2 DEF Activity!Decide, Activity!Decided, Activity!Go
<1>4. cached.asked \in {"no", "yes", "failed"}  BY DEF ActivityInv, ChecksFit, Kept
<1> QED  BY <1>2, <1>3, <1>4

\* ClearedIsIdle, of blocked_for with the look that capture_with_max_age keeps: nothing is
\* cleared that a process has been using for as long as a look may be old.
THEOREM ClearedStaysIdle ==
    ASSUME ActivityAssumption PROVE Activity!Spec => [][Activity!ClearedIsIdle]_(Activity!vars)
<1>1. ASSUME ActivityInv, [Activity!Next]_(Activity!vars) PROVE Activity!ClearedIsIdle
  <2> SUFFICES ASSUME at = "decide", at' = "done", verdict' = "clear",
                      NEW p \in Activity!Processes, Activity!Against(p), Activity!Settled(since[p])
               PROVE  FALSE
    BY DEF Activity!ClearedIsIdle
  <2>1. /\ ~cached.failed /\ ~Activity!Named(cached.look, gate) /\ ~Activity!Inside(cached.look)
        /\ gate.kind = "cache" => cached.asked = "yes" /\ ~Activity!Owned(cached.ids, gate)
    BY <1>1, ClearDecides
  <2>2. WorldFits /\ ChecksFit /\ LookFits /\ OwnersFit /\ Kept  BY <1>1 DEF ActivityInv, Kept
  <2>3. gate \in Gates /\ asked \in Nat /\ asked < cached.time + MaxAge /\ cached.time \in Nat /\ MaxAge \in Nat
    BY <2>2 DEF ChecksFit, ActivityAssumption
  <2>4. \A t \in Nat : Activity!Settled(t) => t < cached.time
    BY <2>3 DEF Activity!Settled
  <2>5. Steady(p)
    <3>1. since[p] < cached.time  BY <2>2, <2>4 DEF WorldFits
    <3>2. ~Activity!Gone(p)  BY DEF Activity!Against, Activity!Gone
    <3> QED  BY <3>1, <3>2 DEF Steady
  <2>6. runs[p] \in cached.look.paths /\ (p = Self \/ runs[p].cwd \in cached.look.folders)
    BY <2>1, <2>2, <2>5 DEF LookFits
  <2>7. CASE runs[p].exe = "in" \/ (p # Self /\ runs[p].cwd = "in")
    BY <2>1, <2>6, <2>7 DEF Activity!Inside
  <2>8. CASE runs[p].name \in Activity!Suspects(gate)
    BY <2>1, <2>6, <2>8 DEF Activity!Named
  <2>9. CASE gate.kind = "cache" /\ Activity!OwnedByApp(runs[p])
    <3>1. PICK a \in runs[p].apps \cap Local :
             Activity!Shown(plist[a]) \in gate.owners /\ Activity!Settled(touched[a])
      BY <2>9 DEF Activity!OwnedByApp
    <3>2. a \in Found  BY <2>6, <3>1 DEF Found
    <3>3. touched[a] \in Nat
      <4>1. a \in Apps  BY <1>1, <3>1 DEF ActivityAssumption
      <4> QED  BY <2>2, <4>1 DEF WorldFits
    <3>4. Lasting(a)
      <4>1. Activity!Shown(plist[a]) # None  BY <2>3, <2>9, <3>1 DEF ActivityAssumption
      <4>2. touched[a] < cached.time  BY <2>4, <3>1, <3>3
      <4> QED  BY <3>1, <4>1, <4>2 DEF Lasting
    <3>5. Activity!Shown(plist[a]) \in cached.ids  BY <2>1, <2>2, <2>9, <3>2, <3>4 DEF OwnersFit
    <3> QED  BY <2>1, <2>9, <3>1, <3>5 DEF Activity!Owned
  <2> QED  BY <2>7, <2>8, <2>9 DEF Activity!Against
<1>2. Activity!Spec => []ActivityInv  BY ActivityHolds
<1> QED  BY <1>1, <1>2, PTL DEF Activity!Spec

\* IdentifierWasThere, of bundle_identifier and read_info_plist: what other programs write while
\* an Info.plist is read never gives an identifier that was not there.
THEOREM IdentifierStaysTrue ==
    ASSUME ActivityAssumption PROVE Activity!Spec => [][Activity!IdentifierWasThere]_(Activity!vars)
<1>1. ASSUME ActivityInv, [Activity!Next]_(Activity!vars) PROVE Activity!IdentifierWasThere
  <2> SUFFICES ASSUME at = "again" PROVE cached'.ids \subseteq cached.ids \cup read.was
    BY DEF Activity!IdentifierWasThere
  <2>1. UNCHANGED cached \/ Activity!Again
    BY <1>1
    DEF Activity!Next, Activity!Move, Activity!Look, Activity!Update, Activity!Touch, Activity!check,
        Activity!Tick, Activity!Cancel, Activity!Ask, Activity!List, Activity!LookAgain,
        Activity!Captured, Activity!Decide, Activity!Return, Activity!Bundles, Activity!NextApp,
        Activity!Folder, Activity!Before, Activity!Open, Activity!Same, Activity!Part, Activity!After,
        Activity!FolderAgain, Activity!Step, Activity!vars
  <2>2. CASE UNCHANGED cached  BY <2>2
  <2>3. CASE Activity!Again
    <3>1. cached = [time |-> cached.time, failed |-> cached.failed, look |-> cached.look,
                    asked |-> cached.asked, ids |-> cached.ids]
      BY <1>1 DEF ActivityInv, ChecksFit, Kept
    <3>2. CASE Activity!Keep("failed")
      <4>1. cached' = [cached EXCEPT !.asked = "failed"]  BY <3>2 DEF Activity!Keep
      <4> QED  BY <3>1, <4>1
    <3>3. CASE cached' = cached  BY <3>3
    <3>4. CASE /\ Activity!Info(read.folder) = read.before
               /\ cached' = [cached EXCEPT !.ids = @ \cup {read.parts[1]}]
      <4>1. cached'.ids = cached.ids \cup {read.parts[1]}  BY <3>1, <3>4
      <4>2. AsItWas  BY <3>4 DEF AsItWas
      <4>3. read.parts[1] \in read.was  BY <1>1, <4>2, AgainReads
      <4> QED  BY <4>1, <4>3
    <3> QED  BY <2>3, <3>2, <3>3, <3>4 DEF Activity!Again
  <2> QED  BY <2>1, <2>2, <2>3
<1>2. Activity!Spec => []ActivityInv  BY ActivityHolds
<1> QED  BY <1>1, <1>2, PTL DEF Activity!Spec

=============================================================================
