-------------------------------- MODULE ProbePool --------------------------------
(***************************************************************************)
(* The pool that runs read-only programs (core/src/probe.rs): callers that   *)
(* wait no longer than their deadline, a short queue, and supervisors that   *)
(* start a program, collect its output and reap it.  A program may start a   *)
(* helper that inherits its pipes, close its own, or not die when it is      *)
(* killed; the number of one that was reaped goes to another program.       *)
(*                                                                         *)
(* Each caller calls once, so it names its request and its program, too.    *)
(***************************************************************************)
EXTENDS Naturals, Sequences, FiniteSets

CONSTANTS
    None,
    Callers, Workers,
    Queued,      \* how many requests may wait
    MaxBytes,    \* the bytes a program may write into both pipes
    MaxWrites    \* bounds what a program writes

VARIABLES
    result,      \* of the caller: None until it called, then "waiting", then what it got
    late,        \* the request's deadline has passed
    queue,
    worker,      \* what a supervisor does, and for whom
    got,         \* the bytes it has of each pipe, and which pipes are at their end
    reply,       \* in the channel of the request
    leader,      \* external: the program
    helper,      \* external: the helper that it started
    written,     \* external: what went into each pipe
    reused       \* external: the program's number names another program, and if that
                 \* was killed

vars == <<result, late, queue, worker, got, reply, leader, helper, written,
          reused>>
callers == <<result, late>>
programs == <<leader, helper, written, reused>>

Pipes == {"out", "err"}
Idle == [at |-> "idle", for |-> None]

Init ==
    /\ result = [c \in Callers |-> None]
    /\ late = [c \in Callers |-> FALSE]
    /\ queue = <<>>
    /\ worker = [w \in Workers |-> Idle]
    /\ got = [c \in Callers |-> [p \in Pipes |-> [bytes |-> 0, done |-> FALSE]]]
    /\ reply = [c \in Callers |-> None]
    /\ leader = [c \in Callers |-> "none"] /\ helper = [c \in Callers |-> FALSE]
    /\ written = [c \in Callers |-> [p \in Pipes |-> 0]]
    /\ reused = [c \in Callers |-> "no"]

-----------------------------------------------------------------------------
(* The caller                                                              *)

Call(c) ==
    /\ result[c] = None
    /\ IF Len(queue) = Queued
       THEN result' = [result EXCEPT ![c] = "refused"] /\ UNCHANGED queue
       ELSE result' = [result EXCEPT ![c] = "waiting"] /\ queue' = Append(queue, c)
    /\ UNCHANGED <<late, worker, got, reply, programs>>
\* It is too late, or the caller was cancelled; and the supervisor is told so.
GiveUp(c) ==
    /\ result[c] = "waiting"
    /\ result' = [result EXCEPT ![c] = "gave up"]
    /\ UNCHANGED <<late, queue, worker, got, reply, programs>>
Aborted(c) == result[c] = "gave up"
Receive(c) ==
    /\ result[c] = "waiting" /\ reply[c] # None
    /\ result' = [result EXCEPT ![c] = reply[c]]
    /\ UNCHANGED <<late, queue, worker, got, reply, programs>>

TimePasses(c) ==
    /\ ~late[c] /\ (c \in {queue[n] : n \in DOMAIN queue} \/ \E w \in Workers : worker[w].for = c)
    /\ late' = [late EXCEPT ![c] = TRUE]
    /\ UNCHANGED <<result, queue, worker, got, reply, programs>>

-----------------------------------------------------------------------------
(* External: the programs                                                  *)

Running(c) == leader[c] \in {"running", "silent"}
AtEnd(c) == leader[c] # "running" /\ ~helper[c]
Leader(c, to) == leader' = [leader EXCEPT ![c] = to] /\ UNCHANGED <<helper, written, reused>>

Write(c, p) ==
    /\ ~AtEnd(c) /\ written[c][p] < MaxWrites
    /\ written' = [written EXCEPT ![c][p] = @ + 1] /\ UNCHANGED <<leader, helper, reused>>
StartHelper(c) ==
    /\ leader[c] = "running" /\ ~helper[c]
    /\ helper' = [helper EXCEPT ![c] = TRUE] /\ UNCHANGED <<leader, written, reused>>
HelperEnds(c) ==
    /\ helper[c]
    /\ helper' = [helper EXCEPT ![c] = FALSE] /\ UNCHANGED <<leader, written, reused>>
Reuse(c) ==
    /\ leader[c] = "reaped" /\ ~helper[c] /\ reused[c] = "no"
    /\ \E w \in Workers : worker[w].for = c    \* later it does not matter
    /\ reused' = [reused EXCEPT ![c] = "alive"] /\ UNCHANGED <<leader, helper, written>>
Program(c) ==
    /\ \/ \E p \in Pipes : Write(c, p)
       \/ StartHelper(c) \/ HelperEnds(c) \/ Reuse(c)
       \/ leader[c] = "running" /\ Leader(c, "silent")
       \/ Running(c) /\ Leader(c, "exited")
       \/ leader[c] = "killed" /\ Leader(c, "exited")
    /\ UNCHANGED <<callers, queue, worker, got, reply>>

-----------------------------------------------------------------------------
(* The supervisor: supervise, collect and drain                            *)

Go(w, to) == worker' = [worker EXCEPT ![w].at = to]
\* try_send: nobody listens any more, or the answer is there.
Reply(c, r) == reply' = [reply EXCEPT ![c] = r]
Stopped(c) == Aborted(c) \/ late[c]

Take(w) ==
    /\ worker[w] = Idle /\ queue # <<>>
    /\ worker' = [worker EXCEPT ![w] = [at |-> "start", for |-> Head(queue)]]
    /\ queue' = Tail(queue)
    /\ UNCHANGED <<callers, got, reply, programs>>
Start(w) ==
    LET c == worker[w].for
    IN  /\ worker[w].at = "start"
        /\ \/ /\ ~Stopped(c) /\ Go(w, "out") /\ Leader(c, "running") /\ UNCHANGED reply
           \* Or it could not be started.
           \/ worker' = [worker EXCEPT ![w] = Idle] /\ Reply(c, "failed") /\ UNCHANGED programs
        /\ UNCHANGED <<callers, queue, got>>

Fail(w) == Go(w, "kill") /\ Reply(worker[w].for, "failed") /\ UNCHANGED <<got, programs>>
After(p) == IF p = "out" THEN "err" ELSE "wait"
Other(p) == IF p = "out" THEN "err" ELSE "out"
\* One read of a pipe.
Drain(w, p) ==
    LET c == worker[w].for
        more == written[c][p] - got[c][p].bytes
    IN  /\ worker[w].at = p
        /\ IF Stopped(c) THEN Fail(w)
           ELSE IF got[c][p].done \/ (more = 0 /\ ~AtEnd(c))
           THEN Go(w, After(p)) /\ UNCHANGED <<got, reply, programs>>
           ELSE IF more = 0
           THEN /\ Go(w, After(p)) /\ got' = [got EXCEPT ![c][p].done = TRUE]
                /\ UNCHANGED <<reply, programs>>
           ELSE \E n \in 1..more :
                    IF got[c][p].bytes + n > MaxBytes - got[c][Other(p)].bytes THEN Fail(w)
                    ELSE /\ got' = [got EXCEPT ![c][p].bytes = @ + n]
                         /\ UNCHANGED <<worker, reply, programs>>
        /\ UNCHANGED <<callers, queue>>
\* Faulty on purpose: a program that ended is reaped at once.
WaitFirst(w) ==
    LET c == worker[w].for
    IN  /\ worker[w].at = "wait"
        /\ IF leader[c] \in {"exited", "reaped"}
           THEN /\ Leader(c, "reaped")
                /\ IF \A p \in Pipes : got[c][p].done
                   THEN worker' = [worker EXCEPT ![w] = Idle] /\ Reply(c, "output")
                   ELSE Go(w, "out") /\ UNCHANGED reply
           ELSE Go(w, "out") /\ UNCHANGED <<reply, programs>>
        /\ UNCHANGED <<callers, queue, got>>
\* Both pipes first: until then its number cannot be reused.
Wait(w) ==
    LET c == worker[w].for
    IN  /\ worker[w].at = "wait"
        /\ IF (\A p \in Pipes : got[c][p].done) /\ leader[c] = "exited"
           THEN /\ Leader(c, "reaped") /\ Reply(c, "output")
                /\ worker' = [worker EXCEPT ![w] = Idle]
           ELSE Go(w, "out") /\ UNCHANGED <<reply, programs>>
        /\ UNCHANGED <<callers, queue, got>>
\* SIGKILL for its group, or for whoever has its number now.
Kill(w) ==
    LET c == worker[w].for
    IN  /\ worker[w].at = "kill" /\ Go(w, "reap")
        /\ leader' = [leader EXCEPT ![c] = IF Running(c) THEN "killed" ELSE @]
        /\ helper' = [helper EXCEPT ![c] = FALSE]
        /\ reused' = [reused EXCEPT ![c] = IF @ = "alive" THEN "killed" ELSE @]
        /\ UNCHANGED <<callers, queue, got, reply, written>>
Reap(w) ==
    LET c == worker[w].for
    IN  /\ worker[w].at = "reap" /\ leader[c] \in {"exited", "reaped"}
        /\ Leader(c, "reaped") /\ worker' = [worker EXCEPT ![w] = Idle]
        /\ UNCHANGED <<callers, queue, got, reply>>

Next ==
    \/ \E c \in Callers :
          Call(c) \/ GiveUp(c) \/ Receive(c) \/ TimePasses(c) \/ Program(c)
    \/ \E w \in Workers :
          Take(w) \/ Start(w) \/ (\E p \in Pipes : Drain(w, p)) \/ Wait(w) \/ Kill(w) \/ Reap(w)

Spec == Init /\ [][Next]_vars

-----------------------------------------------------------------------------
(* Properties                                                              *)

\* "Until here its PID cannot be reused, making group cancellation safe": no program is
\* killed for another one that had its number.
OnlyItsOwnIsKilled == \A c \in Callers : reused[c] # "killed"

\* "a stuck kernel call cannot cause an unbounded replacement pool": there are never more
\* programs than supervisors, and when one is done with a request then its program is
\* reaped and nobody holds its pipes.
NothingIsLeftRunning ==
    LET busy == {worker[w].for : w \in Workers}
    IN  \A c \in Callers \ busy :
            leader[c] \in {"none", "reaped"} /\ ~helper[c]

\* What a caller gets as output is all of it, and within the limit; a request that is
\* not with a supervisor or in the queue has its answer.
OutputIsWhole ==
    \A c \in Callers :
        /\ reply[c] = "output" =>
              /\ \A p \in Pipes : got[c][p].bytes = written[c][p]
              /\ written[c]["out"] + written[c]["err"] <= MaxBytes
        /\ (result[c] = "waiting" /\ reply[c] = None) =>
              \/ \E n \in DOMAIN queue : queue[n] = c
              \/ \E w \in Workers : worker[w].for = c

=============================================================================
