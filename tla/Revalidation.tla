------------------------------ MODULE Revalidation ------------------------------
(***************************************************************************)
(* The last look at an item before it is removed (revalidate_observing in   *)
(* core/src/scanner.rs), and in it the question if Git tracks what is in it *)
(* (git_untracked and GitEvidence).  Other programs write the item, its     *)
(* project's configuration and its repositories, and start working in it,   *)
(* between any two steps.                                                   *)
(*                                                                         *)
(* Level 1 is the project, level Grant the grant, and what is above that is *)
(* outside of it.  Every write makes a version that was never there before; *)
(* that a fingerprint shows every write is what MeasurementCursor is about. *)
(***************************************************************************)
EXTENDS Naturals, Sequences, FiniteSets

CONSTANTS
    None,
    Levels, Grant,
    Uses,         \* what the user's processes may have in the item: program, working directory
    MaxChanges    \* bounds what other programs do

VARIABLES
    \* External: the version of the item and of its project's configuration, the uses
    \* that are made of the item, and the repository at each level
    content, config, busy, repo, changes,
    pc,           \* what is next
    round,        \* the first or the last look
    todo,         \* ActivitySnapshot::capture: what is listed and was not looked at yet
    level,        \* of the walk up
    saved,        \* GitEvidence: the level, the marker and the index as captured
    entry,        \* which of the two is compared
    child,        \* external: the git process
    pipe,         \* external: if there are bytes, and if it is closed
    pending,      \* if the last read was told to come back
    \* History
    tracked,      \* the queried repository tracked the item since it was captured
    free,         \* the levels at which there was no repository at some moment of the last
                  \* look
    rested        \* and the uses that were not made of the item at one

vars == <<content, config, busy, repo, changes, pc, round, todo, level, saved, entry, child,
          pipe, pending, tracked, free, rested>>
world == <<content, config, busy, repo, changes>>
git == <<level, saved, entry, child, pipe, pending>>
history == <<tracked, free, rested>>

Repositories ==
    [marker : 0..MaxChanges, index : 0..MaxChanges, tracks : BOOLEAN, supported : BOOLEAN]
Ended == {"approved", "refused"}

Free(r) == {l \in Levels : r[l] = None}

\* validate_git_index, validate_git_config and the layouts that capture knows
Supported(r) == r.supported

Init ==
    /\ content = 0 /\ config = 0 /\ busy = {} /\ changes = 0
    /\ repo \in [Levels -> {None} \cup {r \in Repositories : r.marker = 0 /\ r.index = 0}]
    /\ Cardinality({l \in Levels : repo[l] # None}) <= 1
    /\ pc = "review" /\ round = 1 /\ todo = {} /\ level = 1 /\ saved = None /\ entry = "none"
    /\ child = "none" /\ pipe = [bytes |-> FALSE, closed |-> FALSE] /\ pending = FALSE
    /\ tracked = FALSE /\ free = {} /\ rested = {}

-----------------------------------------------------------------------------
(* External: other programs                                                *)

\* What becomes known of the world as it is now.
Note ==
    /\ tracked' = (tracked \/ (saved # None /\ repo'[saved.level] # None
                               /\ repo'[saved.level].tracks))
    /\ free' = (IF round = 2 THEN free \cup Free(repo') ELSE {})
    /\ rested' = (IF round = 2 THEN rested \cup (Uses \ busy') ELSE {})
Change(c, g, b, r) ==
    /\ changes < MaxChanges /\ pc \notin Ended
    /\ changes' = changes + 1 /\ content' = c /\ config' = g /\ busy' = b /\ repo' = r
    /\ Note
    /\ UNCHANGED <<pc, round, todo, level, saved, entry, child, pipe, pending>>
Write == Change(changes + 1, config, busy, repo)
Configure == Change(content, changes + 1, busy, repo)
\* Processes start in the item, leave it, or one takes over from another.
WorkInIt == \E b \in SUBSET Uses \ {busy} : Change(content, config, b, repo)
\* git add or rm in the repository at level l
Stage(l) ==
    repo[l] # None
    /\ Change(content, config, busy,
              [repo EXCEPT ![l].index = changes + 1, ![l].tracks = ~@])
\* A repository comes or goes.
Clone(l, tracks) ==
    repo[l] = None
    /\ Change(content, config, busy,
              [repo EXCEPT ![l] = [marker |-> changes + 1, index |-> changes + 1,
                                   tracks |-> tracks, supported |-> TRUE]])
Unclone(l) == repo[l] # None /\ Change(content, config, busy, [repo EXCEPT ![l] = None])

\* The git process: it reads the index, writes what it finds, closes and ends.
\* The repository it was given may be gone.
GitReads ==
    /\ child = "started"
    /\ LET r == repo[saved.level]
       IN  \/ r = None /\ child' = "failing" /\ UNCHANGED pipe
           \/ r # None /\ child' = "closing" /\ pipe' = [pipe EXCEPT !.bytes = r.tracks]
           \/ child' = "failing" /\ UNCHANGED pipe
    /\ UNCHANGED <<world, history, pc, round, todo, level, saved, entry, pending>>
GitEnds ==
    /\ child \in {"closing", "failing"}
    /\ pipe' = [pipe EXCEPT !.closed = TRUE]
    /\ \/ child' = IF child = "closing" THEN "succeeded" ELSE "failed"
       \/ ~pipe.closed /\ UNCHANGED child
    /\ UNCHANGED <<world, history, pc, round, todo, level, saved, entry, pending>>

-----------------------------------------------------------------------------
(* The steps of the check                                                  *)

\* Refused, without a process that is left.
Refuse ==
    /\ pc' = "refused"
    /\ child' = IF child = "none" THEN "none" ELSE "reaped"
    /\ UNCHANGED <<world, history, round, todo, level, saved, entry, pipe, pending>>
Go(to) == pc' = to /\ UNCHANGED <<world, history, round, todo>>
Cancel == pc \notin Ended /\ Refuse

\* The metadata of the item and the evidence of its project are as they were reviewed.
\* What was written inside of the item may show in its own metadata.
Review ==
    /\ pc = "review"
    /\ \/ content # 0 /\ Refuse
       \/ config # 0 /\ Refuse
       \/ /\ config = 0
          /\ Go(IF round = 1 THEN "find" ELSE "work") /\ level' = 1
          /\ UNCHANGED <<saved, entry, child, pipe, pending>>

\* ActivitySnapshot::capture, in both rounds a new one: the processes are listed once,
\* and a use by one that is not listed began after that; then they are looked at one
\* after the other, and one that is seen at work in the item is enough to refuse.
Work ==
    /\ pc = "work" /\ pc' = "look"
    /\ \E listed \in SUBSET Uses : busy \subseteq listed /\ todo' = listed
    /\ UNCHANGED <<world, history, round, git>>
LookAt(u) ==
    /\ pc = "look" /\ u \in todo
    /\ IF u \in busy THEN Refuse
       ELSE todo' = todo \ {u} /\ UNCHANGED <<world, history, pc, round, git>>
Looked ==
    /\ pc = "look" /\ todo = {}
    /\ Go(IF round = 1 THEN "measure" ELSE IF saved # None THEN "nearer" ELSE "find")
    /\ level' = 1
    /\ UNCHANGED <<saved, entry, child, pipe, pending>>

\* The measurement finds what was reviewed; the last look begins.
Measure ==
    /\ pc = "measure"
    /\ IF content # 0 THEN Refuse
       ELSE /\ pc' = "review" /\ round' = 2
            /\ free' = Free(repo) /\ rested' = Uses \ busy
            /\ UNCHANGED <<world, git, todo, tracked>>

\* git_untracked: the nearest repository, looked for from the project up to "/".  In the
\* last look one that appeared is refused, whatever is found out of it.
FindRepository ==
    /\ pc = "find"
    /\ IF level \notin Levels
       THEN /\ Go(IF round = 1 THEN "work" ELSE "approved")
            /\ UNCHANGED git
       ELSE IF repo[level] = None
       THEN pc' = pc /\ level' = level + 1
            /\ UNCHANGED <<world, history, round, todo, saved, entry, child, pipe, pending>>
       ELSE IF level > Grant \/ round = 2 THEN Refuse
       ELSE Go("capture") /\ UNCHANGED git

\* GitEvidence::capture: the marker, then the index, and both once more
CaptureMarker ==
    /\ pc = "capture" /\ saved = None
    /\ IF repo[level] = None THEN Refuse
       ELSE /\ saved' = [level |-> level, marker |-> repo[level].marker, index |-> None]
            /\ tracked' = FALSE
            /\ pc' = pc
            /\ UNCHANGED <<world, round, todo, free, rested, level, entry, child, pipe, pending>>
CaptureIndex ==
    /\ pc = "capture" /\ saved # None
    /\ LET r == repo[saved.level]
       IN  IF r = None \/ ~Supported(r) THEN Refuse
           ELSE /\ saved' = [saved EXCEPT !.index = r.index]
                /\ tracked' = r.tracks
                /\ entry' = "marker" /\ pc' = "captured"
                /\ UNCHANGED <<world, round, todo, free, rested, level, child, pipe, pending>>

\* GitEvidence::unchanged, entry by entry
Unchanged(then) ==
    LET r == repo[saved.level]
    IN  IF r = None \/ (entry = "marker" /\ r.marker # saved.marker)
           \/ (entry = "index" /\ r.index # saved.index) THEN Refuse
        ELSE IF entry = "marker"
        THEN entry' = "index" /\ pc' = pc
             /\ UNCHANGED <<world, history, round, todo, level, saved, child, pipe, pending>>
        ELSE Go(then) /\ entry' = "marker"
             /\ UNCHANGED <<level, saved, child, pipe, pending>>
Captured == pc = "captured" /\ Unchanged("spawn")

Spawn ==
    /\ pc = "spawn"
    /\ Go("read") /\ child' = "started" /\ pipe' = [bytes |-> FALSE, closed |-> FALSE]
    /\ UNCHANGED <<level, saved, entry, pending>>

\* The loop: any output is a refusal; what is pending, or already closed, is waited for.
Read ==
    /\ pc = "read"
    /\ IF pipe.bytes THEN Refuse
       ELSE /\ Go("wait") /\ pending' = ~pipe.closed
            /\ UNCHANGED <<level, saved, entry, child, pipe>>
\* Faulty on purpose: a success is taken for an empty answer.
WaitOnly ==
    /\ pc = "wait"
    /\ IF child = "failed" THEN Refuse
       ELSE /\ IF child = "succeeded"
               THEN Go("asked") /\ entry' = "marker" /\ child' = "reaped"
               ELSE Go("read") /\ UNCHANGED <<entry, child>>
            /\ UNCHANGED <<level, saved, pipe, pending>>
\* A process that ended has its output read once more.
Wait ==
    /\ pc = "wait"
    /\ IF child = "failed" \/ (child = "succeeded" /\ pipe.bytes) THEN Refuse
       ELSE /\ IF child = "succeeded"
               THEN Go("asked") /\ entry' = "marker" /\ child' = "reaped"
               ELSE Go("read") /\ UNCHANGED <<entry, child>>
            /\ UNCHANGED <<level, saved, pipe, pending>>
TimesOut == pc = "wait" /\ child \in {"started", "closing", "failing"} /\ Refuse

Asked == pc = "asked" /\ Unchanged("work")

\* The last look at a repository: none that is nearer, and nothing changed.
Nearer ==
    /\ pc = "nearer"
    /\ IF level = saved.level
       THEN Go("again") /\ entry' = "marker" /\ UNCHANGED <<level, saved, child, pipe, pending>>
       ELSE IF repo[level] # None THEN Refuse
       ELSE pc' = pc /\ level' = level + 1
            /\ UNCHANGED <<world, history, round, todo, saved, entry, child, pipe, pending>>
Again == pc = "again" /\ Unchanged("approved")

Check ==
    \/ Review \/ Work \/ Looked \/ Measure \/ FindRepository \/ CaptureMarker \/ CaptureIndex
    \/ Captured \/ Spawn \/ Read \/ Wait \/ TimesOut \/ Asked \/ Nearer \/ Again \/ Cancel
    \/ \E u \in Uses : LookAt(u)
Others ==
    \/ Write \/ Configure \/ WorkInIt \/ GitReads \/ GitEnds
    \/ \E l \in Levels : Stage(l) \/ Unclone(l) \/ \E tracks \in BOOLEAN : Clone(l, tracks)
Next == Check \/ Others

Spec == Init /\ [][Next]_vars

-----------------------------------------------------------------------------
(* Properties                                                              *)

\* "every uncertainty fails closed": an item is approved only if after its measurement
\* there was for each of the user's processes a moment when it did not work in it, and for each
\* folder from its project up to the repository it lies in, or else to "/", one when that was no
\* repository; and its repository tracked nothing in it from the capture of the index to
\* the last look.  The moments need not be the same one: processes that hand the work to
\* each other while they are looked at are not seen.
ApprovedIsSafe ==
    pc = "approved" =>
        /\ Uses \subseteq rested
        /\ {l \in Levels : saved # None => l < saved.level} \subseteq free
        /\ saved # None => ~tracked

\* Whatever ends the check, no git is left running behind it.
NoGitIsLeft == pc \in Ended => child \in {"none", "reaped"}

=============================================================================
