----------------------------- MODULE ScopeProof -----------------------------
(***************************************************************************)
(* How core/src/safety.rs observes one path below a grant (scope_metadata   *)
(* and scope_metadata_with_ancestor) while other programs rename, replace,  *)
(* remove and write what the path goes through.  Each system call is a step.*)
(*                                                                         *)
(* The grant's folder holds a folder, which holds a leaf.  A version stands *)
(* for all timestamps of an object: any change of a file, and any entry     *)
(* that comes to or leaves a directory, makes a new one, as does moving the *)
(* object itself.  Some leaves share an inode number, one after the other;  *)
(* an object that is held open keeps its number.                            *)
(***************************************************************************)
EXTENDS Naturals, Sequences

CONSTANTS
    None,
    MaxChanges,       \* bounds what the other programs do
    Attempts          \* SCOPE_OBSERVATION_ATTEMPTS

VARIABLES
    \* The file system (external)
    reaches,          \* what is above the grant still leads to it
    granted,          \* the object at the grant's name, or None
    holds,            \* holds[d]: the object under d's one name, or None
    version, dead, now,
    \* The observer
    at, want, bound,  \* want: how many names the path has; bound: the ancestor
    fds, opened,      \* the pinned directories and their metadata when opened
    expected, observed, attempt, read,
    answer,           \* the metadata, or None for a proved absence
    whose, first, witness   \* history: whose metadata it is; the leaf first
                            \* seen; what was at the path when it was validated

world == <<reaches, granted, holds, version, dead, now>>
proof == <<at, want, bound, fds, opened, expected, observed, attempt, read, answer,
           whose, first, witness>>
vars == <<world, proof>>

Folders == {"grant", "other grant"}
Parents == {"folder", "other folder"}
Leaves == {"leaf", "recreated leaf", "other leaf"}
Objects == Folders \cup Parents \cup Leaves
Inode(o) == IF o = "recreated leaf" THEN "leaf" ELSE o

Meta(o) == [inode |-> Inode(o), version |-> version[o]]
SameObject(m, n) == m.inode = n.inode
Lookup == [k \in 0..2 |->
    LET g == IF reaches THEN granted ELSE None
        p == IF g = None THEN None ELSE holds[g]
    IN  CASE k = 0 -> g [] k = 1 -> p
          [] k = 2 -> IF p = None THEN None ELSE holds[p]]

Init ==
    /\ reaches = TRUE /\ granted = "grant"
    /\ holds = [d \in Folders \cup Parents |->
                 CASE d = "grant" -> "folder" [] d = "folder" -> "leaf" [] OTHER -> None]
    /\ version = [o \in Objects |-> 0] /\ dead = {} /\ now = 0
    /\ at = "idle" /\ want = 0 /\ bound = None
    /\ fds = <<>> /\ opened = <<>> /\ expected = None /\ observed = <<>>
    /\ attempt = 0 /\ read = None
    /\ answer = None /\ whose = None /\ first = None /\ witness = None

-----------------------------------------------------------------------------
(* Other programs                                                          *)

Touch(S) ==
    /\ now < MaxChanges /\ now' = now + 1
    /\ version' = [o \in Objects |-> IF o \in S THEN now' ELSE version[o]]
    /\ UNCHANGED proof

Write ==
    /\ \E o \in Leaves \ dead : Touch({o})
    /\ UNCHANGED <<reaches, granted, holds, dead>>

MoveAbove ==
    /\ Touch({}) /\ reaches' = ~reaches
    /\ UNCHANGED <<granted, holds, dead>>

MoveGrant(o) ==
    /\ o # granted
    /\ Touch({o, granted} \cap Objects) /\ granted' = o
    /\ UNCHANGED <<reaches, holds, dead>>

\* Another object, or none, takes the place of what d holds.
Place(d, o) ==
    /\ o # holds[d] /\ o \notin dead
    /\ Touch({d, o, holds[d]} \cap Objects)
    /\ holds' = [holds EXCEPT ![d] = o]
    /\ UNCHANGED <<reaches, granted>>

MoveFolder(d, o) == Place(d, o) /\ UNCHANGED dead
MoveLeaf(d, o) ==
    /\ o = "recreated leaf" => "leaf" \in dead
    /\ Place(d, o)
    /\ dead' = dead \cup {l \in Leaves : l = holds[d] /\ \A p \in Parents : holds'[p] # l}

Change ==
    \/ Write \/ MoveAbove
    \/ \E o \in Folders \cup {None} : MoveGrant(o)
    \/ \E o \in Parents \cup {None} : MoveFolder("grant", o)
    \/ \E d \in Parents : \E o \in Leaves \cup {None} : MoveLeaf(d, o)

-----------------------------------------------------------------------------
(* scope_metadata_impl                                                     *)

Goto(place) == at' = place
Fail == at' = "failed" /\ UNCHANGED answer
history == <<whose, first, witness>>
\* Faulty on purpose: the ancestor is only known by its number.
BoundByInode(depth, m) ==
    bound # None /\ bound.depth = depth => SameObject(m, bound.meta)
\* check_scope_ancestor
Bound(depth, m) == bound # None /\ bound.depth = depth => m = bound.meta

\* A path of n names.  The ancestor, if any, is a directory it goes through,
\* described as an earlier step of the caller found it.
Ask(n, ancestor) ==
    /\ at = "idle"
    /\ want' = n /\ bound' = ancestor
    /\ Goto("validate")
    /\ UNCHANGED <<world, fds, opened, expected, observed, attempt, read, answer, history>>

\* validate_root: the grant's path leads to the object that was granted.
Valid == Lookup[0] = "grant"

Validate ==
    /\ at = "validate"
    /\ IF Valid THEN Goto("open grant") /\ UNCHANGED answer ELSE Fail
    /\ UNCHANGED <<world, want, bound, fds, opened, expected, observed, attempt, read,
                   history>>

\* Start the confirmation of metadata m of object o, which may be None.
Confirm(m, o) ==
    /\ expected' = m /\ observed' = <<>> /\ attempt' = 0
    /\ first' = o
    /\ Goto("observe")

OpenGrant ==
    /\ at = "open grant"
    /\ IF Valid /\ Bound(0, Meta("grant"))
       THEN /\ fds' = <<"grant">> /\ opened' = <<Meta("grant")>>
            /\ IF want = 0 THEN Confirm(Meta("grant"), "grant")
               ELSE Goto("child") /\ UNCHANGED <<expected, observed, attempt, first>>
            /\ UNCHANGED answer
       ELSE Fail /\ UNCHANGED <<fds, opened, expected, observed, attempt, first>>
    /\ UNCHANGED <<world, want, bound, read, whose, witness>>

\* fstatat of the next name below the directory opened last.
Child ==
    /\ at = "child"
    /\ LET o == holds[fds[Len(fds)]]
       IN  CASE o = None -> Confirm(None, None) /\ UNCHANGED <<read, answer>>
             [] o # None /\ ~Bound(Len(fds), Meta(o)) ->
                  Fail /\ UNCHANGED <<expected, observed, attempt, first, read>>
             [] o # None /\ Bound(Len(fds), Meta(o)) ->
                  IF Len(fds) = want THEN Confirm(Meta(o), o) /\ UNCHANGED <<read, answer>>
                  ELSE /\ read' = Meta(o) /\ Goto("open")
                       /\ UNCHANGED <<expected, observed, attempt, first, answer>>
    /\ UNCHANGED <<world, want, bound, fds, opened, whose, witness>>

\* openat, and fstat of what it opened: it is what fstatat described.
Open ==
    /\ at = "open"
    /\ LET o == holds[fds[Len(fds)]]
       IN  CASE o = None ->
                  Confirm(None, None) /\ UNCHANGED <<fds, opened, answer>>
             [] o # None /\ Meta(o) # read ->
                  Fail /\ UNCHANGED <<fds, opened, expected, observed, attempt, first>>
             [] o # None /\ Meta(o) = read ->
                  /\ fds' = Append(fds, o) /\ opened' = Append(opened, read)
                  /\ Goto("child")
                  /\ UNCHANGED <<expected, observed, attempt, first, answer>>
    /\ UNCHANGED <<world, want, bound, read, whose, witness>>

-----------------------------------------------------------------------------
(* confirm_scope_observation_attempt                                       *)

\* fstat of each pinned directory, the grant first.
Observe ==
    /\ at = "observe"
    /\ LET k == Len(observed) + 1
           m == Meta(fds[k])
       IN  IF Bound(k - 1, m)
           THEN /\ observed' = Append(observed, m)
                /\ Goto(IF k < Len(fds) THEN "observe"
                        ELSE IF k = 1 THEN "current" ELSE "links")
                /\ UNCHANGED answer
           ELSE Fail /\ UNCHANGED observed
    /\ UNCHANGED <<world, want, bound, fds, opened, expected, attempt, read, history>>

\* Each directory still holds the next.
Links ==
    /\ at = "links"
    /\ LET o == holds[fds[1]]
       IN  IF o # None /\ Meta(o) = observed[2] THEN Goto("current") /\ UNCHANGED answer
           ELSE Fail
    /\ UNCHANGED <<world, want, bound, fds, opened, expected, observed, attempt, read,
                   history>>

\* Faulty on purpose: a leaf with the same number is taken for the same file.
ContentsChangedAnyway(before, after) ==
    /\ bound = None
    /\ before # None /\ after # None /\ before # after /\ SameObject(before, after)

\* Only the contents changed: nothing came to or left the leaf's directory since
\* it was opened, so that the number is that of the same file.
ContentsChanged(before, after) ==
    /\ bound = None
    /\ want = 0 \/ observed[Len(fds)] = opened[Len(fds)]
    /\ before # None /\ after # None /\ before # after /\ SameObject(before, after)

\* The leaf once more.  One that disappeared is proved absent instead.
Current ==
    /\ at = "current"
    /\ LET o == IF want = 0 THEN "grant" ELSE holds[fds[Len(fds)]]
           m == IF o = None THEN None ELSE Meta(o)
       IN  /\ read' = m /\ whose' = o
           /\ CASE expected # None /\ m = None ->
                     /\ expected' = None /\ observed' = <<>> /\ Goto("observe")
                     /\ UNCHANGED answer
                [] ~(expected # None /\ m = None)
                     /\ (m = expected \/ ContentsChanged(expected, m)) ->
                     Goto("revalidate") /\ UNCHANGED <<expected, observed, answer>>
                [] OTHER -> Fail /\ UNCHANGED <<expected, observed>>
    /\ UNCHANGED <<world, want, bound, fds, opened, attempt, first, witness>>

Revalidate ==
    /\ at = "revalidate"
    /\ witness' = [leaf |-> Lookup[want],
                   ancestor |-> IF bound = None \/ Lookup[bound.depth] = None THEN None
                                ELSE Meta(Lookup[bound.depth])]
    /\ IF Valid THEN Goto("recheck") /\ UNCHANGED answer ELSE Fail
    /\ UNCHANGED <<world, want, bound, fds, opened, expected, observed, attempt, read,
                   whose, first>>

\* Faulty on purpose: the directories are not looked at again.
RecheckNothing ==
    /\ at = "recheck"
    /\ IF read = expected THEN Goto("done") /\ answer' = expected /\ UNCHANGED
                                                    <<expected, observed, attempt>>
       ELSE IF attempt + 1 < Attempts
       THEN /\ expected' = read /\ observed' = <<>> /\ attempt' = attempt + 1
            /\ Goto("observe") /\ UNCHANGED answer
       ELSE Fail /\ UNCHANGED <<expected, observed, attempt>>
    /\ UNCHANGED <<world, want, bound, fds, opened, read, history>>

\* The pinned directories are as they were observed; then the answer, or another
\* attempt at a leaf that is being written.
Recheck ==
    /\ at = "recheck"
    /\ IF \E k \in 1..Len(fds) : Meta(fds[k]) # observed[k]
       THEN Fail /\ UNCHANGED <<expected, observed, attempt>>
       ELSE IF read = expected
       THEN /\ Goto("done") /\ answer' = expected
            /\ UNCHANGED <<expected, observed, attempt>>
       ELSE IF attempt + 1 < Attempts
       THEN /\ expected' = read /\ observed' = <<>> /\ attempt' = attempt + 1
            /\ Goto("observe") /\ UNCHANGED answer
       ELSE Fail /\ UNCHANGED <<expected, observed, attempt>>
    /\ UNCHANGED <<world, want, bound, fds, opened, read, history>>

\* The directories that a path of n names goes through.
Ancestors(n) == {[depth |-> d, meta |-> Meta(Lookup[d])] : d \in {k \in 0..2 : k < n /\ Lookup[k] # None}}

Next ==
    \/ Change
    \/ \E n \in 0..2 : \E ancestor \in {None} \cup Ancestors(n) : Ask(n, ancestor)
    \/ Validate \/ OpenGrant \/ Child \/ Open
    \/ Observe \/ Links \/ Current \/ Revalidate \/ Recheck

Spec == Init /\ [][Next]_vars

-----------------------------------------------------------------------------
(* Properties                                                              *)

Answered == at = "done"

\* "authoritative only while its pinned ancestry still reaches the authorized
\* path": the object an answer describes, or nothing, was at the path at a moment
\* of the call, whatever was moved, replaced or recreated in the meantime.
AnswerWasThere == Answered => witness.leaf = whose /\ (answer = None <=> whose = None)

\* "so unlink/recreate cannot disguise inode reuse as a write": metadata that is
\* given as that of a file under change is of the file that was first seen.
WrittenNotReplaced == Answered /\ answer # None => whose = first

\* scope_metadata_with_ancestor: "the selected artifact" that a witness was found
\* in was, at a moment of the call, on the path with all the metadata it was
\* selected with.
AncestorIsBound ==
    Answered /\ bound # None /\ bound.depth < Len(fds) => witness.ancestor = bound.meta

=============================================================================
