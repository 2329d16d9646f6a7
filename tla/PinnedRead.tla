------------------------------ MODULE PinnedRead ------------------------------
(***************************************************************************)
(* How core/src/safety.rs reads one name of a folder while other programs   *)
(* write, rename and replace what the path goes through: the contents of a  *)
(* small file that is evidence for a rule (read_regular), and whether a     *)
(* child of exactly that name exists (ExactChild).  The volume takes names  *)
(* that differ in case for the same.  A version stands for the timestamps   *)
(* of an object, a number for a part of a file's contents.                  *)
(***************************************************************************)
EXTENDS Naturals, Sequences

CONSTANTS
    None,
    MaxChanges,    \* bounds what the other programs do
    MaxManifest    \* MAX_MANIFEST, in parts

VARIABLES
    \* The file system (external)
    leads,         \* the folder at the path, or None
    holds,         \* holds[d][spelling]: the file under that spelling of the name
    contents, version, now,
    \* The reader
    task, at, round, parent, initial, child, before, bytes,
    \* History: what has been at the path since the start; whether what was
    \* found out about the child has stopped being so
    been, broken

world == <<leads, holds, contents, version, now>>
reader == <<task, at, round, parent, initial, child, before, bytes>>
vars == <<world, reader, been, broken>>

Folders == {"p", "q"}
Files == {"f", "g"}
Spellings == {"exact", "other case"}

Meta(o) == [object |-> o, version |-> version[o],
            size |-> IF o \in Files THEN Len(contents[o]) ELSE 0]
SameObject(m, n) == m.object = n.object
Spelled(d) == {s \in Spellings : holds[d][s] # None}
\* A lookup does not mind the case.
Found(d) == IF Spelled(d) = {} THEN None ELSE holds[d][CHOOSE s \in Spelled(d) : TRUE]
Exact(d) == holds[d]["exact"]
AtPath(l, h) ==
    IF l = None THEN None
    ELSE IF \E s \in Spellings : h[l][s] # None
         THEN h[l][CHOOSE s \in Spellings : h[l][s] # None] ELSE None

Init ==
    /\ leads = "p"
    /\ holds = [d \in Folders |-> [s \in Spellings |->
                 IF d = "p" /\ s = "exact" THEN "f" ELSE None]]
    /\ contents = [f \in Files |-> <<0, 0>>]
    /\ version = [o \in Folders \cup Files |-> 0] /\ now = 0
    /\ task = "none" /\ at = "idle" /\ round = 1
    /\ parent = None /\ initial = None /\ child = None /\ before = None /\ bytes = <<>>
    /\ been = {} /\ broken = FALSE

-----------------------------------------------------------------------------
(* Other programs                                                          *)

\* Something is known of the child of a folder once its names have been read.
Knows == task = "child" /\ parent # None /\ (round = 2 \/ at = "confirm")

Touch(S) ==
    /\ now < MaxChanges /\ at \notin {"failed", "done"}
    /\ now' = now + 1
    /\ version' = [o \in Folders \cup Files |-> IF o \in S THEN now' ELSE version[o]]
    /\ been' = LET o == AtPath(leads', holds')
               IN  IF task = "file" /\ o # None
                   THEN been \cup {[object |-> o, version |-> version'[o],
                                    contents |-> contents'[o]]} ELSE been
    /\ broken' = (broken \/ (Knows /\ child # holds'[parent]["exact"]))
    /\ UNCHANGED reader

Rewrite(f, c) ==
    /\ contents' = [contents EXCEPT ![f] = c] /\ UNCHANGED <<leads, holds>>
    /\ Touch({f})
Write(f) ==
    \/ \E k \in DOMAIN contents[f] : Rewrite(f, [contents[f] EXCEPT ![k] = now + 1])
    \/ Rewrite(f, Append(contents[f], now + 1))
    \/ contents[f] # <<>> /\ Rewrite(f, SubSeq(contents[f], 1, Len(contents[f]) - 1))
\* f, or nothing, under one spelling, in place of what was there.
Place(d, s, f) ==
    /\ f # holds[d][s] \/ \E r \in Spellings : r # s /\ holds[d][r] # None
    /\ holds' = [holds EXCEPT ![d] = [r \in Spellings |-> IF r = s THEN f ELSE None]]
    /\ UNCHANGED <<leads, contents>>
    /\ Touch({d, f, Found(d)})
MoveFolder(d) ==
    /\ d # leads /\ leads' = d
    /\ UNCHANGED <<holds, contents>>
    /\ Touch({leads, d})
\* What is moved is further up.
MoveAbove(d) ==
    /\ d # leads /\ leads' = d
    /\ UNCHANGED <<holds, contents>>
    /\ Touch({})

Change ==
    \/ \E f \in Files : Write(f)
    \/ \E d \in Folders, s \in Spellings, f \in Files \cup {None} : Place(d, s, f)
    \/ \E d \in Folders \cup {None} : MoveFolder(d) \/ MoveAbove(d)

-----------------------------------------------------------------------------
(* Steps both readers take                                                 *)

Goto(place) == at' = place
Fail == Goto("failed") /\ UNCHANGED <<parent, initial, child, before, bytes, round>>
kept == <<world, task, been, broken>>

Start(t) ==
    /\ at = "idle" /\ task' = t
    /\ Goto(IF t = "file" THEN "open parent" ELSE "scope")
    /\ been' = IF t = "file" /\ AtPath(leads, holds) # None
               THEN {[object |-> AtPath(leads, holds), version |-> version[AtPath(leads, holds)],
                      contents |-> contents[AtPath(leads, holds)]]} ELSE {}
    /\ UNCHANGED <<world, round, parent, initial, child, before, bytes, broken>>

-----------------------------------------------------------------------------
(* read_regular_bounded and read_regular_at                                *)

OpenParent ==
    /\ at = "open parent"
    /\ IF leads = None THEN Fail
       ELSE /\ parent' = leads /\ Goto("stat file")
            /\ UNCHANGED <<round, initial, child, before, bytes>>
    /\ UNCHANGED kept

StatFile ==
    /\ at = "stat file"
    /\ LET f == Found(parent)
       IN  IF f = None THEN Fail
           ELSE IF Len(contents[f]) > MaxManifest THEN Fail
           ELSE /\ before' = Meta(f) /\ Goto("open file")
                /\ UNCHANGED <<round, parent, initial, child, bytes>>
    /\ UNCHANGED kept

OpenFile ==
    /\ at = "open file"
    /\ LET f == Found(parent)
       IN  IF f = None THEN Fail
           ELSE IF Meta(f) # before THEN Fail
           ELSE Goto("read") /\ UNCHANGED <<round, parent, initial, child, before, bytes>>
    /\ UNCHANGED kept

File == contents[before.object]

\* One part of the size that was allocated, or the one byte more.
ReadChunk ==
    /\ at = "read"
    /\ IF Len(bytes) < before.size
       THEN IF Len(bytes) >= Len(File) THEN Fail
            ELSE /\ bytes' = Append(bytes, File[Len(bytes) + 1])
                 /\ UNCHANGED <<at, round, parent, initial, child, before>>
       ELSE IF Len(File) > before.size THEN Fail
            ELSE Goto("stat again") /\ UNCHANGED <<round, parent, initial, child, before, bytes>>
    /\ UNCHANGED kept

StatAgain ==
    /\ at = "stat again"
    /\ IF Meta(before.object) # before THEN Fail
       ELSE Goto("path") /\ UNCHANGED <<round, parent, initial, child, before, bytes>>
    /\ UNCHANGED kept

\* Faulty on purpose: the path is not followed again.
ReopenNothing ==
    /\ at = "path"
    /\ Goto("name") /\ UNCHANGED <<round, parent, initial, child, before, bytes, kept>>

\* The path leads to the same folder and, in it, to the file as it was read.
ReopenParent ==
    /\ at = "path"
    /\ IF leads # parent THEN Fail
       ELSE Goto("name") /\ UNCHANGED <<round, parent, initial, child, before, bytes>>
    /\ UNCHANGED kept
StatName ==
    /\ at = "name"
    /\ IF Found(parent) = None THEN Fail
       ELSE IF Meta(Found(parent)) # before THEN Fail
       ELSE Goto("done") /\ UNCHANGED <<round, parent, initial, child, before, bytes>>
    /\ UNCHANGED kept

-----------------------------------------------------------------------------
(* ExactChild::observe (round 1) and validate (round 2)                    *)

\* scope_metadata of the parent (see ScopeProof).
Scope ==
    /\ at = "scope"
    /\ IF leads = None
       THEN /\ parent' = None /\ round' = 2 /\ Goto("observed")
            /\ UNCHANGED <<initial, child, before, bytes>>
       ELSE /\ parent' = leads /\ initial' = Meta(leads) /\ Goto("open")
            /\ UNCHANGED <<round, child, before, bytes>>
    /\ UNCHANGED kept

OpenNames ==
    /\ at = "open"
    /\ IF leads = None THEN Fail
       ELSE IF Meta(leads) # initial THEN Fail
       ELSE Goto("list") /\ UNCHANGED <<round, parent, initial, child, before, bytes>>
    /\ UNCHANGED kept

Unmoved == Meta(parent) = initial

\* initialize_names and exact_child_metadata up to the name: a reader of names sees
\* or does not see what came or went since it was opened.
List(seen) ==
    /\ at = "list"
    /\ Unmoved => seen = (Exact(parent) # None)
    /\ IF seen THEN Goto("stat") ELSE Goto("listed")
    /\ before' = None
    /\ UNCHANGED <<kept, round, parent, initial, child, bytes>>

StatChild ==
    /\ at = "stat"
    /\ IF Found(parent) = None THEN Fail
       ELSE /\ before' = Meta(Found(parent)) /\ Goto("listed")
            /\ UNCHANGED <<round, parent, initial, child, bytes>>
    /\ UNCHANGED kept

ChildOf(m) == IF m = None THEN None ELSE m.object

\* The folder has not changed while it was read; what was found is what was found
\* the first time.
Listed ==
    /\ at = "listed"
    /\ IF ~Unmoved \/ (round = 2 /\ <<before>> # bytes) THEN Fail
       ELSE /\ child' = IF round = 1 THEN ChildOf(before) ELSE child
            /\ bytes' = IF round = 1 THEN <<before>> ELSE bytes
            /\ Goto("confirm") /\ UNCHANGED <<round, parent, initial, before>>
    /\ UNCHANGED kept

\* Faulty on purpose: the open folder is asked, the path is not.
ParentStands == parent # None => Unmoved
\* validate_parent
ParentHolds ==
    IF parent = None THEN leads = None
    ELSE leads = parent /\ Unmoved

Confirm ==
    /\ at = "confirm"
    /\ IF ~ParentHolds THEN Fail
       ELSE /\ round' = 2 /\ Goto(IF round = 1 THEN "observed" ELSE "done")
            /\ UNCHANGED <<parent, initial, child, before, bytes>>
    /\ UNCHANGED kept

\* validate: the parent first, then its names with a reader of its own.
Validate ==
    /\ at = "observed"
    /\ IF ~ParentHolds THEN Fail
       ELSE /\ Goto(IF parent = None THEN "done" ELSE "reopen")
            /\ UNCHANGED <<round, parent, initial, child, before, bytes>>
    /\ UNCHANGED kept
Reopen ==
    /\ at = "reopen"
    /\ IF ~Unmoved THEN Fail
       ELSE Goto("list") /\ UNCHANGED <<round, parent, initial, child, before, bytes>>
    /\ UNCHANGED kept

Next ==
    \/ Change
    \/ \E t \in {"file", "child"} : Start(t)
    \/ OpenParent \/ StatFile \/ OpenFile \/ ReadChunk \/ StatAgain \/ ReopenParent \/ StatName
    \/ Scope \/ OpenNames \/ \E seen \in BOOLEAN : List(seen)
    \/ StatChild \/ Listed \/ Confirm \/ Validate \/ Reopen

Spec == Init /\ [][Next]_vars

-----------------------------------------------------------------------------
(* Properties                                                              *)

\* "Bytes and identity captured from the same validated file": the bytes were, at a
\* moment of the call, all of the contents of the file at the path, and the identity
\* was that file's, although it is read in parts.
BytesWereThere ==
    task = "file" /\ at = "done" =>
        \E b \in been : /\ b.object = before.object /\ b.version = before.version
                        /\ b.contents = bytes

\* "Callers must keep its candidates private until validation succeeds": when it
\* does, the path leads to the folder whose names were read, and in that folder the
\* child of exactly that name was there, or none was, all the while.
ChildAllAlong == task = "child" /\ at = "done" => ~broken /\ leads = parent

=============================================================================
