------------------------------- MODULE StagedCopy -------------------------------
(***************************************************************************)
(* The last look before a copy is deleted for good: the copy, which was      *)
(* renamed beside its old place, is compared with the file that stays        *)
(* (verify_staged in core/src/duplicates.rs).  Other programs write both,    *)
(* may set back the time of a file they wrote, and may put a new file where   *)
(* the copy was.                                                             *)
(*                                                                          *)
(* A file is a sequence of chunks.  Its mtime is the last change that nobody *)
(* hid, its ctime the last change of all, and 0 is what was reviewed; a       *)
(* rename makes a ctime of its own.                                          *)
(***************************************************************************)
EXTENDS Naturals, Sequences

CONSTANTS
    None,
    Chunks,        \* how long both files are
    Bytes,         \* what a chunk may hold
    MaxChanges     \* bounds what other programs do

VARIABLES
    stage, keeper,        \* external: the two files
    placed,               \* external: there is a file at the copy's old path
    changes,
    pc, chunk,            \* what is next
    opened,               \* the ctimes of both as they were opened
    read,                 \* the chunk of the copy, before that of the keeper is read
    \* History: whether both were equal when the copy was looked at last
    equal

vars == <<stage, keeper, placed, changes, pc, chunk, opened, read, equal>>
world == <<stage, keeper, placed, changes>>

File == [bytes : [1..Chunks -> Bytes], mtime : {0}, ctime : {0}, there : {TRUE}]
Init ==
    /\ stage \in {[f EXCEPT !.ctime = 1] : f \in File} /\ keeper \in File
    /\ placed = FALSE /\ changes = 1
    /\ pc = "keeper" /\ chunk = 1 /\ opened = [stage |-> None, keeper |-> None]
    /\ read = None /\ equal = FALSE

-----------------------------------------------------------------------------
(* External: other programs                                                *)

Written(f, n, b, hidden) ==
    [f EXCEPT !.bytes[n] = b, !.ctime = changes + 1,
              !.mtime = IF hidden THEN @ ELSE changes + 1]
Change ==
    /\ changes <= MaxChanges /\ pc \notin {"retained", "refused"}
    /\ changes' = changes + 1
    /\ \/ \E n \in 1..Chunks, b \in Bytes, hidden \in BOOLEAN :
             \/ stage' = Written(stage, n, b, hidden) /\ UNCHANGED <<keeper, placed>>
             \/ keeper' = Written(keeper, n, b, hidden) /\ UNCHANGED <<stage, placed>>
       \/ keeper' = [keeper EXCEPT !.there = FALSE] /\ UNCHANGED <<stage, placed>>
       \/ stage' = [stage EXCEPT !.there = FALSE] /\ UNCHANGED <<keeper, placed>>
       \/ placed' = ~placed /\ UNCHANGED <<stage, keeper>>
    /\ UNCHANGED <<pc, chunk, opened, read, equal>>

-----------------------------------------------------------------------------
(* verify_staged                                                           *)

Go(holds, to) == pc' = IF holds THEN to ELSE "refused"
Cancel ==
    pc \notin {"retained", "refused"} /\ pc' = "refused"
    /\ UNCHANGED <<world, chunk, opened, read, equal>>

KeeperIsReviewed == keeper.there /\ keeper.ctime = 0
\* same_after_rename, and nothing at the old path
StageIsReviewed == stage.there /\ stage.mtime = 0 /\ ~placed

RevalidateKeeper ==
    /\ pc = "keeper" /\ Go(KeeperIsReviewed, "stage")
    /\ UNCHANGED <<world, chunk, opened, read, equal>>
OpenStage ==
    /\ pc = "stage" /\ Go(StageIsReviewed, "open")
    /\ opened' = [opened EXCEPT !.stage = stage.ctime]
    /\ UNCHANGED <<world, chunk, read, equal>>
OpenKeeper ==
    /\ pc = "open" /\ Go(KeeperIsReviewed, "read")
    /\ opened' = [opened EXCEPT !.keeper = keeper.ctime]
    /\ UNCHANGED <<world, chunk, read, equal>>
ReadStage ==
    /\ pc = "read" /\ chunk <= Chunks
    /\ read' = stage.bytes[chunk] /\ pc' = "compare"
    /\ UNCHANGED <<world, chunk, opened, equal>>
ReadKeeper ==
    /\ pc = "compare" /\ Go(keeper.bytes[chunk] = read, "read") /\ chunk' = chunk + 1
    /\ read' = None
    /\ UNCHANGED <<world, opened, equal>>
\* Faulty on purpose: the copy is looked at as it was at first.
ValidateStageByTime ==
    /\ pc = "read" /\ chunk > Chunks
    /\ Go(StageIsReviewed, "validate")
    /\ equal' = (stage.bytes = keeper.bytes)
    /\ UNCHANGED <<world, chunk, opened, read>>
\* validate_stage: with everything that stat tells of it, also what a rename changes
ValidateStage ==
    /\ pc = "read" /\ chunk > Chunks
    /\ Go(StageIsReviewed /\ stage.ctime = opened.stage, "validate")
    /\ equal' = (stage.bytes = keeper.bytes)
    /\ UNCHANGED <<world, chunk, opened, read>>
ValidateKeeper ==
    /\ pc = "validate" /\ Go(KeeperIsReviewed /\ keeper.ctime = opened.keeper, "retained")
    /\ UNCHANGED <<world, chunk, opened, read, equal>>

Next ==
    \/ Change \/ Cancel \/ RevalidateKeeper \/ OpenStage \/ OpenKeeper \/ ReadStage \/ ReadKeeper
    \/ ValidateStage \/ ValidateKeeper

Spec == Init /\ [][Next]_vars

-----------------------------------------------------------------------------
(* Properties                                                              *)

\* If the copy may go then there was a moment, after both were read, when it held what
\* the file that stays held, also where a program hid its writing.
RetainedIsEqual == pc = "retained" => equal

=============================================================================
