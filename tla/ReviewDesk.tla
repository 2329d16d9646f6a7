----------------------------- MODULE ReviewDesk -----------------------------
(***************************************************************************)
(* Reviews and the duplicate check of core/src/lib.rs: who may promise     *)
(* that a file stays, and who may remove one.                              *)
(*                                                                         *)
(* A caller prepares a review (of one file, or of a copy of which another  *)
(* file is kept) and later executes it; a duplicate check publishes the    *)
(* report that such copies are chosen from.  Four mutexes order them:      *)
(* runtime, reviews, store and duplicate_state.  A section under one lock  *)
(* is one step; a section that takes a second lock inside first holds the  *)
(* outer one.  The flags cleaning, checking, mutation_cancel,              *)
(* duplicate_cancel and the cancel generation are read without a lock.     *)
(***************************************************************************)
EXTENDS Naturals, FiniteSets

CONSTANTS
    Callers,         \* threads that call into the engine
    Files,           \* indexed personal files
    Tokens,          \* as many as pending reviews are allowed (64 in the code)
    May,             \* May[c]: what thread c asks for, a bound
    MaxVersion,      \* bounds how often a file changes ...
    Changing,        \* ... the files that do, and the files that may be kept
    Keepable,
    Preparable,      \* the files that may be reviewed alone
    MaxCancels, MaxGrants, MaxChecks,
    None

ASSUME DeskAssumption ==
    /\ None \notin Callers /\ None \notin Files /\ None \notin Nat
    /\ Preparable \subseteq Files
    /\ MaxVersion \in Nat /\ MaxCancels \in Nat /\ MaxGrants \in Nat /\ MaxChecks \in Nat

VARIABLES
    held,             \* who holds each mutex
    cleaning, checking, mutationCancel, duplicateCancel,
    cancelGeneration,
    reviews,          \* the pending reviews
    report, activePaths, moved, sqlActive,        \* DuplicateState
    checks,           \* how many checks have begun; names a report
    rows, kept, grant,                            \* the store
    disk,             \* what is on disk; None once cleaned (external)
    unheard,          \* changed files whose event is still to come (external)
    overtaken,        \* history: who was past its last look as a cancel set its flag
    desk,             \* where each caller is
    mem               \* what it carries

flags == <<cleaning, checking, mutationCancel, duplicateCancel, cancelGeneration>>
evidence == <<report, activePaths, moved, sqlActive, checks>>
index == <<rows, kept, grant>>
world == <<disk, unheard, overtaken>>
vars == <<held, flags, reviews, evidence, index, world, desk, mem>>

Locks == {"runtime", "reviews", "store", "duplicates"}
Versions == 0..MaxVersion
Review ==
    {r \in [item : Files, keeper : Files \cup {None}, row : Versions,
            keeperRow : Versions \cup {None}, grant : 0..MaxGrants,
            generation : 0..MaxCancels] :
        r.keeper # r.item /\ (r.keeper # None => r.keeperRow # None)}
CopyReview == {r \in Review : r.keeper # None}
Report ==
    {p \in [files : SUBSET Files, row : [Files -> Versions \cup {None}],
            protected : SUBSET Files, grant : 0..MaxGrants, token : 0..MaxChecks] :
        \A f \in p.files : p.row[f] # None}
Published == {p \in Report : p.files # {}}

\* The desk and what its callers carry: no review, report or check in hand is
\* without the rows it was drawn from.
HeldTyped == held \in [Locks -> Callers \cup {None}]
FlagsTyped ==
    /\ cleaning \in BOOLEAN /\ checking \in BOOLEAN
    /\ mutationCancel \in BOOLEAN /\ duplicateCancel \in BOOLEAN
    /\ cancelGeneration \in 0..MaxCancels
ReviewsTyped == reviews \in [Tokens -> Review \cup {None}]
EvidenceTyped ==
    /\ report \in Published \cup {None} /\ checks \in 0..MaxChecks
    /\ activePaths \subseteq Files /\ moved \in BOOLEAN /\ sqlActive \in BOOLEAN
IndexTyped ==
    /\ rows \in [Files -> Versions \cup {None}] /\ kept \subseteq Files
    /\ grant \in 0..MaxGrants
WorldTyped ==
    /\ disk \in [Files -> Versions \cup {None}] /\ unheard \subseteq Files
    /\ overtaken \subseteq Callers

\* Where an execute removes its item; from "past" on it reads no flag any more.
Removing == {"removing", "staged", "past", "unlinking"}
Committed == {"past", "unlinking"}
Places == Removing \cup {"idle", "prepared", "chosen", "checked", "reserving", "opening", "admitted",
           "begun", "cleared", "selecting", "querying", "reading", "selected",
           "analysing", "analysed", "publishing", "closing", "finishing", "fencing",
           "fenced", "consuming", "consumed", "clean", "ending",
           "cancelled", "stopped", "halting", "preferring", "preferred", "granting",
           "replacing", "replaced"}
CarriedTyped ==
    /\ desk \in [Callers -> Places] /\ mem = [c \in Callers |-> mem[c]]
    /\ \A c \in Callers :
        /\ desk[c] = "prepared" => mem[c] \in Review \ CopyReview
        /\ desk[c] \in {"chosen", "checked"} =>
            mem[c] \in [review : CopyReview, token : 0..MaxChecks]
        /\ desk[c] = "reserving" => mem[c] \in CopyReview
        /\ desk[c] \in {"admitted", "begun", "cleared"} => mem[c] \in 0..MaxCancels
        /\ desk[c] \in {"selected", "analysing"} => mem[c] \in Report
        /\ desk[c] \in {"analysed", "publishing"} => mem[c] \in Published
        /\ desk[c] \in {"consumed", "clean"} \cup Removing => mem[c] \in Review

TypeOK ==
    HeldTyped /\ FlagsTyped /\ ReviewsTyped /\ EvidenceTyped /\ IndexTyped /\ WorldTyped
        /\ CarriedTyped

Init ==
    /\ held = [l \in Locks |-> None]
    /\ cleaning = FALSE /\ checking = FALSE
    /\ mutationCancel = FALSE /\ duplicateCancel = FALSE /\ cancelGeneration = 0
    /\ reviews = [t \in Tokens |-> None]
    /\ report = None /\ activePaths = {} /\ moved = FALSE /\ sqlActive = FALSE
    /\ checks = 0
    /\ rows = [f \in Files |-> 0] /\ kept = {} /\ grant = 0
    /\ disk = [f \in Files |-> 0] /\ unheard = {} /\ overtaken = {}
    /\ desk = [c \in Callers |-> "idle"]
    /\ mem = [c \in Callers |-> None]

-----------------------------------------------------------------------------
(* Locks, places and what they guard                                       *)

Free(l) == held[l] = None
Take(c, l) == held' = [held EXCEPT ![l] = c]
Release(L) == held' = [l \in Locks |-> IF l \in L THEN None ELSE held[l]]

Goto(c, place) == desk' = [desk EXCEPT ![c] = place]
Carry(c, m) == mem' = [mem EXCEPT ![c] = m]
Leave(c, place) == Goto(c, place) /\ Carry(c, None)
Return(c) == Leave(c, "idle")
Asks(c, what) == desk[c] = "idle" /\ what \in May[c]
Occupied == cleaning \/ checking

\* What every admission retains: a review that no cancel came after.
Current(r) == r # None /\ r.generation = cancelGeneration
Retained == [t \in Tokens |-> IF Current(reviews[t]) THEN reviews[t] ELSE None]
Reserved(R) == {R[t].keeper : t \in {t \in Tokens : R[t] # None}} \ {None}
Reviewed(R) == {R[t].item : t \in {t \in Tokens : R[t] # None}}

\* invalidate_duplicates for the files of S.  Of the generation counter only one
\* thing is ever asked: whether it moved since a check registered its files.
Invalidate(S) ==
    /\ moved' = (moved \/ activePaths \cap S # {})
    /\ report' = IF report # None /\ report.files \cap S # {} THEN None ELSE report
    /\ UNCHANGED <<activePaths, sqlActive, checks>>

-----------------------------------------------------------------------------
(* "prepare"                                                               *)

Draft(f, k, r, g) ==
    [item |-> f, keeper |-> k, row |-> r[f],
     keeperRow |-> IF k = None THEN None ELSE r[k], grant |-> g,
     generation |-> 0]

\* The displayed item is the stored row and no Keep covers it.
PrepareReads(c, f) ==
    /\ Asks(c, "prepare") /\ ~Occupied /\ Free("store")
    /\ rows[f] # None /\ f \notin kept
    /\ Carry(c, Draft(f, None, rows, grant)) /\ Goto(c, "prepared")
    /\ UNCHANGED <<held, flags, reviews, evidence, index, world>>

\* Faulty on purpose: a file already under review may become a kept copy.
ConflictsForward(R, r) == r.item \in Reserved(R)

Conflicts(R, r) ==
    IF r.keeper = None THEN r.item \in Reserved(R)
    ELSE r.keeper \in Reviewed(R) \/ r.item \in Reserved(R)

NewToken == CHOOSE t \in Tokens : Retained[t] = None

\* The final admission check and the insertion, under the reviews lock.
Admits(c) ==
    LET r == [mem[c] EXCEPT !.generation = cancelGeneration]
        full == \A t \in Tokens : Retained[t] # None
    IN  IF Occupied THEN UNCHANGED reviews
        ELSE IF full \/ Conflicts(Retained, r) THEN reviews' = Retained
        ELSE reviews' = [Retained EXCEPT ![NewToken] = r]

PrepareAdmits(c) ==
    /\ desk[c] = "prepared" /\ Free("reviews")
    /\ Admits(c) /\ Return(c)
    /\ UNCHANGED <<held, flags, evidence, index, world>>

-----------------------------------------------------------------------------
(* prepare_duplicate                                                       *)

ChooseCopies(c, f, k) ==
    /\ Asks(c, "prepareDuplicate") /\ ~Occupied /\ Free("duplicates")
    /\ report # None /\ {f, k} \subseteq report.files /\ f # k
    /\ f \notin report.protected
    /\ Carry(c, [review |-> Draft(f, k, report.row, report.grant),
                 token |-> report.token])
    /\ Goto(c, "chosen")
    /\ UNCHANGED <<held, flags, reviews, evidence, index, world>>

\* Both rows, both identities on disk, and no Keep on the copy.
Unchanged(r) ==
    /\ grant = r.grant /\ r.item \notin kept
    /\ rows[r.item] = r.row /\ rows[r.keeper] = r.keeperRow
    /\ disk[r.item] = r.row /\ disk[r.keeper] = r.keeperRow

\* Faulty on purpose: the store is not unlocked before the next lock.
CheckCopiesLocked(c) ==
    /\ desk[c] = "chosen" /\ Free("store")
    /\ IF Unchanged(mem[c].review)
       THEN Take(c, "store") /\ Goto(c, "checked") /\ UNCHANGED mem
       ELSE Return(c) /\ UNCHANGED held
    /\ UNCHANGED <<flags, reviews, evidence, index, world>>

CheckCopies(c) ==
    /\ desk[c] = "chosen" /\ Free("store")
    /\ IF Unchanged(mem[c].review) THEN Goto(c, "checked") /\ UNCHANGED mem ELSE Return(c)
    /\ UNCHANGED <<held, flags, reviews, evidence, index, world>>

\* Faulty on purpose: the report is not looked at again.
ReopenNothing(c) ==
    /\ desk[c] = "checked" /\ Free("duplicates")
    /\ Take(c, "duplicates") /\ Carry(c, mem[c].review) /\ Goto(c, "reserving")
    /\ UNCHANGED <<flags, reviews, evidence, index, world>>

\* The report must still be there; duplicate_state stays locked from here.
ReopenReport(c) ==
    /\ desk[c] = "checked" /\ Free("duplicates")
    /\ IF report # None /\ report.token = mem[c].token
       THEN Take(c, "duplicates") /\ Carry(c, mem[c].review) /\ Goto(c, "reserving")
       ELSE Return(c) /\ UNCHANGED held
    /\ UNCHANGED <<flags, reviews, evidence, index, world>>

Reserve(c) ==
    /\ desk[c] = "reserving" /\ Free("reviews")
    /\ Admits(c) /\ Return(c)
    /\ Release({"duplicates"})
    /\ UNCHANGED <<flags, evidence, index, world>>

\* review_is_live: after two minutes no operation sees it any more.
ReviewExpires(t) ==
    /\ reviews[t] # None
    /\ reviews' = [reviews EXCEPT ![t] = None]
    /\ UNCHANGED <<held, flags, evidence, index, world, desk, mem>>

-----------------------------------------------------------------------------
(* begin_duplicate_check, check_duplicates, end_duplicate_check            *)

TakeRuntime(c, what, place) ==
    /\ Asks(c, what) /\ Free("runtime")
    /\ Take(c, "runtime") /\ Goto(c, place)
    /\ UNCHANGED <<flags, reviews, evidence, index, world, mem>>

\* The check must not start over a cleanup; it notes the cancel generation.
AdmitCheck(c) ==
    /\ desk[c] = "opening" /\ Free("reviews")
    /\ IF Occupied
       THEN Release({"runtime"}) /\ Return(c)
       ELSE Take(c, "reviews") /\ Carry(c, cancelGeneration) /\ Goto(c, "admitted")
    /\ UNCHANGED <<flags, reviews, evidence, index, world>>

BeginCheck(c) ==
    /\ desk[c] = "admitted"
    /\ checks < MaxChecks /\ checks' = checks + 1
    /\ checking' = TRUE /\ duplicateCancel' = FALSE
    /\ Release({"runtime", "reviews"}) /\ Goto(c, "begun")
    /\ UNCHANGED <<cleaning, mutationCancel, cancelGeneration, reviews, report,
                   activePaths, moved, sqlActive, index, world, mem>>

ClearReport(c) ==
    /\ desk[c] = "begun" /\ Free("duplicates")
    /\ report' = None /\ activePaths' = {} /\ moved' = TRUE
    /\ Goto(c, "cleared")
    /\ UNCHANGED <<held, flags, reviews, sqlActive, checks, index, world, mem>>

\* A cancel whose flag the new check has reset is noticed by its generation.
NoticeCancel(c) ==
    /\ desk[c] = "cleared"
    /\ duplicateCancel' = (duplicateCancel \/ cancelGeneration # mem[c])
    /\ Leave(c, IF duplicateCancel' THEN "closing" ELSE "selecting")
    /\ UNCHANGED <<held, cleaning, checking, mutationCancel, cancelGeneration,
                   reviews, evidence, index, world>>

SelectTakesStore(c) ==
    /\ desk[c] = "selecting" /\ Free("store")
    /\ Take(c, "store") /\ Goto(c, "querying")
    /\ UNCHANGED <<flags, reviews, evidence, index, world, mem>>

QueryStarts(c) ==
    /\ desk[c] = "querying" /\ Free("duplicates")
    /\ IF duplicateCancel
       THEN Release({"store"}) /\ Goto(c, "closing") /\ UNCHANGED sqlActive
       ELSE sqlActive' = TRUE /\ Goto(c, "reading") /\ UNCHANGED held
    /\ UNCHANGED <<flags, reviews, report, activePaths, moved, checks, index, world, mem>>

\* Faulty on purpose: a failed query returns before it clears the flag.
QueryEndsEarly(c) ==
    /\ desk[c] = "reading" /\ Free("duplicates")
    /\ Release({"store"})
    /\ \/ /\ Carry(c, [files |-> {f \in Files : rows[f] # None}, row |-> rows,
                       protected |-> kept, grant |-> grant, token |-> checks])
          /\ Goto(c, "selected") /\ sqlActive' = FALSE
       \/ duplicateCancel /\ Goto(c, "closing") /\ UNCHANGED <<mem, sqlActive>>
    /\ UNCHANGED <<flags, reviews, report, activePaths, moved, checks, index, world>>

\* duplicate_inputs; an interrupted or cancelled query fails.
QueryEnds(c) ==
    /\ desk[c] = "reading" /\ Free("duplicates")
    /\ sqlActive' = FALSE /\ Release({"store"})
    /\ \/ /\ Carry(c, [files |-> {f \in Files : rows[f] # None}, row |-> rows,
                       protected |-> kept, grant |-> grant, token |-> checks])
          /\ Goto(c, "selected")
       \/ duplicateCancel /\ Goto(c, "closing") /\ UNCHANGED mem
    /\ UNCHANGED <<flags, reviews, report, activePaths, moved, checks, index, world>>

\* Faulty on purpose: the files of the check are not registered for events.
RegisterNothing(c) ==
    /\ desk[c] = "selected" /\ Free("duplicates")
    /\ moved' = FALSE /\ Goto(c, "analysing")
    /\ UNCHANGED <<held, flags, reviews, report, activePaths, sqlActive, checks, index,
                   world, mem>>

\* From here an event for one of these files moves the generation on.
RegisterFiles(c) ==
    /\ desk[c] = "selected" /\ Free("duplicates")
    /\ activePaths' = mem[c].files /\ moved' = FALSE
    /\ Goto(c, "analysing")
    /\ UNCHANGED <<held, flags, reviews, report, sqlActive, checks, index, world, mem>>

\* duplicates::analyze: a file that is not what its row says is left out.
Analyse(c) ==
    /\ desk[c] = "analysing"
    /\ LET same == {f \in mem[c].files : disk[f] = mem[c].row[f]}
       IN  IF Cardinality(same) > 1
           THEN Carry(c, [mem[c] EXCEPT !.files = same]) /\ Goto(c, "analysed")
           ELSE Leave(c, "closing")
    /\ UNCHANGED <<held, flags, reviews, evidence, index, world>>

Recheck(c) ==
    /\ desk[c] = "analysed" /\ Free("store")
    /\ IF grant = mem[c].grant /\ \A f \in mem[c].files : rows[f] = mem[c].row[f]
       THEN Take(c, "store") /\ Goto(c, "publishing") /\ UNCHANGED mem
       ELSE UNCHANGED held /\ Leave(c, "closing")
    /\ UNCHANGED <<flags, reviews, evidence, index, world>>

Publish(c) ==
    /\ desk[c] = "publishing" /\ Free("duplicates")
    /\ report' = IF duplicateCancel \/ moved THEN report ELSE mem[c]
    /\ Release({"store"}) /\ Leave(c, "closing")
    /\ UNCHANGED <<flags, reviews, activePaths, moved, sqlActive, checks, index, world>>

CloseTakesRuntime(c) ==
    /\ desk[c] = "closing" /\ Free("runtime")
    /\ Take(c, "runtime") /\ Goto(c, "finishing")
    /\ UNCHANGED <<flags, reviews, evidence, index, world, mem>>

EndCheck(c) ==
    /\ desk[c] = "finishing" /\ Free("duplicates")
    /\ activePaths' = {} /\ checking' = FALSE
    /\ Release({"runtime"}) /\ Return(c)
    /\ UNCHANGED <<cleaning, mutationCancel, duplicateCancel, cancelGeneration, reviews,
                   report, moved, sqlActive, checks, index, world>>

\* The report is two minutes old.
ReportExpires ==
    /\ report # None
    /\ report' = None
    /\ UNCHANGED <<held, flags, reviews, activePaths, moved, sqlActive, checks, index,
                   world, desk, mem>>

-----------------------------------------------------------------------------
(* "execute"                                                               *)

\* begin_mutation, under both locks.
Fence(c) ==
    /\ desk[c] = "fencing" /\ Free("reviews")
    /\ Release({"runtime"})
    /\ IF Occupied
       THEN Return(c) /\ UNCHANGED <<cleaning, mutationCancel>>
       ELSE cleaning' = TRUE /\ mutationCancel' = FALSE
            /\ Goto(c, "fenced") /\ UNCHANGED mem
    /\ UNCHANGED <<checking, duplicateCancel, cancelGeneration, reviews, evidence,
                   index, world>>

DropEvidence(c) ==
    /\ desk[c] = "fenced" /\ Free("duplicates")
    /\ Invalidate(Files)
    /\ Goto(c, "consuming")
    /\ UNCHANGED <<held, flags, reviews, index, world, mem>>

\* Faulty on purpose: the cancel generation is not compared.
ConsumeOutdated(c, t) ==
    /\ desk[c] = "consuming" /\ Free("reviews")
    /\ reviews' = [reviews EXCEPT ![t] = None]
    /\ IF reviews[t] # None
       THEN Carry(c, reviews[t]) /\ Goto(c, "consumed")
       ELSE Leave(c, "ending")
    /\ UNCHANGED <<held, flags, evidence, index, world>>

\* The token is used up, whatever becomes of its review.
Consume(c, t) ==
    /\ desk[c] = "consuming" /\ Free("reviews")
    /\ reviews' = [reviews EXCEPT ![t] = None]
    /\ IF Current(reviews[t])
       THEN Carry(c, reviews[t]) /\ Goto(c, "consumed")
       ELSE Leave(c, "ending")
    /\ UNCHANGED <<held, flags, evidence, index, world>>

CheckReservations(c) ==
    /\ desk[c] = "consumed" /\ Free("reviews")
    /\ reviews' = Retained
    /\ IF mem[c].item \in Reserved(Retained) THEN Leave(c, "ending")
       ELSE Goto(c, "clean") /\ UNCHANGED mem
    /\ UNCHANGED <<held, flags, evidence, index, world>>

\* The last checks under the store lock; the row is hidden before its removal.
CleanItem(c) ==
    /\ desk[c] = "clean" /\ Free("store")
    /\ LET r == mem[c]
       IN  IF \/ mutationCancel \/ grant # r.grant \/ r.item \in kept
              \/ r.keeper # None /\ rows[r.keeper] # r.keeperRow
           THEN Leave(c, "ending") /\ UNCHANGED <<held, rows>>
           ELSE Take(c, "store") /\ Goto(c, "removing") /\ UNCHANGED mem
                /\ rows' = [rows EXCEPT ![r.item] = None]
    /\ UNCHANGED <<flags, reviews, evidence, kept, grant, world>>

\* cleanup::execute_with_duplicate_guard.  A refusal puts the item back.
Refuse(c) == Release({"store"}) /\ Leave(c, "ending")

\* The item is staged and measured again, and a copy compared with its keeper.
\* Until its last look at the flag, any step of this may end in a cancel.
Stage(c) ==
    /\ desk[c] = "removing"
    /\ LET r == mem[c]
           same == disk[r.item] = r.row /\ (r.keeper # None => disk[r.keeper] = r.keeperRow)
       IN  IF mutationCancel \/ ~same THEN Refuse(c)
           ELSE Goto(c, "staged") /\ UNCHANGED <<held, mem>>
    /\ UNCHANGED <<flags, reviews, evidence, index, world>>

\* The last of the reads of mutation_cancel, which nobody resets meanwhile: in
\* RetainedFile::validate for a copy, else before the native Trash or an unlink.
LookAtCancel(c) ==
    /\ desk[c] = "staged"
    /\ IF mutationCancel THEN Refuse(c) ELSE Goto(c, "past") /\ UNCHANGED <<held, mem>>
    /\ UNCHANGED <<flags, reviews, evidence, index, world>>

\* What is still compared after that look: a kept file, or a leaf to unlink.
CompareAgain(c) ==
    /\ desk[c] = "past"
    /\ LET r == mem[c]
       IN  \/ /\ IF r.keeper = None THEN disk[r.item] # r.row
                 ELSE disk[r.keeper] # r.keeperRow
              /\ Refuse(c) /\ overtaken' = overtaken \ {c}
           \/ /\ r.keeper # None => disk[r.keeper] = r.keeperRow
              /\ Goto(c, "unlinking") /\ UNCHANGED <<held, mem, overtaken>>
    /\ UNCHANGED <<flags, reviews, evidence, index, disk, unheard>>

\* The native Trash or the unlink: done whatever was cancelled since, or failed.
Remove(c) ==
    /\ desk[c] = "unlinking"
    /\ \/ /\ disk' = [disk EXCEPT ![mem[c].item] = None]
          /\ unheard' = unheard \ {mem[c].item}
       \/ UNCHANGED <<disk, unheard>>
    /\ overtaken' = overtaken \ {c}
    /\ Refuse(c)
    /\ UNCHANGED <<flags, reviews, evidence, index>>

EndMutation(c) ==
    /\ desk[c] = "ending" /\ Free("runtime")
    /\ cleaning' = FALSE /\ Return(c)
    /\ UNCHANGED <<held, checking, mutationCancel, duplicateCancel, cancelGeneration,
                   reviews, evidence, index, world>>

-----------------------------------------------------------------------------
(* cancel_scan and cancel_duplicates                                       *)

Cancel(c) ==
    /\ Asks(c, "cancel") /\ cancelGeneration < MaxCancels
    /\ cancelGeneration' = cancelGeneration + 1
    /\ Goto(c, "cancelled")
    /\ UNCHANGED <<held, cleaning, checking, mutationCancel, duplicateCancel, reviews,
                   evidence, index, world, mem>>

CancelMutation(c) ==
    /\ desk[c] = "cancelled"
    /\ mutationCancel' = TRUE /\ Goto(c, "stopped")
    /\ overtaken' = overtaken \cup {d \in Callers : desk[d] \in Committed}
    /\ UNCHANGED <<held, cleaning, checking, duplicateCancel, cancelGeneration, reviews,
                   evidence, index, disk, unheard, mem>>

CancelDuplicates(c) ==
    /\ desk[c] = "stopped" \/ Asks(c, "cancelDuplicates")
    /\ duplicateCancel' = TRUE /\ Goto(c, "halting")
    /\ UNCHANGED <<held, cleaning, checking, mutationCancel, cancelGeneration, reviews,
                   evidence, index, world, mem>>

CancelReport(c) ==
    /\ desk[c] = "halting" /\ Free("duplicates")
    /\ moved' = TRUE /\ report' = None
    /\ Return(c)
    /\ UNCHANGED <<held, flags, reviews, activePaths, sqlActive, checks, index, world>>

-----------------------------------------------------------------------------
(* Preferences, folders, events and the index                              *)

\* "keep" and "unkeep" hold runtime and store over the invalidation.
PreferTakesStore(c) ==
    /\ desk[c] = "preferring" /\ Free("store")
    /\ Take(c, "store") /\ Goto(c, "preferred")
    /\ UNCHANGED <<flags, reviews, evidence, index, world, mem>>

Prefer(c, f) ==
    /\ desk[c] = "preferred" /\ Free("duplicates")
    /\ kept' = IF f \in kept THEN kept \ {f} ELSE kept \cup {f}
    /\ f \in Keepable /\ (f \notin kept => rows[f] # None)
    /\ Invalidate(Files)
    /\ Release({"runtime", "store"}) /\ Return(c)
    /\ UNCHANGED <<flags, reviews, rows, grant, world>>

\* "authorize", "reauthorize", "forget": refused while anything runs.
GrantTakesReviews(c) ==
    /\ desk[c] = "granting" /\ (Occupied \/ Free("reviews"))
    /\ IF Occupied THEN Release({"runtime"}) /\ Return(c)
       ELSE Take(c, "reviews") /\ Goto(c, "replacing") /\ UNCHANGED mem
    /\ UNCHANGED <<flags, reviews, evidence, index, world>>

Grant(c) ==
    /\ desk[c] = "replacing" /\ Free("store") /\ grant < MaxGrants
    /\ grant' = grant + 1 /\ rows' = [f \in Files |-> None]
    /\ reviews' = [t \in Tokens |-> None]
    /\ Release({"reviews"}) /\ Goto(c, "replaced")
    /\ UNCHANGED <<flags, evidence, kept, world, mem>>

GrantInvalidates(c) ==
    /\ desk[c] = "replaced" /\ Free("duplicates")
    /\ Invalidate(Files)
    /\ Release({"runtime"}) /\ Return(c)
    /\ UNCHANGED <<flags, reviews, index, world>>

\* A file changes on disk (external).
Change(f) ==
    /\ disk[f] # None /\ disk[f] < MaxVersion
    /\ f \in Changing
    /\ disk' = [disk EXCEPT ![f] = @ + 1]
    /\ unheard' = unheard \cup {f}
    /\ UNCHANGED <<held, flags, reviews, evidence, index, overtaken, desk, mem>>

\* "dirty": the evidence is dropped before the event is journaled.
Hear(c, f) ==
    /\ Asks(c, "dirty") /\ Free("duplicates")
    /\ f \in unheard /\ unheard' = unheard \ {f}
    /\ Invalidate({f})
    /\ UNCHANGED <<held, flags, reviews, index, disk, overtaken, desk, mem>>

\* The discovery worker, which parks for a mutation, refreshes a row.
Index(f) ==
    /\ Free("store") /\ rows[f] # disk[f]
    /\ \A c \in Callers : desk[c] \notin {"consuming", "consumed", "clean", "ending"}
    /\ rows' = [rows EXCEPT ![f] = disk[f]]
    /\ UNCHANGED <<held, flags, reviews, evidence, kept, grant, world, desk, mem>>

-----------------------------------------------------------------------------

Prepares(c) ==
    \/ \E f \in Preparable : PrepareReads(c, f)
    \/ PrepareAdmits(c)
    \/ \E f, k \in Files : ChooseCopies(c, f, k)
    \/ CheckCopies(c) \/ ReopenReport(c) \/ Reserve(c)

Checks(c) ==
    \/ TakeRuntime(c, "check", "opening")
    \/ AdmitCheck(c) \/ BeginCheck(c) \/ ClearReport(c) \/ NoticeCancel(c)
    \/ SelectTakesStore(c) \/ QueryStarts(c) \/ QueryEnds(c) \/ RegisterFiles(c)
    \/ Analyse(c) \/ Recheck(c) \/ Publish(c) \/ CloseTakesRuntime(c) \/ EndCheck(c)

Executes(c) ==
    \/ TakeRuntime(c, "execute", "fencing")
    \/ Fence(c) \/ DropEvidence(c) \/ CheckReservations(c)
    \/ \E t \in Tokens : Consume(c, t)
    \/ CleanItem(c) \/ Stage(c) \/ LookAtCancel(c) \/ CompareAgain(c) \/ Remove(c)
    \/ EndMutation(c)

Cancels(c) == Cancel(c) \/ CancelMutation(c) \/ CancelDuplicates(c) \/ CancelReport(c)

Others(c) ==
    \/ TakeRuntime(c, "keep", "preferring")
    \/ PreferTakesStore(c)
    \/ \E f \in Files : Prefer(c, f) \/ Hear(c, f)
    \/ ~Occupied /\ TakeRuntime(c, "authorize", "granting")
    \/ GrantTakesReviews(c) \/ Grant(c) \/ GrantInvalidates(c)

Next ==
    \/ \E c \in Callers : Prepares(c) \/ Checks(c) \/ Executes(c) \/ Cancels(c) \/ Others(c)
    \/ ReportExpires
    \/ \E t \in Tokens : ReviewExpires(t)
    \/ \E f \in Files : Change(f) \/ Index(f)

Spec == Init /\ [][Next]_vars

-----------------------------------------------------------------------------
(* Properties                                                              *)

\* Reviews that can still remove something: pending ones, and the one in hand.
InHand == {c \in Callers : desk[c] \in {"clean"} \cup Removing}
Pending ==
    {reviews[t] : t \in {t \in Tokens : Current(reviews[t])}} \cup {mem[c] : c \in InHand}

\* prepare, prepare_duplicate and execute: a file that one review keeps is never
\* what another may remove, however preparations, cleanups and cancels overlap.
KeeperIsReserved == \A r, s \in Pending : r.keeper # s.item

\* A pending duplicate review promises a kept file that no cleanup has removed:
\* not between its checks and its insertion, and not since.
KeeperStands == \A r \in Pending : r.keeper # None => disk[r.keeper] # None

\* check_duplicates: "In-flight events ... invalidate the entire report".  Each
\* file of a published report is what was compared, unless its event is to come.
ReportIsFresh ==
    report # None => \A f \in report.files \ unheard : disk[f] = report.row[f]

Removed(f) == disk[f] # None /\ disk'[f] = None

\* What is removed was reviewed after every cancel that has set its flag, or was
\* past the last look at that flag when it was set.
RemovalsAreCurrent ==
    \A c \in Callers :
        desk[c] = "unlinking" /\ Removed(mem[c].item) =>
            \/ mem[c].generation = cancelGeneration
            \/ \E d \in Callers : desk[d] = "cancelled"
            \/ c \in overtaken

\* cancel_scan returned: no review prepared before it removes anything more, even
\* when its execute resets mutation_cancel in between; except the one item whose
\* execute had read the flag for the last time before the cancel set it, which no
\* lock keeps from being removed after cancel_scan has returned.
CancelIsFinal == [][RemovalsAreCurrent]_vars

\* cancel_duplicates interrupts the connection while sql_active: "it cannot
\* interrupt a later, unrelated query".
InterruptIsAimed ==
    sqlActive => \E c \in Callers : desk[c] = "reading" /\ held["store"] = c

\* prepare, prepare_duplicate, check_duplicates and execute together: the copy a
\* duplicate cleanup keeps is reserved and stands, and was compared as it is.
DuplicatesAreSafe == KeeperIsReserved /\ KeeperStands /\ ReportIsFresh

\* The mutex a caller waits for at each place.
Wants(c) ==
    CASE desk[c] \in {"prepared", "reserving", "opening", "fencing", "consuming",
                      "consumed"} -> "reviews"
      [] desk[c] \in {"chosen", "selecting", "analysed", "clean", "preferring",
                      "replacing"} -> "store"
      [] desk[c] \in {"checked", "begun", "querying", "reading", "selected",
                      "publishing", "finishing", "fenced", "halting",
                      "preferred", "replaced"} -> "duplicates"
      [] desk[c] \in {"closing", "ending"} -> "runtime"
      [] desk[c] = "granting" /\ ~Occupied -> "reviews"
      [] OTHER -> "none"

\* The four mutexes are taken in three orders that form a circle: reviews then
\* store (authorize), store then duplicate_state (keep, check_duplicates),
\* duplicate_state then reviews (prepare_duplicate).  No callers ever close it.
NoCircularWait ==
    \A S \in (SUBSET Callers) \ {{}} :
        \E c \in S : Wants(c) = "none" \/ held[Wants(c)] \notin S

\* prepare_duplicate, check_duplicates, keep, authorize, execute and
\* cancel_duplicates together: their mutexes are never waited for in a circle, and
\* an interrupt only ever hits the query it is meant for.
LocksAreSound == NoCircularWait /\ InterruptIsAimed

=============================================================================
