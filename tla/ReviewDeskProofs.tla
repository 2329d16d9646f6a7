-------------------------- MODULE ReviewDeskProofs --------------------------
(***************************************************************************)
(* Theorems about ReviewDesk for any threads, files, tokens and bounds.    *)
(* They rest on one inductive invariant, DeskInv: which place holds which  *)
(* mutex, who owns the flags, how the reports are numbered, and what is    *)
(* true of a review between the checks that were made for it, its          *)
(* admission, and the removal it allows.  The last part is about the       *)
(* comparison of the two files of a pair (StagedCopy), for any number of   *)
(* chunks and changes.                                                     *)
(***************************************************************************)
EXTENDS ReviewDesk, Sequences, FiniteSetTheorems, TLAPS

\* Where a caller holds each mutex.
HoldsRuntime == {"fencing", "opening", "admitted", "preferring", "preferred", "granting",
                 "replacing", "replaced", "finishing"}
HoldsReviews == {"admitted", "replacing"}
HoldsStore == {"querying", "reading", "publishing", "preferred"} \cup Removing
HoldsDuplicates == {"reserving"}
LocksAreHeld ==
    \A c \in Callers :
        /\ held["runtime"] = c <=> desk[c] \in HoldsRuntime
        /\ held["reviews"] = c <=> desk[c] \in HoldsReviews
        /\ held["store"] = c <=> desk[c] \in HoldsStore
        /\ held["duplicates"] = c <=> desk[c] \in HoldsDuplicates

\* Where a caller is between begin_mutation and end_mutation, and between the
\* beginning and the end of a check.
Cleans == {"fenced", "consuming", "consumed", "clean", "ending"} \cup Removing
Reports == {"selected", "analysing", "analysed", "publishing"}
Unpublished == {"begun", "cleared", "selecting", "querying", "reading"} \cup Reports
Compares == Unpublished \cup {"closing", "finishing"}
FlagsAreOwned ==
    /\ \A c \in Callers :
        /\ desk[c] \in Cleans => cleaning
        /\ desk[c] \in Compares => checking
        /\ desk[c] \in {"admitted", "replacing"} => ~Occupied
    /\ \A c, d \in Callers :
        desk[c] \in Cleans \cup Compares /\ desk[d] \in Cleans \cup Compares => c = d

\* Reports are numbered by their checks: one that is being made is newer than
\* every report that a choice was made from.
TokensAreOrdered ==
    /\ report # None => report.token <= checks
    /\ \A c \in Callers :
        /\ desk[c] \in {"chosen", "checked"} => mem[c].token <= checks
        /\ desk[c] \in Reports => mem[c].token = checks
        /\ desk[c] \in Unpublished =>
            /\ report # None => report.token < checks
            /\ \A d \in Callers : desk[d] \in {"chosen", "checked"} => mem[d].token < checks

\* What can still remove a file: a current review, or one that is being executed.
InExecution == {c \in Callers : desk[c] \in {"consumed", "clean"} \cup Removing}
Standing ==
    {reviews[t] : t \in {t \in Tokens : Current(reviews[t])}}
        \cup {mem[c] : c \in InExecution}
GenerationsAreReached ==
    \A t \in Tokens : reviews[t] # None => reviews[t].generation <= cancelGeneration
ReviewsAgree == \A r, s \in Standing : r.keeper # s.item

\* A cleanup has dropped the report before it consumes its review, so a review
\* that is about to be admitted was not chosen from one the cleanup overlaps.
EvidenceIsDropped ==
    \A c \in Callers :
        desk[c] \in Cleans \ {"fenced"} =>
            report = None /\ \A d \in Callers : desk[d] # "reserving"
KeepersStand == \A r \in Standing : r.keeper # None => disk[r.keeper] # None
ChosenStand ==
    \A c \in Callers :
        /\ desk[c] = "reserving" => disk[mem[c].keeper] # None
        /\ desk[c] = "checked" /\ report # None /\ report.token = mem[c].token =>
            disk[mem[c].review.keeper] # None

\* The files of a check are registered from its selection on, so that a change
\* after their comparison is either still to be heard or has moved the generation.
ComparedIsRegistered ==
    \A c \in Callers :
        /\ desk[c] \in {"analysing", "analysed", "publishing"} =>
            mem[c].files \subseteq activePaths
        /\ desk[c] \in {"analysed", "publishing"} /\ ~moved =>
            \A f \in mem[c].files \ unheard : disk[f] = mem[c].row[f]

\* A review in execution is from after the last cancel, unless that cancel has
\* been seen, or is about to be.
CancelReaches ==
    \A c \in InExecution :
        \/ mem[c].generation = cancelGeneration \/ mutationCancel
        \/ \E d \in Callers : desk[d] = "cancelled"

\* Past its last look at the flag, an execute is current, or a cancel has overtaken
\* it there, or is about to.
CommitsAreCurrent ==
    \A c \in Callers : desk[c] \in Committed =>
        \/ mem[c].generation = cancelGeneration
        \/ \E d \in Callers : desk[d] = "cancelled"
        \/ c \in overtaken

DeskInv ==
    /\ TypeOK /\ LocksAreHeld /\ FlagsAreOwned /\ TokensAreOrdered /\ InterruptIsAimed
    /\ GenerationsAreReached /\ ReviewsAgree /\ EvidenceIsDropped
    /\ KeepersStand /\ ChosenStand
    /\ ComparedIsRegistered /\ ReportIsFresh /\ CancelReaches
    /\ CommitsAreCurrent

-----------------------------------------------------------------------------
(* The records a caller carries, and the admission of a review               *)

\* A review drawn from rows that exist is a review of the kept file it names.
LEMMA DraftTyped ==
    ASSUME DeskAssumption, NEW f \in Files, NEW k \in Files \cup {None}, k # f,
           NEW r \in [Files -> Versions \cup {None}], r[f] # None,
           k # None => r[k] # None, NEW g \in 0..MaxGrants
    PROVE  Draft(f, k, r, g) \in Review /\ Draft(f, k, r, g).keeper = k
<1> USE DEF DeskAssumption, Versions
<1>1. r[f] \in Versions /\ (k # None => r[k] \in Versions) /\ 0 \in 0..MaxCancels
    OBVIOUS
<1> QED  BY <1>1 DEF Draft, Review

\* Its admission only gives it the generation it is admitted in.
LEMMA RenewedTyped ==
    ASSUME NEW r \in Review, NEW n \in 0..MaxCancels
    PROVE  /\ [r EXCEPT !.generation = n] \in Review
           /\ [r EXCEPT !.generation = n].generation = n
           /\ [r EXCEPT !.generation = n].item = r.item
           /\ [r EXCEPT !.generation = n].keeper = r.keeper
    BY DEF Review

\* What an admission retains are the reviews no cancel came after.
LEMMA RetainedIsCurrent ==
    ASSUME ReviewsTyped
    PROVE  /\ Retained \in [Tokens -> Review \cup {None}]
           /\ \A t \in Tokens : Retained[t] # None =>
                Retained[t] = reviews[t] /\ Current(reviews[t])
           /\ \A t \in Tokens : Current(reviews[t]) => Retained[t] = reviews[t]
    BY DEF ReviewsTyped, Retained

\* admit_review leaves the reviews, or only retains, or adds the one it was
\* given, which conflicts with none that is retained, while nothing is cleaned
\* or checked.
LEMMA AdmitsOne ==
    ASSUME FlagsTyped, ReviewsTyped, NEW c \in Callers, mem[c] \in Review, Admits(c)
    PROVE  \/ reviews' = reviews \/ reviews' = Retained
           \/ /\ ~Occupied
              /\ \E r \in Review, t \in Tokens :
                    /\ reviews' = [Retained EXCEPT ![t] = r]
                    /\ r.generation = cancelGeneration
                    /\ r.item = mem[c].item /\ r.keeper = mem[c].keeper
                    /\ ~Conflicts(Retained, r)
<1> DEFINE r == [mem[c] EXCEPT !.generation = cancelGeneration]
<1>1. /\ r \in Review /\ r.generation = cancelGeneration
      /\ r.item = mem[c].item /\ r.keeper = mem[c].keeper
    BY RenewedTyped DEF FlagsTyped
<1>2. ASSUME ~(\A t \in Tokens : Retained[t] # None) PROVE NewToken \in Tokens
    BY <1>2 DEF NewToken
<1>3. CASE ~Occupied /\ ~(\A t \in Tokens : Retained[t] # None) /\ ~Conflicts(Retained, r)
    <2>1. reviews' = [Retained EXCEPT ![NewToken] = r]
        BY <1>3 DEF Admits
    <2> QED  BY <1>1, <1>2, <1>3, <2>1
<1> QED  BY <1>3 DEF Admits

\* duplicates::analyze narrows a selection to the files that are as their rows.
LEMMA NarrowedTyped ==
    ASSUME NEW p \in Report, NEW S \in SUBSET p.files, S # {}
    PROVE  [p EXCEPT !.files = S] \in Published /\ [p EXCEPT !.files = S].files = S
           /\ [p EXCEPT !.files = S].row = p.row /\ [p EXCEPT !.files = S].token = p.token
    BY DEF Report, Published

\* duplicate_inputs selects rows that exist.
LEMMA DrawnTyped ==
    ASSUME EvidenceTyped, IndexTyped
    PROVE  [files |-> {f \in Files : rows[f] # None}, row |-> rows, protected |-> kept,
            grant |-> grant, token |-> checks] \in Report
    BY DEF EvidenceTyped, IndexTyped, Report

\* What Conflicts lets pass keeps nothing another review may remove, and
\* removes nothing another keeps.
LEMMA Undisputed ==
    ASSUME DeskAssumption, ReviewsTyped, NEW r \in Review, NEW s \in Review, NEW t \in Tokens,
           s = Retained[t], s # None, ~Conflicts(Retained, r)
    PROVE  r.keeper # s.item /\ s.keeper # r.item
<1>1. s.item \in Reviewed(Retained) /\ s.keeper \in Reserved(Retained) \cup {None}
    BY DEF Reviewed, Reserved
<1>2. r.item # None /\ s.item # None
    BY DEF Review, DeskAssumption
<1> QED  BY <1>1, <1>2 DEF Conflicts

-----------------------------------------------------------------------------
(* Types                                                                    *)

\* A mutex is held by a caller or by nobody.
LEMMA HeldStep ==
    ASSUME DeskAssumption, HeldTyped, [Next]_vars
    PROVE  HeldTyped'
<1> USE DEF DeskAssumption, HeldTyped, Locks, Free, Take, Release, Goto, Leave, Return,
            Asks, flags, evidence, index, world
<1>1. ASSUME NEW c \in Callers, Prepares(c) PROVE HeldTyped'
    BY <1>1 DEF Prepares, PrepareReads, ChooseCopies, PrepareAdmits, CheckCopies,
       ReopenReport, Reserve
<1>2. ASSUME NEW c \in Callers, Checks(c) PROVE HeldTyped'
    BY <1>2 DEF Checks, TakeRuntime, AdmitCheck, BeginCheck, ClearReport, NoticeCancel,
       SelectTakesStore, QueryStarts, QueryEnds, RegisterFiles, Analyse, Recheck,
       Publish, CloseTakesRuntime, EndCheck
<1>3. ASSUME NEW c \in Callers, Executes(c) PROVE HeldTyped'
    BY <1>3 DEF Executes, TakeRuntime, Fence, DropEvidence, Consume, CheckReservations,
       CleanItem, Refuse, Stage, LookAtCancel, CompareAgain, Remove, EndMutation
<1>4. ASSUME NEW c \in Callers, Cancels(c) PROVE HeldTyped'
    BY <1>4 DEF Cancels, Cancel, CancelMutation, CancelDuplicates, CancelReport
<1>5. ASSUME NEW c \in Callers, Others(c) PROVE HeldTyped'
    <2>1. ASSUME NEW f \in Files, Prefer(c, f) \/ Hear(c, f)
          PROVE  HeldTyped'
        BY <2>1 DEF Prefer, Hear
    <2>2. ASSUME TakeRuntime(c, "keep", "preferring") \/ TakeRuntime(c, "authorize", "granting") \/ PreferTakesStore(c)
          PROVE  HeldTyped'
        BY <2>2 DEF TakeRuntime, PreferTakesStore
    <2>3. ASSUME GrantTakesReviews(c) \/ Grant(c) \/ GrantInvalidates(c)
          PROVE  HeldTyped'
        BY <2>3 DEF GrantTakesReviews, Grant, GrantInvalidates
    <2> QED  BY <1>5, <2>1, <2>2, <2>3 DEF Others
<1>6. ASSUME ReportExpires PROVE HeldTyped'
    BY <1>6 DEF ReportExpires
<1>7. ASSUME NEW t \in Tokens, ReviewExpires(t) PROVE HeldTyped'
    BY <1>7 DEF ReviewExpires
<1>8. ASSUME NEW f \in Files, Change(f) \/ Index(f) PROVE HeldTyped'
    BY <1>8 DEF Change, Index
<1>9. ASSUME UNCHANGED vars PROVE HeldTyped'
    BY <1>9 DEF vars
<1> QED  BY <1>1, <1>2, <1>3, <1>4, <1>5, <1>6, <1>7, <1>8, <1>9 DEF Next

\* The flags are flags, and the cancels are counted up to their bound.
LEMMA FlagsTypedStep ==
    ASSUME FlagsTyped, DeskAssumption, [Next]_vars
    PROVE  FlagsTyped'
<1> USE DEF FlagsTyped, DeskAssumption, Free, Take, Release, Goto, Leave, Return, Asks,
            flags, evidence, index, world
<1>1. ASSUME NEW c \in Callers, Prepares(c) PROVE FlagsTyped'
    BY <1>1 DEF Prepares, PrepareReads, ChooseCopies, PrepareAdmits, CheckCopies,
       ReopenReport, Reserve
<1>2. ASSUME NEW c \in Callers, Checks(c) PROVE FlagsTyped'
    BY <1>2 DEF Checks, TakeRuntime, AdmitCheck, BeginCheck, ClearReport, NoticeCancel,
       SelectTakesStore, QueryStarts, QueryEnds, RegisterFiles, Analyse, Recheck,
       Publish, CloseTakesRuntime, EndCheck
<1>3. ASSUME NEW c \in Callers, Executes(c) PROVE FlagsTyped'
    BY <1>3 DEF Executes, TakeRuntime, Fence, DropEvidence, Consume, CheckReservations,
       CleanItem, Refuse, Stage, LookAtCancel, CompareAgain, Remove, EndMutation
<1>4. ASSUME NEW c \in Callers, Cancels(c) PROVE FlagsTyped'
    <2>1. ASSUME Cancel(c)
          PROVE  FlagsTyped'
        BY <2>1 DEF Cancel
    <2>2. ASSUME CancelMutation(c) \/ CancelDuplicates(c) \/ CancelReport(c)
          PROVE  FlagsTyped'
        BY <2>2 DEF CancelMutation, CancelDuplicates, CancelReport
    <2> QED  BY <1>4, <2>1, <2>2 DEF Cancels
<1>5. ASSUME NEW c \in Callers, Others(c) PROVE FlagsTyped'
    BY <1>5 DEF Others, Prefer, Hear, TakeRuntime, PreferTakesStore, GrantTakesReviews,
       Grant, GrantInvalidates
<1>6. ASSUME ReportExpires PROVE FlagsTyped'
    BY <1>6 DEF ReportExpires
<1>7. ASSUME NEW t \in Tokens, ReviewExpires(t) PROVE FlagsTyped'
    BY <1>7 DEF ReviewExpires
<1>8. ASSUME NEW f \in Files, Change(f) \/ Index(f) PROVE FlagsTyped'
    BY <1>8 DEF Change, Index
<1>9. ASSUME UNCHANGED vars PROVE FlagsTyped'
    BY <1>9 DEF vars
<1> QED  BY <1>1, <1>2, <1>3, <1>4, <1>5, <1>6, <1>7, <1>8, <1>9 DEF Next

\* A pending review is one that was drawn from rows.
LEMMA ReviewsTypedStep ==
    ASSUME DeskAssumption, CarriedTyped, FlagsTyped, ReviewsTyped, [Next]_vars
    PROVE  ReviewsTyped'
<1> USE DEF DeskAssumption, CarriedTyped, FlagsTyped, ReviewsTyped, CopyReview, Free,
            Take, Release, Goto, Leave, Return, Asks, flags, evidence, index, world
<1>1. ASSUME NEW c \in Callers, Prepares(c) PROVE ReviewsTyped'
    <2>1. ASSUME NEW f \in Files, PrepareReads(c, f)
          PROVE  ReviewsTyped'
        BY <2>1 DEF PrepareReads
    <2>2. ASSUME NEW f \in Files, NEW k \in Files, ChooseCopies(c, f, k)
          PROVE  ReviewsTyped'
        BY <2>2 DEF ChooseCopies
    <2>3. ASSUME PrepareAdmits(c) \/ CheckCopies(c)
          PROVE  ReviewsTyped'
        BY <2>3, AdmitsOne, RetainedIsCurrent DEF PrepareAdmits, CheckCopies
    <2>4. ASSUME ReopenReport(c) \/ Reserve(c)
          PROVE  ReviewsTyped'
        BY <2>4, AdmitsOne, RetainedIsCurrent DEF ReopenReport, Reserve
    <2> QED  BY <1>1, <2>1, <2>2, <2>3, <2>4 DEF Prepares
<1>2. ASSUME NEW c \in Callers, Checks(c) PROVE ReviewsTyped'
    BY <1>2 DEF Checks, TakeRuntime, AdmitCheck, BeginCheck, ClearReport, NoticeCancel,
       SelectTakesStore, QueryStarts, QueryEnds, RegisterFiles, Analyse, Recheck,
       Publish, CloseTakesRuntime, EndCheck
<1>3. ASSUME NEW c \in Callers, Executes(c) PROVE ReviewsTyped'
    BY <1>3, RetainedIsCurrent DEF Executes, TakeRuntime, Fence, DropEvidence, Consume,
       CheckReservations,
       CleanItem, Refuse, Stage, LookAtCancel, CompareAgain, Remove, EndMutation
<1>4. ASSUME NEW c \in Callers, Cancels(c) PROVE ReviewsTyped'
    BY <1>4 DEF Cancels, Cancel, CancelMutation, CancelDuplicates, CancelReport
<1>5. ASSUME NEW c \in Callers, Others(c) PROVE ReviewsTyped'
    BY <1>5 DEF Others, Prefer, Hear, TakeRuntime, PreferTakesStore, GrantTakesReviews,
       Grant, GrantInvalidates
<1>6. ASSUME ReportExpires PROVE ReviewsTyped'
    BY <1>6 DEF ReportExpires
<1>7. ASSUME NEW t \in Tokens, ReviewExpires(t) PROVE ReviewsTyped'
    BY <1>7 DEF ReviewExpires
<1>8. ASSUME NEW f \in Files, Change(f) \/ Index(f) PROVE ReviewsTyped'
    BY <1>8 DEF Change, Index
<1>9. ASSUME UNCHANGED vars PROVE ReviewsTyped'
    BY <1>9 DEF vars
<1> QED  BY <1>1, <1>2, <1>3, <1>4, <1>5, <1>6, <1>7, <1>8, <1>9 DEF Next

\* A report compares files whose rows exist, and at least one.
LEMMA EvidenceTypedStep ==
    ASSUME DeskAssumption, CarriedTyped, EvidenceTyped, [Next]_vars
    PROVE  EvidenceTyped'
<1> USE DEF DeskAssumption, CarriedTyped, EvidenceTyped, Invalidate, Report, Published,
            Free, Take, Release, Goto, Leave, Return, Asks, flags, evidence, index,
            world
<1>1. ASSUME NEW c \in Callers, Prepares(c) PROVE EvidenceTyped'
    BY <1>1 DEF Prepares, PrepareReads, ChooseCopies, PrepareAdmits, CheckCopies,
       ReopenReport, Reserve
<1>2. ASSUME NEW c \in Callers, Checks(c) PROVE EvidenceTyped'
    <2>1. ASSUME TakeRuntime(c, "check", "opening") \/ AdmitCheck(c) \/ BeginCheck(c)
          PROVE  EvidenceTyped'
        BY <2>1 DEF TakeRuntime, AdmitCheck, BeginCheck
    <2>2. ASSUME ClearReport(c) \/ NoticeCancel(c)
          PROVE  EvidenceTyped'
        BY <2>2 DEF ClearReport, NoticeCancel
    <2>3. ASSUME SelectTakesStore(c) \/ QueryStarts(c)
          PROVE  EvidenceTyped'
        BY <2>3 DEF SelectTakesStore, QueryStarts
    <2>4. ASSUME QueryEnds(c) \/ RegisterFiles(c)
          PROVE  EvidenceTyped'
        BY <2>4 DEF QueryEnds, RegisterFiles
    <2>5. ASSUME Analyse(c) \/ Recheck(c)
          PROVE  EvidenceTyped'
        BY <2>5 DEF Analyse, Recheck
    <2>6. ASSUME Publish(c) \/ CloseTakesRuntime(c) \/ EndCheck(c)
          PROVE  EvidenceTyped'
        BY <2>6 DEF Publish, CloseTakesRuntime, EndCheck
    <2> QED  BY <1>2, <2>1, <2>2, <2>3, <2>4, <2>5, <2>6 DEF Checks
<1>3. ASSUME NEW c \in Callers, Executes(c) PROVE EvidenceTyped'
    BY <1>3 DEF Executes, TakeRuntime, Fence, DropEvidence, Consume, CheckReservations,
       CleanItem, Refuse, Stage, LookAtCancel, CompareAgain, Remove, EndMutation
<1>4. ASSUME NEW c \in Callers, Cancels(c) PROVE EvidenceTyped'
    BY <1>4 DEF Cancels, Cancel, CancelMutation, CancelDuplicates, CancelReport
<1>5. ASSUME NEW c \in Callers, Others(c) PROVE EvidenceTyped'
    BY <1>5 DEF Others, Prefer, Hear, TakeRuntime, PreferTakesStore, GrantTakesReviews,
       Grant, GrantInvalidates
<1>6. ASSUME ReportExpires PROVE EvidenceTyped'
    BY <1>6 DEF ReportExpires
<1>7. ASSUME NEW t \in Tokens, ReviewExpires(t) PROVE EvidenceTyped'
    BY <1>7 DEF ReviewExpires
<1>8. ASSUME NEW f \in Files, Change(f) \/ Index(f) PROVE EvidenceTyped'
    BY <1>8 DEF Change, Index
<1>9. ASSUME UNCHANGED vars PROVE EvidenceTyped'
    BY <1>9 DEF vars
<1> QED  BY <1>1, <1>2, <1>3, <1>4, <1>5, <1>6, <1>7, <1>8, <1>9 DEF Next

\* A row is what some version of its file was.
LEMMA IndexTypedStep ==
    ASSUME DeskAssumption, IndexTyped, WorldTyped, [Next]_vars
    PROVE  IndexTyped'
<1> USE DEF DeskAssumption, IndexTyped, WorldTyped, Versions, Free, Take, Release, Goto,
            Leave, Return, Asks, flags, evidence, index, world
<1>1. ASSUME NEW c \in Callers, Prepares(c) PROVE IndexTyped'
    BY <1>1 DEF Prepares, PrepareReads, ChooseCopies, PrepareAdmits, CheckCopies,
       ReopenReport, Reserve
<1>2. ASSUME NEW c \in Callers, Checks(c) PROVE IndexTyped'
    BY <1>2 DEF Checks, TakeRuntime, AdmitCheck, BeginCheck, ClearReport, NoticeCancel,
       SelectTakesStore, QueryStarts, QueryEnds, RegisterFiles, Analyse, Recheck,
       Publish, CloseTakesRuntime, EndCheck
<1>3. ASSUME NEW c \in Callers, Executes(c) PROVE IndexTyped'
    BY <1>3 DEF Executes, TakeRuntime, Fence, DropEvidence, Consume, CheckReservations,
       CleanItem, Refuse, Stage, LookAtCancel, CompareAgain, Remove, EndMutation
<1>4. ASSUME NEW c \in Callers, Cancels(c) PROVE IndexTyped'
    BY <1>4 DEF Cancels, Cancel, CancelMutation, CancelDuplicates, CancelReport
<1>5. ASSUME NEW c \in Callers, Others(c) PROVE IndexTyped'
    <2>1. ASSUME NEW f \in Files, Prefer(c, f) \/ Hear(c, f)
          PROVE  IndexTyped'
        BY <2>1 DEF Prefer, Hear
    <2>2. ASSUME TakeRuntime(c, "keep", "preferring") \/ TakeRuntime(c, "authorize", "granting") \/ PreferTakesStore(c)
          PROVE  IndexTyped'
        BY <2>2 DEF TakeRuntime, PreferTakesStore
    <2>3. ASSUME GrantTakesReviews(c) \/ Grant(c) \/ GrantInvalidates(c)
          PROVE  IndexTyped'
        BY <2>3 DEF GrantTakesReviews, Grant, GrantInvalidates
    <2> QED  BY <1>5, <2>1, <2>2, <2>3 DEF Others
<1>6. ASSUME ReportExpires PROVE IndexTyped'
    BY <1>6 DEF ReportExpires
<1>7. ASSUME NEW t \in Tokens, ReviewExpires(t) PROVE IndexTyped'
    BY <1>7 DEF ReviewExpires
<1>8. ASSUME NEW f \in Files, Change(f) \/ Index(f) PROVE IndexTyped'
    BY <1>8 DEF Change, Index
<1>9. ASSUME UNCHANGED vars PROVE IndexTyped'
    BY <1>9 DEF vars
<1> QED  BY <1>1, <1>2, <1>3, <1>4, <1>5, <1>6, <1>7, <1>8, <1>9 DEF Next

\* A file that is changed is still there.
LEMMA WorldTypedStep ==
    ASSUME DeskAssumption, WorldTyped, [Next]_vars
    PROVE  WorldTyped'
<1> USE DEF DeskAssumption, WorldTyped, Versions, Free, Take, Release, Goto, Leave,
            Return, Asks, flags, evidence, index, world
<1>1. ASSUME NEW c \in Callers, Prepares(c) PROVE WorldTyped'
    BY <1>1 DEF Prepares, PrepareReads, ChooseCopies, PrepareAdmits, CheckCopies,
       ReopenReport, Reserve
<1>2. ASSUME NEW c \in Callers, Checks(c) PROVE WorldTyped'
    BY <1>2 DEF Checks, TakeRuntime, AdmitCheck, BeginCheck, ClearReport, NoticeCancel,
       SelectTakesStore, QueryStarts, QueryEnds, RegisterFiles, Analyse, Recheck,
       Publish, CloseTakesRuntime, EndCheck
<1>3. ASSUME NEW c \in Callers, Executes(c) PROVE WorldTyped'
    BY <1>3 DEF Executes, TakeRuntime, Fence, DropEvidence, Consume, CheckReservations,
       CleanItem, Refuse, Stage, LookAtCancel, CompareAgain, Remove, EndMutation
<1>4. ASSUME NEW c \in Callers, Cancels(c) PROVE WorldTyped'
    BY <1>4 DEF Cancels, Cancel, CancelMutation, CancelDuplicates, CancelReport
<1>5. ASSUME NEW c \in Callers, Others(c) PROVE WorldTyped'
    BY <1>5 DEF Others, Prefer, Hear, TakeRuntime, PreferTakesStore, GrantTakesReviews,
       Grant, GrantInvalidates
<1>6. ASSUME ReportExpires PROVE WorldTyped'
    BY <1>6 DEF ReportExpires
<1>7. ASSUME NEW t \in Tokens, ReviewExpires(t) PROVE WorldTyped'
    BY <1>7 DEF ReviewExpires
<1>8. ASSUME NEW f \in Files, Change(f) \/ Index(f) PROVE WorldTyped'
    BY <1>8 DEF Change, Index
<1>9. ASSUME UNCHANGED vars PROVE WorldTyped'
    BY <1>9 DEF vars
<1> QED  BY <1>1, <1>2, <1>3, <1>4, <1>5, <1>6, <1>7, <1>8, <1>9 DEF Next

\* At each place a caller carries what the next section reads.
LEMMA CarriedStep ==
    ASSUME DeskAssumption, CarriedTyped, FlagsTyped, ReviewsTyped, EvidenceTyped,
           IndexTyped, [Next]_vars
    PROVE  CarriedTyped'
<1> USE DEF DeskAssumption, CarriedTyped, Places, Removing, Carry, Free, Take, Release, Goto,
            Leave, Return, Asks, flags, evidence, index, world
<1>1. ASSUME NEW c \in Callers, Prepares(c) PROVE CarriedTyped'
    <2>1. ASSUME NEW f \in Files, PrepareReads(c, f)
          PROVE  CarriedTyped'
        <3>1. Draft(f, None, rows, grant) \in Review \ CopyReview
            BY <2>1, DraftTyped DEF PrepareReads, DeskAssumption, IndexTyped, CopyReview
        <3> DEFINE r == Draft(f, None, rows, grant)
        <3>2. mem' = [mem EXCEPT ![c] = r] /\ desk' = [desk EXCEPT ![c] = "prepared"]
            BY <2>1 DEF PrepareReads
        <3> HIDE DEF r
        <3> QED  BY <3>1, <3>2 DEF r
    <2>2. ASSUME NEW f \in Files, NEW k \in Files, ChooseCopies(c, f, k)
          PROVE  CarriedTyped'
        <3> DEFINE r == Draft(f, k, report.row, report.grant)
                   m == [review |-> r, token |-> report.token]
        <3>1. report \in Report /\ {f, k} \subseteq report.files /\ f # k
            BY <2>2 DEF ChooseCopies, EvidenceTyped, Published
        <3>2. r \in CopyReview
            BY <3>1, DraftTyped DEF Report, DeskAssumption, CopyReview
        <3>3. m \in [review : CopyReview, token : 0..MaxChecks]
            BY <3>1, <3>2 DEF Report
        <3>4. mem' = [mem EXCEPT ![c] = m] /\ desk' = [desk EXCEPT ![c] = "chosen"]
            BY <2>2 DEF ChooseCopies
        <3> HIDE DEF m
        <3> QED  BY <3>3, <3>4
    <2>3. ASSUME PrepareAdmits(c) \/ CheckCopies(c)
          PROVE  CarriedTyped'
        BY <2>3 DEF PrepareAdmits, CheckCopies
    <2>4. ASSUME ReopenReport(c) \/ Reserve(c)
          PROVE  CarriedTyped'
        BY <2>4 DEF ReopenReport, Reserve
    <2> QED  BY <1>1, <2>1, <2>2, <2>3, <2>4 DEF Prepares
<1>2. ASSUME NEW c \in Callers, Checks(c) PROVE CarriedTyped'
    <2>1. ASSUME TakeRuntime(c, "check", "opening") \/ AdmitCheck(c) \/ BeginCheck(c)
          PROVE  CarriedTyped'
        BY <2>1 DEF TakeRuntime, AdmitCheck, BeginCheck, FlagsTyped
    <2>2. ASSUME ClearReport(c) \/ NoticeCancel(c)
          PROVE  CarriedTyped'
        BY <2>2 DEF ClearReport, NoticeCancel
    <2>3. ASSUME SelectTakesStore(c) \/ QueryStarts(c)
          PROVE  CarriedTyped'
        BY <2>3 DEF SelectTakesStore, QueryStarts
    <2>4. ASSUME QueryEnds(c) \/ RegisterFiles(c)
          PROVE  CarriedTyped'
        <3>1. CASE QueryEnds(c)
            <4> DEFINE p == [files |-> {f \in Files : rows[f] # None}, row |-> rows,
                             protected |-> kept, grant |-> grant, token |-> checks]
            <4>1. p \in Report
                BY DrawnTyped
            <4>2. \/ mem' = [mem EXCEPT ![c] = p] /\ desk' = [desk EXCEPT ![c] = "selected"]
                  \/ mem' = mem /\ desk' = [desk EXCEPT ![c] = "closing"]
                BY <3>1 DEF QueryEnds
            <4> HIDE DEF p
            <4> QED  BY <4>1, <4>2
        <3>2. CASE RegisterFiles(c)
            BY <3>2 DEF RegisterFiles
        <3> QED  BY <2>4, <3>1, <3>2
    <2>5. ASSUME Analyse(c) \/ Recheck(c)
          PROVE  CarriedTyped'
        <3>1. CASE Analyse(c)
            <4> DEFINE same == {f \in mem[c].files : disk[f] = mem[c].row[f]}
                       p == [mem[c] EXCEPT !.files = same]
            <4>1. CASE Cardinality(same) > 1
                <5>1. same # {}
                    BY ONLY <4>1, FS_EmptySet, ~(0 > 1)
                <5>2. mem[c] \in Report
                    BY <3>1 DEF Analyse
                <5>3. p \in Published
                    BY <5>1, <5>2, NarrowedTyped
                <5>4. mem' = [mem EXCEPT ![c] = p] /\ desk' = [desk EXCEPT ![c] = "analysed"]
                    BY <3>1, <4>1 DEF Analyse
                <5> HIDE DEF p
                <5> QED  BY <5>3, <5>4
            <4>2. CASE ~(Cardinality(same) > 1)
                <5>1. Leave(c, "closing")
                    BY <3>1, <4>2, Zenon DEF Analyse
                <5> QED  BY <3>1, <5>1
            <4> QED  BY <4>1, <4>2
        <3>2. CASE Recheck(c)
            BY <3>2 DEF Recheck
        <3> QED  BY <2>5, <3>1, <3>2
    <2>6. ASSUME Publish(c) \/ CloseTakesRuntime(c) \/ EndCheck(c)
          PROVE  CarriedTyped'
        BY <2>6 DEF Publish, CloseTakesRuntime, EndCheck
    <2> QED  BY <1>2, <2>1, <2>2, <2>3, <2>4, <2>5, <2>6 DEF Checks
<1>3. ASSUME NEW c \in Callers, Executes(c) PROVE CarriedTyped'
    BY <1>3 DEF Executes, TakeRuntime, Fence, DropEvidence, Consume, Current,
       ReviewsTyped, CheckReservations,
       CleanItem, Refuse, Stage, LookAtCancel, CompareAgain, Remove, EndMutation
<1>4. ASSUME NEW c \in Callers, Cancels(c) PROVE CarriedTyped'
    BY <1>4 DEF Cancels, Cancel, CancelMutation, CancelDuplicates, CancelReport
<1>5. ASSUME NEW c \in Callers, Others(c) PROVE CarriedTyped'
    <2>1. ASSUME NEW f \in Files, Prefer(c, f) \/ Hear(c, f)
          PROVE  CarriedTyped'
        BY <2>1 DEF Prefer, Hear
    <2>2. ASSUME TakeRuntime(c, "keep", "preferring") \/ TakeRuntime(c, "authorize", "granting") \/ PreferTakesStore(c)
          PROVE  CarriedTyped'
        BY <2>2 DEF TakeRuntime, PreferTakesStore
    <2>3. ASSUME GrantTakesReviews(c) \/ Grant(c) \/ GrantInvalidates(c)
          PROVE  CarriedTyped'
        BY <2>3 DEF GrantTakesReviews, Grant, GrantInvalidates
    <2> QED  BY <1>5, <2>1, <2>2, <2>3 DEF Others
<1>6. ASSUME ReportExpires PROVE CarriedTyped'
    BY <1>6 DEF ReportExpires
<1>7. ASSUME NEW t \in Tokens, ReviewExpires(t) PROVE CarriedTyped'
    BY <1>7 DEF ReviewExpires
<1>8. ASSUME NEW f \in Files, Change(f) \/ Index(f) PROVE CarriedTyped'
    BY <1>8 DEF Change, Index
<1>9. ASSUME UNCHANGED vars PROVE CarriedTyped'
    BY <1>9 DEF vars
<1> QED  BY <1>1, <1>2, <1>3, <1>4, <1>5, <1>6, <1>7, <1>8, <1>9 DEF Next

-----------------------------------------------------------------------------
(* Mutexes and flags                                                        *)

\* Who holds a mutex is told by the places alone.
LEMMA LocksStep ==
    ASSUME DeskAssumption, HeldTyped, CarriedTyped, LocksAreHeld, [Next]_vars
    PROVE  LocksAreHeld'
<1> USE DEF DeskAssumption, HeldTyped, CarriedTyped, LocksAreHeld, HoldsRuntime,
            HoldsReviews, HoldsStore, HoldsDuplicates, Locks, Places, Removing, Free, Take,
            Release, Goto, Leave, Return, Asks, flags, evidence, index, world
<1>1. ASSUME NEW c \in Callers, Prepares(c) PROVE LocksAreHeld'
    <2>1. ASSUME NEW f \in Files, PrepareReads(c, f)
          PROVE  LocksAreHeld'
        BY <2>1 DEF PrepareReads
    <2>2. ASSUME NEW f \in Files, NEW k \in Files, ChooseCopies(c, f, k)
          PROVE  LocksAreHeld'
        BY <2>2 DEF ChooseCopies
    <2>3. ASSUME PrepareAdmits(c) \/ CheckCopies(c)
          PROVE  LocksAreHeld'
        BY <2>3 DEF PrepareAdmits, CheckCopies
    <2>4. ASSUME ReopenReport(c) \/ Reserve(c)
          PROVE  LocksAreHeld'
        BY <2>4 DEF ReopenReport, Reserve
    <2> QED  BY <1>1, <2>1, <2>2, <2>3, <2>4 DEF Prepares
<1>2. ASSUME NEW c \in Callers, Checks(c) PROVE LocksAreHeld'
    BY <1>2 DEF Checks, TakeRuntime, AdmitCheck, BeginCheck, ClearReport, NoticeCancel,
       SelectTakesStore, QueryStarts, QueryEnds, RegisterFiles, Analyse, Recheck,
       Publish, CloseTakesRuntime, EndCheck
<1>3. ASSUME NEW c \in Callers, Executes(c) PROVE LocksAreHeld'
    BY <1>3 DEF Executes, TakeRuntime, Fence, DropEvidence, Consume, CheckReservations,
       CleanItem, Refuse, Stage, LookAtCancel, CompareAgain, Remove, EndMutation
<1>4. ASSUME NEW c \in Callers, Cancels(c) PROVE LocksAreHeld'
    BY <1>4 DEF Cancels, Cancel, CancelMutation, CancelDuplicates, CancelReport
<1>5. ASSUME NEW c \in Callers, Others(c) PROVE LocksAreHeld'
    <2>1. ASSUME NEW f \in Files, Prefer(c, f) \/ Hear(c, f)
          PROVE  LocksAreHeld'
        BY <2>1 DEF Prefer, Hear
    <2>2. ASSUME TakeRuntime(c, "keep", "preferring") \/ TakeRuntime(c, "authorize", "granting") \/ PreferTakesStore(c)
          PROVE  LocksAreHeld'
        BY <2>2 DEF TakeRuntime, PreferTakesStore
    <2>3. ASSUME GrantTakesReviews(c) \/ Grant(c) \/ GrantInvalidates(c)
          PROVE  LocksAreHeld'
        BY <2>3 DEF GrantTakesReviews, Grant, GrantInvalidates
    <2> QED  BY <1>5, <2>1, <2>2, <2>3 DEF Others
<1>6. ASSUME UNCHANGED <<held, desk>> PROVE LocksAreHeld'
    BY <1>6
<1>7. ASSUME ReportExpires \/ (\E t \in Tokens : ReviewExpires(t))
             \/ (\E f \in Files : Change(f) \/ Index(f)) \/ UNCHANGED vars
      PROVE  UNCHANGED <<held, desk>>
    BY <1>7 DEF vars, ReportExpires, ReviewExpires, Change, Index
<1> QED  BY <1>1, <1>2, <1>3, <1>4, <1>5, <1>6, <1>7 DEF Next

\* The flags are up while their owners are inside, of whom there is at most
\* one; an admission under runtime and reviews keeps them down.
LEMMA FlagsStep ==
    ASSUME DeskAssumption, HeldTyped, CarriedTyped, LocksAreHeld, FlagsTyped,
           FlagsAreOwned, [Next]_vars
    PROVE  FlagsAreOwned'
<1> USE DEF DeskAssumption, HeldTyped, CarriedTyped, LocksAreHeld, FlagsTyped,
            FlagsAreOwned, Occupied, Cleans, Compares, Unpublished, Reports,
            HoldsRuntime, HoldsReviews, HoldsStore, HoldsDuplicates, Locks, Places, Removing, Free,
            Take, Release, Goto, Leave, Return, Asks, flags, evidence, index, world
<1>1. ASSUME NEW c \in Callers, Prepares(c) PROVE FlagsAreOwned'
    <2>1. ASSUME NEW f \in Files, PrepareReads(c, f)
          PROVE  FlagsAreOwned'
        BY <2>1 DEF PrepareReads
    <2>2. ASSUME NEW f \in Files, NEW k \in Files, ChooseCopies(c, f, k)
          PROVE  FlagsAreOwned'
        BY <2>2 DEF ChooseCopies
    <2>3. ASSUME PrepareAdmits(c) \/ CheckCopies(c)
          PROVE  FlagsAreOwned'
        BY <2>3 DEF PrepareAdmits, CheckCopies
    <2>4. ASSUME ReopenReport(c) \/ Reserve(c)
          PROVE  FlagsAreOwned'
        BY <2>4 DEF ReopenReport, Reserve
    <2> QED  BY <1>1, <2>1, <2>2, <2>3, <2>4 DEF Prepares
<1>2. ASSUME NEW c \in Callers, Checks(c) PROVE FlagsAreOwned'
    BY <1>2 DEF Checks, TakeRuntime, AdmitCheck, BeginCheck, ClearReport, NoticeCancel,
       SelectTakesStore, QueryStarts, QueryEnds, RegisterFiles, Analyse, Recheck,
       Publish, CloseTakesRuntime, EndCheck
<1>3. ASSUME NEW c \in Callers, Executes(c) PROVE FlagsAreOwned'
    BY <1>3 DEF Executes, TakeRuntime, Fence, DropEvidence, Consume, CheckReservations,
       CleanItem, Refuse, Stage, LookAtCancel, CompareAgain, Remove, EndMutation
<1>4. ASSUME NEW c \in Callers, Cancels(c) PROVE FlagsAreOwned'
    BY <1>4 DEF Cancels, Cancel, CancelMutation, CancelDuplicates, CancelReport
<1>5. ASSUME NEW c \in Callers, Others(c) PROVE FlagsAreOwned'
    <2>1. ASSUME NEW f \in Files, Prefer(c, f) \/ Hear(c, f)
          PROVE  FlagsAreOwned'
        BY <2>1 DEF Prefer, Hear
    <2>2. ASSUME TakeRuntime(c, "keep", "preferring") \/ TakeRuntime(c, "authorize", "granting") \/ PreferTakesStore(c)
          PROVE  FlagsAreOwned'
        BY <2>2 DEF TakeRuntime, PreferTakesStore
    <2>3. ASSUME GrantTakesReviews(c) \/ Grant(c) \/ GrantInvalidates(c)
          PROVE  FlagsAreOwned'
        BY <2>3 DEF GrantTakesReviews, Grant, GrantInvalidates
    <2> QED  BY <1>5, <2>1, <2>2, <2>3 DEF Others
<1>6. ASSUME UNCHANGED <<cleaning, checking, desk>> PROVE FlagsAreOwned'
    BY <1>6
<1>7. ASSUME ReportExpires \/ (\E t \in Tokens : ReviewExpires(t))
             \/ (\E f \in Files : Change(f) \/ Index(f)) \/ UNCHANGED vars
      PROVE  UNCHANGED <<cleaning, checking, desk>>
    BY <1>7 DEF vars, ReportExpires, ReviewExpires, Change, Index
<1> QED  BY <1>1, <1>2, <1>3, <1>4, <1>5, <1>6, <1>7 DEF Next

\* A query leaves its place only by clearing sql_active.
LEMMA ReaderStays ==
    ASSUME DeskAssumption, CarriedTyped, NEW d \in Callers, desk[d] = "reading",
           [Next]_vars
    PROVE  desk'[d] = "reading" \/ ~sqlActive'
<1> USE DEF DeskAssumption, CarriedTyped, Places, Removing, Free, Take, Release, Goto, Leave,
            Return, Asks, flags, evidence, index, world
<1>1. ASSUME NEW c \in Callers, Prepares(c) PROVE desk'[d] = "reading" \/ ~sqlActive'
    BY <1>1 DEF Prepares, PrepareReads, ChooseCopies, PrepareAdmits, CheckCopies,
       ReopenReport, Reserve
<1>2. ASSUME NEW c \in Callers, Checks(c) PROVE desk'[d] = "reading" \/ ~sqlActive'
    BY <1>2 DEF Checks, TakeRuntime, AdmitCheck, BeginCheck, ClearReport, NoticeCancel,
       SelectTakesStore, QueryStarts, QueryEnds, RegisterFiles, Analyse, Recheck,
       Publish, CloseTakesRuntime, EndCheck
<1>3. ASSUME NEW c \in Callers, Executes(c) PROVE desk'[d] = "reading" \/ ~sqlActive'
    BY <1>3 DEF Executes, TakeRuntime, Fence, DropEvidence, Consume, CheckReservations,
       CleanItem, Refuse, Stage, LookAtCancel, CompareAgain, Remove, EndMutation
<1>4. ASSUME NEW c \in Callers, Cancels(c) PROVE desk'[d] = "reading" \/ ~sqlActive'
    BY <1>4 DEF Cancels, Cancel, CancelMutation, CancelDuplicates, CancelReport
<1>5. ASSUME NEW c \in Callers, Others(c) PROVE desk'[d] = "reading" \/ ~sqlActive'
    BY <1>5 DEF Others, Prefer, Hear, TakeRuntime, PreferTakesStore, GrantTakesReviews,
       Grant, GrantInvalidates
<1>6. ASSUME UNCHANGED <<desk>> PROVE desk'[d] = "reading" \/ ~sqlActive'
    BY <1>6
<1>7. ASSUME ReportExpires \/ (\E t \in Tokens : ReviewExpires(t))
             \/ (\E f \in Files : Change(f) \/ Index(f)) \/ UNCHANGED vars
      PROVE  UNCHANGED <<desk>>
    BY <1>7 DEF vars, ReportExpires, ReviewExpires, Change, Index
<1> QED  BY <1>1, <1>2, <1>3, <1>4, <1>5, <1>6, <1>7 DEF Next

\* Only a query raises sql_active.
LEMMA ReaderStarts ==
    ASSUME DeskAssumption, CarriedTyped, [Next]_vars
    PROVE  sqlActive' => sqlActive \/ (\E d \in Callers : desk'[d] = "reading")
<1> USE DEF DeskAssumption, CarriedTyped, Places, Removing, Free, Take, Release, Goto, Leave,
            Return, Asks, flags, evidence, index, world, Invalidate
<1>1. ASSUME NEW c \in Callers, Prepares(c) PROVE sqlActive' => sqlActive \/ (\E d \in Callers : desk'[d] = "reading")
    BY <1>1 DEF Prepares, PrepareReads, ChooseCopies, PrepareAdmits, CheckCopies,
       ReopenReport, Reserve
<1>2. ASSUME NEW c \in Callers, Checks(c) PROVE sqlActive' => sqlActive \/ (\E d \in Callers : desk'[d] = "reading")
    BY <1>2 DEF Checks, TakeRuntime, AdmitCheck, BeginCheck, ClearReport, NoticeCancel,
       SelectTakesStore, QueryStarts, QueryEnds, RegisterFiles, Analyse, Recheck,
       Publish, CloseTakesRuntime, EndCheck
<1>3. ASSUME NEW c \in Callers, Executes(c) PROVE sqlActive' => sqlActive \/ (\E d \in Callers : desk'[d] = "reading")
    BY <1>3 DEF Executes, TakeRuntime, Fence, DropEvidence, Consume, CheckReservations,
       CleanItem, Refuse, Stage, LookAtCancel, CompareAgain, Remove, EndMutation
<1>4. ASSUME NEW c \in Callers, Cancels(c) PROVE sqlActive' => sqlActive \/ (\E d \in Callers : desk'[d] = "reading")
    BY <1>4 DEF Cancels, Cancel, CancelMutation, CancelDuplicates, CancelReport
<1>5. ASSUME NEW c \in Callers, Others(c) PROVE sqlActive' => sqlActive \/ (\E d \in Callers : desk'[d] = "reading")
    BY <1>5 DEF Others, Prefer, Hear, TakeRuntime, PreferTakesStore, GrantTakesReviews,
       Grant, GrantInvalidates
<1>6. ASSUME UNCHANGED <<sqlActive>> PROVE sqlActive' => sqlActive \/ (\E d \in Callers : desk'[d] = "reading")
    BY <1>6
<1>7. ASSUME ReportExpires \/ (\E t \in Tokens : ReviewExpires(t))
             \/ (\E f \in Files : Change(f) \/ Index(f)) \/ UNCHANGED vars
      PROVE  UNCHANGED <<sqlActive>>
    BY <1>7 DEF vars, ReportExpires, ReviewExpires, Change, Index
<1> QED  BY <1>1, <1>2, <1>3, <1>4, <1>5, <1>6, <1>7 DEF Next

\* While sql_active is up, the query it is about holds the store.
LEMMA OneReader ==
    ASSUME DeskAssumption, CarriedTyped, LocksAreHeld', InterruptIsAimed, [Next]_vars
    PROVE  InterruptIsAimed'
<1>1. ASSUME NEW d \in Callers, desk'[d] = "reading" PROVE held'["store"] = d
    BY <1>1 DEF LocksAreHeld, HoldsStore
<1> SUFFICES ASSUME sqlActive' PROVE \E d \in Callers : desk'[d] = "reading"
    BY <1>1 DEF InterruptIsAimed
<1>2. CASE sqlActive
    BY <1>2, ReaderStays DEF InterruptIsAimed
<1>3. CASE ~sqlActive
    BY <1>3, ReaderStarts
<1> QED  BY <1>2, <1>3

\* A ring of callers that wait for each other would have to hold reviews and wait
\* for the store (a folder is replaced), hold the store and wait for
\* duplicate_state (a check, or a preference, which also holds runtime), and hold
\* that and wait for reviews; the first is not reached while a check runs.
LEMMA NoRing ==
    ASSUME DeskAssumption, HeldTyped, CarriedTyped, LocksAreHeld, FlagsAreOwned
    PROVE  NoCircularWait
<1> SUFFICES ASSUME NEW S \in (SUBSET Callers) \ {{}},
                    \A c \in S : Wants(c) # "none" /\ held[Wants(c)] \in S
             PROVE  FALSE
    BY DEF NoCircularWait
<1> USE DEF LocksAreHeld, HoldsRuntime, HoldsReviews, HoldsStore, HoldsDuplicates, Places, Removing,
            CarriedTyped
<1>1. ASSUME NEW c \in S, Wants(c) = "reviews" PROVE FALSE
    <2>1. PICK d \in S : held["reviews"] = d
        BY <1>1
    <2>2. desk[d] = "replacing" /\ Wants(d) = "store"
        BY <2>1 DEF Wants
    <2>3. PICK e \in S : held["store"] = e
        BY <2>2
    <2>4. desk[e] \in {"querying", "reading", "publishing"}
        <3>1. desk[e] \in HoldsStore
            BY <2>3
        <3>2. desk[e] \notin Removing
            BY DEF Wants, Removing
        <3>3. desk[e] # "preferred"
            BY <2>2
        <3> QED  BY <3>1, <3>2, <3>3
    <2> QED  BY <2>2, <2>4 DEF FlagsAreOwned, Compares, Unpublished, Reports, Occupied
<1>2. ASSUME NEW c \in S, Wants(c) = "duplicates" PROVE FALSE
    <2>1. PICK d \in S : held["duplicates"] = d
        BY <1>2
    <2>2. Wants(d) = "reviews"
        BY <2>1 DEF Wants
    <2> QED  BY <1>1, <2>2
<1>3. ASSUME NEW c \in S, Wants(c) = "store" PROVE FALSE
    <2>1. PICK d \in S : held["store"] = d
        BY <1>3
    <2>2. Wants(d) = "duplicates"
        <3>1. desk[d] \in HoldsStore
            BY <2>1
        <3> QED  BY <3>1 DEF Wants
    <2> QED  BY <1>2, <2>2
<1>4. ASSUME NEW c \in S, Wants(c) = "runtime" PROVE FALSE
    <2>1. PICK d \in S : held["runtime"] = d
        BY <1>4
    <2>2. Wants(d) \in {"reviews", "store", "duplicates"}
        <3>1. desk[d] \in HoldsRuntime
            BY <2>1
        <3> QED  BY <3>1 DEF Wants
    <2> QED  BY <1>1, <1>2, <1>3, <2>2
<1>5. PICK c \in S : TRUE
    OBVIOUS
<1>6. Wants(c) \in {"reviews", "store", "duplicates", "runtime", "none"}
    BY DEF Wants
<1> QED  BY <1>1, <1>2, <1>3, <1>4, <1>6

-----------------------------------------------------------------------------
(* Reports                                                                  *)

\* A check that is under way numbers its report above all others.
LEMMA TokensStep ==
    ASSUME DeskAssumption, CarriedTyped, EvidenceTyped, FlagsAreOwned, TokensAreOrdered,
           [Next]_vars
    PROVE  TokensAreOrdered'
<1> USE DEF DeskAssumption, CarriedTyped, EvidenceTyped, FlagsAreOwned, TokensAreOrdered,
            Invalidate, Carry, Report, Published, Occupied, Cleans, Compares,
            Unpublished, Reports, Places, Removing, Free, Take, Release, Goto, Leave, Return, Asks,
            flags, evidence, index, world
<1>1. ASSUME NEW c \in Callers, Prepares(c) PROVE TokensAreOrdered'
    BY <1>1 DEF Prepares, PrepareReads, ChooseCopies, PrepareAdmits, CheckCopies,
       ReopenReport, Reserve
<1>2. ASSUME NEW c \in Callers, Checks(c) PROVE TokensAreOrdered'
    BY <1>2 DEF Checks, TakeRuntime, AdmitCheck, BeginCheck, ClearReport, NoticeCancel,
       SelectTakesStore, QueryStarts, QueryEnds, RegisterFiles, Analyse, Recheck,
       Publish, CloseTakesRuntime, EndCheck
<1>3. ASSUME NEW c \in Callers, Executes(c) PROVE TokensAreOrdered'
    BY <1>3 DEF Executes, TakeRuntime, Fence, DropEvidence, Consume, CheckReservations,
       CleanItem, Refuse, Stage, LookAtCancel, CompareAgain, Remove, EndMutation
<1>4. ASSUME NEW c \in Callers, Cancels(c) PROVE TokensAreOrdered'
    BY <1>4 DEF Cancels, Cancel, CancelMutation, CancelDuplicates, CancelReport
<1>5. ASSUME NEW c \in Callers, Others(c) PROVE TokensAreOrdered'
    BY <1>5 DEF Others, Prefer, Hear, TakeRuntime, PreferTakesStore, GrantTakesReviews,
       Grant, GrantInvalidates
<1>6. ASSUME ReportExpires PROVE TokensAreOrdered'
    BY <1>6 DEF ReportExpires
<1>7. ASSUME NEW t \in Tokens, ReviewExpires(t) PROVE TokensAreOrdered'
    BY <1>7 DEF ReviewExpires
<1>8. ASSUME NEW f \in Files, Change(f) \/ Index(f) PROVE TokensAreOrdered'
    BY <1>8 DEF Change, Index
<1>9. ASSUME UNCHANGED vars PROVE TokensAreOrdered'
    BY <1>9 DEF vars
<1> QED  BY <1>1, <1>2, <1>3, <1>4, <1>5, <1>6, <1>7, <1>8, <1>9 DEF Next

\* A cleanup drops the report under duplicate_state, and no check publishes
\* another before it ends.
LEMMA DroppedStep ==
    ASSUME DeskAssumption, CarriedTyped, EvidenceTyped, HeldTyped, LocksAreHeld,
           FlagsAreOwned, EvidenceIsDropped, [Next]_vars
    PROVE  EvidenceIsDropped'
<1> USE DEF DeskAssumption, CarriedTyped, EvidenceTyped, HeldTyped, LocksAreHeld,
            FlagsAreOwned, EvidenceIsDropped, Invalidate, Report, Published, Occupied,
            Cleans, Compares, Unpublished, Reports, HoldsRuntime, HoldsReviews,
            HoldsStore, HoldsDuplicates, Locks, Places, Removing, Free, Take, Release, Goto, Leave,
            Return, Asks, flags, evidence, index, world
<1>1. ASSUME NEW c \in Callers, Prepares(c) PROVE EvidenceIsDropped'
    <2>1. ASSUME NEW f \in Files, PrepareReads(c, f)
          PROVE  EvidenceIsDropped'
        BY <2>1 DEF PrepareReads
    <2>2. ASSUME NEW f \in Files, NEW k \in Files, ChooseCopies(c, f, k)
          PROVE  EvidenceIsDropped'
        BY <2>2 DEF ChooseCopies
    <2>3. ASSUME PrepareAdmits(c) \/ CheckCopies(c)
          PROVE  EvidenceIsDropped'
        BY <2>3 DEF PrepareAdmits, CheckCopies
    <2>4. ASSUME ReopenReport(c) \/ Reserve(c)
          PROVE  EvidenceIsDropped'
        BY <2>4 DEF ReopenReport, Reserve
    <2> QED  BY <1>1, <2>1, <2>2, <2>3, <2>4 DEF Prepares
<1>2. ASSUME NEW c \in Callers, Checks(c) PROVE EvidenceIsDropped'
    BY <1>2 DEF Checks, TakeRuntime, AdmitCheck, BeginCheck, ClearReport, NoticeCancel,
       SelectTakesStore, QueryStarts, QueryEnds, RegisterFiles, Analyse, Recheck,
       Publish, CloseTakesRuntime, EndCheck
<1>3. ASSUME NEW c \in Callers, Executes(c) PROVE EvidenceIsDropped'
    BY <1>3 DEF Executes, TakeRuntime, Fence, DropEvidence, Consume, CheckReservations,
       CleanItem, Refuse, Stage, LookAtCancel, CompareAgain, Remove, EndMutation
<1>4. ASSUME NEW c \in Callers, Cancels(c) PROVE EvidenceIsDropped'
    BY <1>4 DEF Cancels, Cancel, CancelMutation, CancelDuplicates, CancelReport
<1>5. ASSUME NEW c \in Callers, Others(c) PROVE EvidenceIsDropped'
    BY <1>5 DEF Others, Prefer, Hear, TakeRuntime, PreferTakesStore, GrantTakesReviews,
       Grant, GrantInvalidates
<1>6. ASSUME ReportExpires PROVE EvidenceIsDropped'
    BY <1>6 DEF ReportExpires
<1>7. ASSUME NEW t \in Tokens, ReviewExpires(t) PROVE EvidenceIsDropped'
    BY <1>7 DEF ReviewExpires
<1>8. ASSUME NEW f \in Files, Change(f) \/ Index(f) PROVE EvidenceIsDropped'
    BY <1>8 DEF Change, Index
<1>9. ASSUME UNCHANGED vars PROVE EvidenceIsDropped'
    BY <1>9 DEF vars
<1> QED  BY <1>1, <1>2, <1>3, <1>4, <1>5, <1>6, <1>7, <1>8, <1>9 DEF Next

\* An event for a compared file moves the generation on, or is still to come.
LEMMA ComparedStep ==
    ASSUME DeskAssumption, CarriedTyped, FlagsAreOwned, ComparedIsRegistered,
           [Next]_vars
    PROVE  ComparedIsRegistered'
<1> USE DEF DeskAssumption, CarriedTyped, FlagsAreOwned, ComparedIsRegistered, Places, Removing,
            Report, Published, Carry, Invalidate, Occupied, Cleans, Compares,
            Unpublished, Reports, Free, Take, Release, Goto, Leave, Return, Asks, flags,
            evidence, index, world
<1>1. ASSUME NEW c \in Callers, Prepares(c) PROVE ComparedIsRegistered'
    BY <1>1 DEF Prepares, PrepareReads, ChooseCopies, PrepareAdmits, CheckCopies,
       ReopenReport, Reserve
<1>2. ASSUME NEW c \in Callers, Checks(c) PROVE ComparedIsRegistered'
    BY <1>2 DEF Checks, TakeRuntime, AdmitCheck, BeginCheck, ClearReport, NoticeCancel,
       SelectTakesStore, QueryStarts, QueryEnds, RegisterFiles, Analyse, Recheck,
       Publish, CloseTakesRuntime, EndCheck
<1>3. ASSUME NEW c \in Callers, Executes(c) PROVE ComparedIsRegistered'
    BY <1>3 DEF Executes, TakeRuntime, Fence, DropEvidence, Consume, CheckReservations,
       CleanItem, Refuse, Stage, LookAtCancel, CompareAgain, Remove, EndMutation
<1>4. ASSUME NEW c \in Callers, Cancels(c) PROVE ComparedIsRegistered'
    BY <1>4 DEF Cancels, Cancel, CancelMutation, CancelDuplicates, CancelReport
<1>5. ASSUME NEW c \in Callers, Others(c) PROVE ComparedIsRegistered'
    <2>1. ASSUME NEW f \in Files, Prefer(c, f) \/ Hear(c, f)
          PROVE  ComparedIsRegistered'
        <3>1. CASE Prefer(c, f)
            BY <3>1 DEF Prefer
        <3>2. CASE Hear(c, f)
            <4>1. /\ UNCHANGED <<desk, mem, disk, activePaths>> /\ unheard' = unheard \ {f}
                  /\ (moved => moved') /\ (f \in activePaths => moved')
                BY <3>2 DEF Hear
            <4>2. ASSUME NEW d \in Callers, desk[d] \in {"analysed", "publishing"}, ~moved',
                         NEW g \in mem[d].files \ unheard'
                  PROVE  disk[g] = mem[d].row[g]
                BY <4>1, <4>2
            <4> QED  BY <4>1, <4>2
        <3> QED  BY <2>1, <3>1, <3>2
    <2>2. ASSUME TakeRuntime(c, "keep", "preferring") \/ TakeRuntime(c, "authorize", "granting") \/ PreferTakesStore(c)
          PROVE  ComparedIsRegistered'
        BY <2>2 DEF TakeRuntime, PreferTakesStore
    <2>3. ASSUME GrantTakesReviews(c) \/ Grant(c) \/ GrantInvalidates(c)
          PROVE  ComparedIsRegistered'
        <3>1. CASE GrantTakesReviews(c) \/ Grant(c)
            BY <3>1 DEF GrantTakesReviews, Grant
        <3>2. CASE GrantInvalidates(c)
            BY <3>2 DEF GrantInvalidates
        <3> QED  BY <2>3, <3>1, <3>2
    <2> QED  BY <1>5, <2>1, <2>2, <2>3 DEF Others
<1>6. ASSUME ReportExpires PROVE ComparedIsRegistered'
    BY <1>6 DEF ReportExpires
<1>7. ASSUME NEW t \in Tokens, ReviewExpires(t) PROVE ComparedIsRegistered'
    BY <1>7 DEF ReviewExpires
<1>8. ASSUME NEW f \in Files, Change(f) \/ Index(f) PROVE ComparedIsRegistered'
    <2>1. CASE Change(f)
        BY <2>1 DEF Change
    <2>2. CASE Index(f)
        BY <2>2 DEF Index
    <2> QED  BY <1>8, <2>1, <2>2
<1>9. ASSUME UNCHANGED vars PROVE ComparedIsRegistered'
    BY <1>9 DEF vars
<1> QED  BY <1>1, <1>2, <1>3, <1>4, <1>5, <1>6, <1>7, <1>8, <1>9 DEF Next

\* A published report is of the files as they are, but for events to come.
LEMMA FreshStep ==
    ASSUME DeskAssumption, CarriedTyped, FlagsAreOwned, EvidenceIsDropped, EvidenceTyped,
           ComparedIsRegistered, ReportIsFresh, [Next]_vars
    PROVE  ReportIsFresh'
<1> USE DEF DeskAssumption, CarriedTyped, FlagsAreOwned, EvidenceIsDropped,
            EvidenceTyped, ComparedIsRegistered, ReportIsFresh, Places, Removing, Report,
            Published, Invalidate, Occupied, Cleans, Compares, Unpublished, Reports,
            Free, Take, Release, Goto, Leave, Return, Asks, flags, evidence, index,
            world
<1>1. ASSUME NEW c \in Callers, Prepares(c) PROVE ReportIsFresh'
    BY <1>1 DEF Prepares, PrepareReads, ChooseCopies, PrepareAdmits, CheckCopies,
       ReopenReport, Reserve
<1>2. ASSUME NEW c \in Callers, Checks(c) PROVE ReportIsFresh'
    BY <1>2 DEF Checks, TakeRuntime, AdmitCheck, BeginCheck, ClearReport, NoticeCancel,
       SelectTakesStore, QueryStarts, QueryEnds, RegisterFiles, Analyse, Recheck,
       Publish, CloseTakesRuntime, EndCheck
<1>3. ASSUME NEW c \in Callers, Executes(c) PROVE ReportIsFresh'
    BY <1>3 DEF Executes, TakeRuntime, Fence, DropEvidence, Consume, CheckReservations,
       CleanItem, Refuse, Stage, LookAtCancel, CompareAgain, Remove, EndMutation
<1>4. ASSUME NEW c \in Callers, Cancels(c) PROVE ReportIsFresh'
    BY <1>4 DEF Cancels, Cancel, CancelMutation, CancelDuplicates, CancelReport
<1>5. ASSUME NEW c \in Callers, Others(c) PROVE ReportIsFresh'
    BY <1>5 DEF Others, Prefer, Hear, TakeRuntime, PreferTakesStore, GrantTakesReviews,
       Grant, GrantInvalidates
<1>6. ASSUME ReportExpires PROVE ReportIsFresh'
    BY <1>6 DEF ReportExpires
<1>7. ASSUME NEW t \in Tokens, ReviewExpires(t) PROVE ReportIsFresh'
    BY <1>7 DEF ReviewExpires
<1>8. ASSUME NEW f \in Files, Change(f) \/ Index(f) PROVE ReportIsFresh'
    <2>1. CASE Change(f)
        BY <2>1 DEF Change
    <2>2. CASE Index(f)
        BY <2>2 DEF Index
    <2> QED  BY <1>8, <2>1, <2>2
<1>9. ASSUME UNCHANGED vars PROVE ReportIsFresh'
    BY <1>9 DEF vars
<1> QED  BY <1>1, <1>2, <1>3, <1>4, <1>5, <1>6, <1>7, <1>8, <1>9 DEF Next

-----------------------------------------------------------------------------
(* Reviews                                                                  *)

\* A file disappears only by a cleanup that carries its review and is past its last
\* look at the flag, and no such step touches a review or a report.
LEMMA RemovedByOne ==
    ASSUME DeskAssumption, CarriedTyped, WorldTyped, [Next]_vars, NEW f \in Files, Removed(f)
    PROVE  \E c \in Callers :
              desk[c] = "unlinking" /\ f = mem[c].item
                /\ UNCHANGED <<reviews, report>>
<1> USE DEF DeskAssumption, WorldTyped, flags, evidence, index, world, Removed
<1>1. ASSUME NEW c \in Callers, Remove(c)
      PROVE  desk[c] = "unlinking" /\ f = mem[c].item
                /\ UNCHANGED <<reviews, report>>
    BY <1>1 DEF Remove
<1>2. ASSUME NEW c \in Callers, Prepares(c) PROVE FALSE
    BY <1>2 DEF Prepares, PrepareReads, PrepareAdmits, ChooseCopies, CheckCopies, ReopenReport,
       Reserve
<1>3. ASSUME NEW c \in Callers, Checks(c) PROVE FALSE
    BY <1>3 DEF Checks, TakeRuntime, AdmitCheck, BeginCheck, ClearReport, NoticeCancel,
       SelectTakesStore, QueryStarts, QueryEnds, RegisterFiles, Analyse, Recheck, Publish,
       CloseTakesRuntime, EndCheck
<1>4. ASSUME NEW c \in Callers, Executes(c), ~Remove(c) PROVE FALSE
    BY <1>4 DEF Executes, TakeRuntime, Fence, DropEvidence, CheckReservations, Consume, CleanItem,
       Refuse, Stage, LookAtCancel, CompareAgain, EndMutation
<1>5. ASSUME NEW c \in Callers, Cancels(c) PROVE FALSE
    BY <1>5 DEF Cancels, Cancel, CancelMutation, CancelDuplicates, CancelReport
<1>6. ASSUME NEW c \in Callers, Others(c) PROVE FALSE
    BY <1>6 DEF Others, TakeRuntime, PreferTakesStore, Prefer, Hear, GrantTakesReviews, Grant,
       GrantInvalidates
<1>7. ASSUME NEW t \in Tokens, ReviewExpires(t) PROVE FALSE
    BY <1>7 DEF ReviewExpires
<1>8. ASSUME NEW g \in Files, Change(g) \/ Index(g) PROVE FALSE
    BY <1>8 DEF Change, Index, Versions
<1>9. ASSUME ReportExpires \/ UNCHANGED vars PROVE FALSE
    BY <1>9 DEF ReportExpires, vars
<1> QED  BY <1>1, <1>2, <1>3, <1>4, <1>5, <1>6, <1>7, <1>8, <1>9 DEF Next, Executes

\* No review is from a generation that has not been reached.
LEMMA GenerationsStep ==
    ASSUME DeskAssumption, CarriedTyped, FlagsTyped, ReviewsTyped, GenerationsAreReached,
           [Next]_vars
    PROVE  GenerationsAreReached'
<1> USE DEF DeskAssumption, CarriedTyped, FlagsTyped, ReviewsTyped, Review, CopyReview,
            GenerationsAreReached, Free, Take, Release, Goto, Leave, Return, Asks, flags,
            evidence, index, world
<1>1. ASSUME NEW c \in Callers, Prepares(c) PROVE GenerationsAreReached'
    <2>1. ASSUME NEW f \in Files, PrepareReads(c, f)
          PROVE  GenerationsAreReached'
        BY <2>1 DEF PrepareReads
    <2>2. ASSUME NEW f \in Files, NEW k \in Files, ChooseCopies(c, f, k)
          PROVE  GenerationsAreReached'
        BY <2>2 DEF ChooseCopies
    <2>3. ASSUME PrepareAdmits(c) \/ CheckCopies(c)
          PROVE  GenerationsAreReached'
        BY <2>3, AdmitsOne, RetainedIsCurrent DEF PrepareAdmits, CheckCopies
    <2>4. ASSUME ReopenReport(c) \/ Reserve(c)
          PROVE  GenerationsAreReached'
        BY <2>4, AdmitsOne, RetainedIsCurrent DEF ReopenReport, Reserve
    <2> QED  BY <1>1, <2>1, <2>2, <2>3, <2>4 DEF Prepares
<1>2. ASSUME NEW c \in Callers, Checks(c) PROVE GenerationsAreReached'
    BY <1>2 DEF Checks, TakeRuntime, AdmitCheck, BeginCheck, ClearReport, NoticeCancel,
       SelectTakesStore, QueryStarts, QueryEnds, RegisterFiles, Analyse, Recheck,
       Publish, CloseTakesRuntime, EndCheck
<1>3. ASSUME NEW c \in Callers, Executes(c) PROVE GenerationsAreReached'
    BY <1>3, RetainedIsCurrent DEF Executes, TakeRuntime, Fence, DropEvidence, Consume,
       CheckReservations,
       CleanItem, Refuse, Stage, LookAtCancel, CompareAgain, Remove, EndMutation
<1>4. ASSUME NEW c \in Callers, Cancels(c) PROVE GenerationsAreReached'
    BY <1>4 DEF Cancels, Cancel, CancelMutation, CancelDuplicates, CancelReport
<1>5. ASSUME NEW c \in Callers, Others(c) PROVE GenerationsAreReached'
    <2>1. ASSUME NEW f \in Files, Prefer(c, f) \/ Hear(c, f)
          PROVE  GenerationsAreReached'
        BY <2>1 DEF Prefer, Hear
    <2>2. ASSUME TakeRuntime(c, "keep", "preferring") \/ TakeRuntime(c, "authorize", "granting") \/ PreferTakesStore(c)
          PROVE  GenerationsAreReached'
        BY <2>2 DEF TakeRuntime, PreferTakesStore
    <2>3. ASSUME GrantTakesReviews(c) \/ Grant(c) \/ GrantInvalidates(c)
          PROVE  GenerationsAreReached'
        BY <2>3 DEF GrantTakesReviews, Grant, GrantInvalidates
    <2> QED  BY <1>5, <2>1, <2>2, <2>3 DEF Others
<1>6. ASSUME ReportExpires PROVE GenerationsAreReached'
    BY <1>6 DEF ReportExpires
<1>7. ASSUME NEW t \in Tokens, ReviewExpires(t) PROVE GenerationsAreReached'
    BY <1>7 DEF ReviewExpires
<1>8. ASSUME NEW f \in Files, Change(f) \/ Index(f) PROVE GenerationsAreReached'
    BY <1>8 DEF Change, Index
<1>9. ASSUME UNCHANGED vars PROVE GenerationsAreReached'
    BY <1>9 DEF vars
<1> QED  BY <1>1, <1>2, <1>3, <1>4, <1>5, <1>6, <1>7, <1>8, <1>9 DEF Next

\* Only an admission adds to the reviews that can still remove something: what
\* is executed was one of them, and a cancel leaves none but that.
LEMMA StandingStep ==
    ASSUME DeskAssumption, CarriedTyped, FlagsTyped, ReviewsTyped, FlagsAreOwned,
           GenerationsAreReached, [Next]_vars,
           \A c \in Callers : ~PrepareAdmits(c) /\ ~Reserve(c)
    PROVE  Standing' \subseteq Standing
<1> USE DEF DeskAssumption, CarriedTyped, FlagsTyped, GenerationsAreReached, Standing,
            InExecution, Current, Review, ReviewsTyped, Places, Removing, Carry, Free, Take,
            Release, Goto, Leave, Return, Asks, flags, evidence, index, world
<1>1. ASSUME NEW c \in Callers, Prepares(c) PROVE Standing' \subseteq Standing
    BY <1>1 DEF Prepares, PrepareReads, ChooseCopies, PrepareAdmits, CheckCopies,
       ReopenReport, Reserve
<1>2. ASSUME NEW c \in Callers, Checks(c) PROVE Standing' \subseteq Standing
    BY <1>2 DEF Checks, TakeRuntime, AdmitCheck, BeginCheck, ClearReport, NoticeCancel,
       SelectTakesStore, QueryStarts, QueryEnds, RegisterFiles, Analyse, Recheck,
       Publish, CloseTakesRuntime, EndCheck
<1>3. ASSUME NEW c \in Callers, Executes(c) PROVE Standing' \subseteq Standing
    BY <1>3, RetainedIsCurrent DEF Executes, TakeRuntime, Fence, DropEvidence, Consume,
       CheckReservations,
       CleanItem, Refuse, Stage, LookAtCancel, CompareAgain, Remove, EndMutation
<1>4. ASSUME NEW c \in Callers, Cancels(c) PROVE Standing' \subseteq Standing
    BY <1>4 DEF Cancels, Cancel, CancelMutation, CancelDuplicates, CancelReport
<1>5. ASSUME NEW c \in Callers, Others(c) PROVE Standing' \subseteq Standing
    <2>1. ASSUME NEW f \in Files, Prefer(c, f) \/ Hear(c, f)
          PROVE  Standing' \subseteq Standing
        BY <2>1 DEF Prefer, Hear
    <2>2. ASSUME TakeRuntime(c, "keep", "preferring") \/ TakeRuntime(c, "authorize", "granting") \/ PreferTakesStore(c)
          PROVE  Standing' \subseteq Standing
        BY <2>2 DEF TakeRuntime, PreferTakesStore
    <2>3. ASSUME GrantTakesReviews(c) \/ Grant(c) \/ GrantInvalidates(c)
          PROVE  Standing' \subseteq Standing
        BY <2>3 DEF GrantTakesReviews, Grant, GrantInvalidates
    <2> QED  BY <1>5, <2>1, <2>2, <2>3 DEF Others
<1>6. ASSUME ReportExpires PROVE Standing' \subseteq Standing
    BY <1>6 DEF ReportExpires
<1>7. ASSUME NEW t \in Tokens, ReviewExpires(t) PROVE Standing' \subseteq Standing
    BY <1>7 DEF ReviewExpires
<1>8. ASSUME NEW f \in Files, Change(f) \/ Index(f) PROVE Standing' \subseteq Standing
    BY <1>8 DEF Change, Index
<1>9. ASSUME UNCHANGED vars PROVE Standing' \subseteq Standing
    BY <1>9 DEF vars
<1> QED  BY <1>1, <1>2, <1>3, <1>4, <1>5, <1>6, <1>7, <1>8, <1>9 DEF Next

\* An admission adds one review at most, which agrees with all the others.
LEMMA AdmissionStep ==
    ASSUME DeskAssumption, CarriedTyped, FlagsTyped, ReviewsTyped, FlagsAreOwned,
           NEW c \in Callers, PrepareAdmits(c) \/ Reserve(c)
    PROVE  \/ Standing' \subseteq Standing
           \/ \E r \in Review :
                /\ Standing' \subseteq Standing \cup {r}
                /\ r.item = mem[c].item /\ r.keeper = mem[c].keeper
                /\ \A s \in Standing : r.keeper # s.item /\ s.keeper # r.item
<1>1. mem[c] \in Review /\ Admits(c)
    BY DEF PrepareAdmits, Reserve, CarriedTyped, CopyReview
<1>2. cancelGeneration' = cancelGeneration /\ InExecution' = InExecution
        /\ \A d \in InExecution : mem'[d] = mem[d]
    BY DEF PrepareAdmits, Reserve, flags, InExecution, Return, Leave, Goto, Carry, CarriedTyped,
       Places, Removing
<1>3. CASE reviews' = reviews
    BY <1>2, <1>3 DEF Standing, Current
<1>4. CASE reviews' = Retained
    BY <1>2, <1>4, RetainedIsCurrent DEF Standing, Current
<1>5. CASE /\ ~Occupied
           /\ \E r \in Review, t \in Tokens :
                 /\ reviews' = [Retained EXCEPT ![t] = r]
                 /\ r.generation = cancelGeneration
                 /\ r.item = mem[c].item /\ r.keeper = mem[c].keeper
                 /\ ~Conflicts(Retained, r)
    <2>1. PICK r \in Review, t \in Tokens :
                 /\ reviews' = [Retained EXCEPT ![t] = r]
                 /\ r.generation = cancelGeneration
                 /\ r.item = mem[c].item /\ r.keeper = mem[c].keeper
                 /\ ~Conflicts(Retained, r)
        BY <1>5
    <2>2. InExecution = {}
        BY <1>5 DEF InExecution, FlagsAreOwned, Cleans, Occupied
    <2>3. \A s \in Standing : \E u \in Tokens : s = Retained[u] /\ s \in Review /\ s # None
        BY <2>2, RetainedIsCurrent DEF Standing, Current, ReviewsTyped
    <2>4. \A s \in Standing : r.keeper # s.item /\ s.keeper # r.item
        BY <2>1, <2>3, Undisputed
    <2>5. Standing' \subseteq Standing \cup {r}
        BY <1>2, <2>1, <2>2, RetainedIsCurrent DEF Standing, Current
    <2> QED  BY <2>1, <2>4, <2>5
<1> QED  BY <1>1, <1>3, <1>4, <1>5, AdmitsOne

\* So no review keeps what another may remove.
LEMMA AgreeStep ==
    ASSUME DeskAssumption, CarriedTyped, FlagsTyped, ReviewsTyped, FlagsAreOwned,
           GenerationsAreReached, ReviewsAgree, [Next]_vars
    PROVE  ReviewsAgree'
<1>1. CASE Standing' \subseteq Standing
    BY <1>1 DEF ReviewsAgree
<1>2. ASSUME NEW c \in Callers, PrepareAdmits(c) \/ Reserve(c), ~(Standing' \subseteq Standing)
      PROVE  ReviewsAgree'
    <2>1. PICK r \in Review :
                /\ Standing' \subseteq Standing \cup {r}
                /\ \A s \in Standing : r.keeper # s.item /\ s.keeper # r.item
        BY <1>2, AdmissionStep
    <2>2. r.keeper # r.item
        BY DEF Review
    <2> QED  BY <2>1, <2>2 DEF ReviewsAgree
<1> QED  BY <1>1, <1>2, StandingStep

\* A kept file that was just checked stands until its review is admitted: a
\* cleanup in between has dropped the report it was chosen from, and a new
\* report has a new number.
LEMMA ChosenStep ==
    ASSUME DeskAssumption, CarriedTyped, FlagsTyped, WorldTyped, IndexTyped,
           EvidenceTyped, FlagsAreOwned, TokensAreOrdered, EvidenceIsDropped,
           ChosenStand, [Next]_vars
    PROVE  ChosenStand'
<1> USE DEF DeskAssumption, CarriedTyped, WorldTyped, IndexTyped, EvidenceTyped,
            FlagsAreOwned, TokensAreOrdered, EvidenceIsDropped, ChosenStand, Places, Removing,
            Review, CopyReview, Carry, Invalidate, Published, Report, Occupied, Cleans,
            Compares, Unpublished, Reports, Free, Take, Release, Goto, Leave, Return,
            Asks, flags, evidence, index, world
<1>1. ASSUME NEW c \in Callers, Prepares(c) PROVE ChosenStand'
    BY <1>1 DEF Prepares, PrepareReads, ChooseCopies, PrepareAdmits, CheckCopies,
       Unchanged, ReopenReport, Reserve
<1>2. ASSUME NEW c \in Callers, Checks(c) PROVE ChosenStand'
    BY <1>2 DEF Checks, TakeRuntime, AdmitCheck, BeginCheck, ClearReport, NoticeCancel,
       SelectTakesStore, QueryStarts, QueryEnds, RegisterFiles, Analyse, Recheck,
       Publish, CloseTakesRuntime, EndCheck
<1>3. ASSUME NEW c \in Callers, Executes(c) PROVE ChosenStand'
    BY <1>3 DEF Executes, TakeRuntime, Fence, DropEvidence, Consume, CheckReservations,
       CleanItem, Refuse, Stage, LookAtCancel, CompareAgain, Remove, EndMutation
<1>4. ASSUME NEW c \in Callers, Cancels(c) PROVE ChosenStand'
    BY <1>4 DEF Cancels, Cancel, CancelMutation, CancelDuplicates, CancelReport
<1>5. ASSUME NEW c \in Callers, Others(c) PROVE ChosenStand'
    BY <1>5 DEF Others, Prefer, Hear, TakeRuntime, PreferTakesStore, GrantTakesReviews,
       Grant, GrantInvalidates
<1>6. ASSUME ReportExpires PROVE ChosenStand'
    BY <1>6 DEF ReportExpires
<1>7. ASSUME NEW t \in Tokens, ReviewExpires(t) PROVE ChosenStand'
    BY <1>7 DEF ReviewExpires
<1>8. ASSUME NEW f \in Files, Change(f) \/ Index(f) PROVE ChosenStand'
    <2>1. CASE Change(f)
        <3>1. UNCHANGED <<desk, mem, report>> /\ \A g \in Files : disk[g] # None => disk'[g] # None
            BY <2>1 DEF Change, Versions
        <3> QED  BY <3>1
    <2>2. CASE Index(f)
        BY <2>2 DEF Index
    <2> QED  BY <1>8, <2>1, <2>2
<1>9. ASSUME UNCHANGED vars PROVE ChosenStand'
    BY <1>9 DEF vars
<1> QED  BY <1>1, <1>2, <1>3, <1>4, <1>5, <1>6, <1>7, <1>8, <1>9 DEF Next

\* So the kept file of a review stands from its admission on: the only cleanup
\* that could remove it would be one of another review of it.
LEMMA KeepersStep ==
    ASSUME DeskAssumption, CarriedTyped, FlagsTyped, ReviewsTyped, WorldTyped, FlagsAreOwned,
           GenerationsAreReached, ReviewsAgree, KeepersStand, ChosenStand, [Next]_vars
    PROVE  KeepersStand'
<1>1. ASSUME NEW r \in Standing, r.keeper # None PROVE disk'[r.keeper] # None
    <2>1. r \in Review /\ r.keeper \in Files
        BY <1>1 DEF Standing, Current, InExecution, ReviewsTyped, CarriedTyped, Review
    <2>2. \A c \in Callers : desk[c] = "unlinking" => mem[c].item # r.keeper
        BY <1>1 DEF ReviewsAgree, Standing, InExecution, Removing
    <2>3. disk[r.keeper] # None
        BY <1>1 DEF KeepersStand
    <2> QED  BY <2>1, <2>2, <2>3, RemovedByOne DEF Removed
<1>2. CASE Standing' \subseteq Standing
    BY <1>1, <1>2 DEF KeepersStand
<1>3. ASSUME NEW c \in Callers, PrepareAdmits(c) \/ Reserve(c), ~(Standing' \subseteq Standing)
      PROVE  KeepersStand'
    <2>1. PICK r \in Review : Standing' \subseteq Standing \cup {r} /\ r.keeper = mem[c].keeper
        BY <1>3, AdmissionStep
    <2>2. disk' = disk
        BY <1>3 DEF PrepareAdmits, Reserve, world
    <2>3. mem[c].keeper # None => disk[mem[c].keeper] # None
        BY <1>3 DEF PrepareAdmits, Reserve, CarriedTyped, CopyReview, ChosenStand
    <2> QED  BY <1>1, <2>1, <2>2, <2>3 DEF KeepersStand
<1> QED  BY <1>2, <1>3, StandingStep

\* A cancel reaches the review in execution by its generation, by
\* mutation_cancel, or is about to raise the latter.
LEMMA CancelReachesStep ==
    ASSUME DeskAssumption, CarriedTyped, FlagsAreOwned, CancelReaches, [Next]_vars
    PROVE  CancelReaches'
<1> USE DEF DeskAssumption, CarriedTyped, FlagsAreOwned, CancelReaches, InExecution,
            Places, Removing, Current, Carry, Occupied, Cleans, Compares, Unpublished, Reports,
            Free, Take, Release, Goto, Leave, Return, Asks, flags, evidence, index,
            world
<1>1. ASSUME NEW c \in Callers, Prepares(c) PROVE CancelReaches'
    BY <1>1 DEF Prepares, PrepareReads, ChooseCopies, PrepareAdmits, CheckCopies,
       ReopenReport, Reserve
<1>2. ASSUME NEW c \in Callers, Checks(c) PROVE CancelReaches'
    BY <1>2 DEF Checks, TakeRuntime, AdmitCheck, BeginCheck, ClearReport, NoticeCancel,
       SelectTakesStore, QueryStarts, QueryEnds, RegisterFiles, Analyse, Recheck,
       Publish, CloseTakesRuntime, EndCheck
<1>3. ASSUME NEW c \in Callers, Executes(c) PROVE CancelReaches'
    BY <1>3 DEF Executes, TakeRuntime, Fence, DropEvidence, Consume, CheckReservations,
       CleanItem, Refuse, Stage, LookAtCancel, CompareAgain, Remove, EndMutation
<1>4. ASSUME NEW c \in Callers, Cancels(c) PROVE CancelReaches'
    BY <1>4 DEF Cancels, Cancel, CancelMutation, CancelDuplicates, CancelReport
<1>5. ASSUME NEW c \in Callers, Others(c) PROVE CancelReaches'
    <2>1. ASSUME NEW f \in Files, Prefer(c, f) \/ Hear(c, f)
          PROVE  CancelReaches'
        BY <2>1 DEF Prefer, Hear
    <2>2. ASSUME TakeRuntime(c, "keep", "preferring") \/ TakeRuntime(c, "authorize", "granting") \/ PreferTakesStore(c)
          PROVE  CancelReaches'
        BY <2>2 DEF TakeRuntime, PreferTakesStore
    <2>3. ASSUME GrantTakesReviews(c) \/ Grant(c) \/ GrantInvalidates(c)
          PROVE  CancelReaches'
        BY <2>3 DEF GrantTakesReviews, Grant, GrantInvalidates
    <2> QED  BY <1>5, <2>1, <2>2, <2>3 DEF Others
<1>6. ASSUME ReportExpires PROVE CancelReaches'
    BY <1>6 DEF ReportExpires
<1>7. ASSUME NEW t \in Tokens, ReviewExpires(t) PROVE CancelReaches'
    BY <1>7 DEF ReviewExpires
<1>8. ASSUME NEW f \in Files, Change(f) \/ Index(f) PROVE CancelReaches'
    BY <1>8 DEF Change, Index
<1>9. ASSUME UNCHANGED vars PROVE CancelReaches'
    BY <1>9 DEF vars
<1> QED  BY <1>1, <1>2, <1>3, <1>4, <1>5, <1>6, <1>7, <1>8, <1>9 DEF Next

\* Who goes past the last look sees no flag, so it is current then, or a cancel is
\* about to set its flag and to overtake it; later cancels overtake it too.
LEMMA CommitsStep ==
    ASSUME DeskAssumption, CarriedTyped, FlagsAreOwned, CancelReaches, CommitsAreCurrent, [Next]_vars
    PROVE  CommitsAreCurrent'
<1> USE DEF DeskAssumption, CarriedTyped, FlagsAreOwned, CancelReaches, CommitsAreCurrent, InExecution,
            Places, Removing, Committed, Current, Carry, Occupied, Cleans, Compares, Unpublished, Reports,
            Free, Take, Release, Goto, Leave, Return, Asks, flags, evidence, index,
            world
<1>1. ASSUME NEW c \in Callers, Prepares(c) PROVE CommitsAreCurrent'
    BY <1>1 DEF Prepares, PrepareReads, ChooseCopies, PrepareAdmits, CheckCopies,
       ReopenReport, Reserve
<1>2. ASSUME NEW c \in Callers, Checks(c) PROVE CommitsAreCurrent'
    BY <1>2 DEF Checks, TakeRuntime, AdmitCheck, BeginCheck, ClearReport, NoticeCancel,
       SelectTakesStore, QueryStarts, QueryEnds, RegisterFiles, Analyse, Recheck,
       Publish, CloseTakesRuntime, EndCheck
<1>3. ASSUME NEW c \in Callers, Executes(c) PROVE CommitsAreCurrent'
    BY <1>3 DEF Executes, TakeRuntime, Fence, DropEvidence, Consume, CheckReservations,
       CleanItem, Refuse, Stage, LookAtCancel, CompareAgain, Remove, EndMutation
<1>4. ASSUME NEW c \in Callers, Cancels(c) PROVE CommitsAreCurrent'
    BY <1>4 DEF Cancels, Cancel, CancelMutation, CancelDuplicates, CancelReport
<1>5. ASSUME NEW c \in Callers, Others(c) PROVE CommitsAreCurrent'
    <2>1. ASSUME NEW f \in Files, Prefer(c, f) \/ Hear(c, f)
          PROVE  CommitsAreCurrent'
        BY <2>1 DEF Prefer, Hear
    <2>2. ASSUME TakeRuntime(c, "keep", "preferring") \/ TakeRuntime(c, "authorize", "granting") \/ PreferTakesStore(c)
          PROVE  CommitsAreCurrent'
        BY <2>2 DEF TakeRuntime, PreferTakesStore
    <2>3. ASSUME GrantTakesReviews(c) \/ Grant(c) \/ GrantInvalidates(c)
          PROVE  CommitsAreCurrent'
        BY <2>3 DEF GrantTakesReviews, Grant, GrantInvalidates
    <2> QED  BY <1>5, <2>1, <2>2, <2>3 DEF Others
<1>6. ASSUME ReportExpires PROVE CommitsAreCurrent'
    BY <1>6 DEF ReportExpires
<1>7. ASSUME NEW t \in Tokens, ReviewExpires(t) PROVE CommitsAreCurrent'
    BY <1>7 DEF ReviewExpires
<1>8. ASSUME NEW f \in Files, Change(f) \/ Index(f) PROVE CommitsAreCurrent'
    BY <1>8 DEF Change, Index
<1>9. ASSUME UNCHANGED vars PROVE CommitsAreCurrent'
    BY <1>9 DEF vars
<1> QED  BY <1>1, <1>2, <1>3, <1>4, <1>5, <1>6, <1>7, <1>8, <1>9 DEF Next

\* So what is removed was reviewed after the last cancel that has returned, or a
\* cancel has overtaken its execute.
LEMMA RemovalsStep ==
    ASSUME CommitsAreCurrent
    PROVE  RemovalsAreCurrent
    BY DEF RemovalsAreCurrent, CommitsAreCurrent, Committed

-----------------------------------------------------------------------------
(* The invariant and the theorems                                           *)

\* A program that starts satisfies the invariant.
LEMMA InitDesk == ASSUME DeskAssumption, Init PROVE DeskInv
<1> USE DEF Init, DeskAssumption
<1>1. HeldTyped /\ ReviewsTyped
    BY DEF HeldTyped, ReviewsTyped
<1>2. FlagsTyped
    <2>1. 0 \in 0..MaxCancels
        OBVIOUS
    <2> QED  BY <2>1 DEF FlagsTyped
<1>3. EvidenceTyped
    <2>1. checks \in 0..MaxChecks
        OBVIOUS
    <2>2. report \in Published \cup {None} /\ activePaths \subseteq Files
        OBVIOUS
    <2>3. moved \in BOOLEAN /\ sqlActive \in BOOLEAN
        OBVIOUS
    <2> QED  BY <2>1, <2>2, <2>3 DEF EvidenceTyped
<1>4. IndexTyped /\ WorldTyped
    BY DEF IndexTyped, WorldTyped, Versions
<1>5. CarriedTyped
    BY DEF CarriedTyped, Places, Removing
<1>6. LocksAreHeld /\ FlagsAreOwned /\ TokensAreOrdered /\ InterruptIsAimed
    BY DEF LocksAreHeld, HoldsRuntime, HoldsReviews, HoldsStore, HoldsDuplicates, Locks,
       Removing, FlagsAreOwned, Cleans, Compares, Unpublished, Reports, Occupied, TokensAreOrdered,
       InterruptIsAimed
<1>7. Standing = {} /\ InExecution = {}
    BY DEF Standing, InExecution, Current, Removing
<1>8. GenerationsAreReached /\ ReviewsAgree /\ EvidenceIsDropped /\ KeepersStand /\ ChosenStand
    BY <1>7 DEF GenerationsAreReached, ReviewsAgree, EvidenceIsDropped, Cleans, KeepersStand,
       ChosenStand
<1>9. ComparedIsRegistered /\ ReportIsFresh /\ CancelReaches /\ CommitsAreCurrent
    BY <1>7 DEF ComparedIsRegistered, ReportIsFresh, CancelReaches, CommitsAreCurrent, Committed
<1> QED  BY <1>1, <1>2, <1>3, <1>4, <1>5, <1>6, <1>8, <1>9 DEF DeskInv, TypeOK

\* Every step preserves it.
LEMMA DeskStep == ASSUME DeskAssumption, DeskInv, [Next]_vars PROVE DeskInv'
<1> USE DEF DeskInv, TypeOK
<1>1. HeldTyped' /\ FlagsTyped' /\ ReviewsTyped'
    BY HeldStep, FlagsTypedStep, ReviewsTypedStep
<1>2. EvidenceTyped' /\ IndexTyped' /\ WorldTyped' /\ CarriedTyped'
    BY EvidenceTypedStep, IndexTypedStep, WorldTypedStep, CarriedStep
<1>3. LocksAreHeld' /\ FlagsAreOwned'
    BY LocksStep, FlagsStep
<1>4. InterruptIsAimed'
    BY <1>3, OneReader
<1>5. TokensAreOrdered' /\ EvidenceIsDropped' /\ ComparedIsRegistered' /\ ReportIsFresh'
    BY TokensStep, DroppedStep, ComparedStep, FreshStep
<1>6. GenerationsAreReached' /\ ReviewsAgree' /\ ChosenStand' /\ KeepersStand' /\ CancelReaches'
    BY GenerationsStep, AgreeStep, ChosenStep, KeepersStep, CancelReachesStep
<1>7. CommitsAreCurrent'
    BY CommitsStep
<1> QED  BY <1>1, <1>2, <1>3, <1>4, <1>5, <1>6, <1>7

\* The invariant holds in every state of every behaviour.
THEOREM DeskInvariant == Spec => []DeskInv
<1>1. Init => DeskInv
    BY DeskAssumption, InitDesk
<1>2. DeskInv /\ [Next]_vars => DeskInv'
    BY DeskAssumption, DeskStep
<1> QED  BY <1>1, <1>2, PTL DEF Spec

\* The desk keeps its shape: nothing is carried to a section that cannot read it.
THEOREM DeskTypeCorrect == Spec => []TypeOK
<1>1. DeskInv => TypeOK
    BY DEF DeskInv
<1> QED  BY <1>1, DeskInvariant, PTL

\* prepare, prepare_duplicate, check_duplicates and execute, for any number of
\* threads and files: no review keeps what another may remove, the kept file of a
\* pending review has not been removed, and a published report is of files that
\* have not changed unheard.
THEOREM DuplicatesStaySafe == Spec => []DuplicatesAreSafe
<1>1. ASSUME DeskInv PROVE DuplicatesAreSafe
    <2>1. Pending \subseteq Standing
        BY DEF Pending, InHand, Standing, InExecution
    <2> QED  BY <1>1, <2>1 DEF DuplicatesAreSafe, KeeperIsReserved, KeeperStands, DeskInv,
            ReviewsAgree, KeepersStand
<1> QED  BY <1>1, DeskInvariant, PTL

\* The four mutexes are taken in orders that form a circle, which no number of
\* threads ever closes, and sqlite3_interrupt only meets the query it is for.
THEOREM LocksStaySound == Spec => []LocksAreSound
<1>1. DeskInv => LocksAreSound
    BY DeskAssumption, NoRing DEF DeskInv, TypeOK, LocksAreSound
<1> QED  BY <1>1, DeskInvariant, PTL

\* cancel_scan returned: nothing that was prepared before it removes anything, but
\* for the one item whose execute was past its last look at the flag.
THEOREM CancelsStayFinal == Spec => CancelIsFinal
<1>1. DeskInv /\ [Next]_vars => [RemovalsAreCurrent]_vars
    BY DeskAssumption, RemovalsStep DEF DeskInv, TypeOK
<1> QED  BY <1>1, DeskInvariant, PTL DEF Spec, CancelIsFinal

-----------------------------------------------------------------------------
(* The two files of a reviewed pair (StagedCopy)                           *)

CONSTANTS Chunks, Bytes, MaxChanges
VARIABLES stage, keeper, placed, changes, pc, chunk, opened, read, equal

Staged == INSTANCE StagedCopy

\* What is known of a file of the pair.
IsCopy(f) ==
    /\ DOMAIN f = {"bytes", "mtime", "ctime", "there"}
    /\ f.bytes \in [1..Chunks -> Bytes] /\ f.ctime \in Nat

\* A change is told by a ctime that no earlier one had.
CopiesTyped ==
    /\ changes \in Nat /\ changes > 0 /\ chunk \in Nat /\ chunk > 0
    /\ IsCopy(stage) /\ stage.ctime <= changes
    /\ IsCopy(keeper) /\ keeper.ctime <= changes
    /\ DOMAIN opened = {"stage", "keeper"}

\* While neither changed since it was opened, what was compared is equal; the same is
\* then true of all of it.
ComparedIsEqual ==
    /\ pc \in {"keeper", "stage", "open"} => chunk = 1
    /\ pc \in {"open", "read", "compare"} => opened.stage \in Nat /\ opened.stage <= changes
    /\ pc \in {"read", "compare"} =>
          /\ chunk <= Chunks + 1 /\ (pc = "compare" => chunk <= Chunks)
          /\ stage.ctime = opened.stage =>
              /\ pc = "compare" => read = stage.bytes[chunk]
              /\ keeper.ctime = 0 =>
                   \A n \in 1..(chunk - 1) : stage.bytes[n] = keeper.bytes[n]
    /\ pc = "validate" /\ keeper.ctime = 0 => equal
    /\ pc = "retained" => equal
\* The invariant.
StagedInv == CopiesTyped /\ ComparedIsEqual

\* Nothing has been read of the two files.
LEMMA StagedStart ==
    ASSUME Chunks \in Nat, Staged!Init PROVE StagedInv
<1>1. CopiesTyped
  <2>1. PICK f \in Staged!File : stage = [f EXCEPT !.ctime = 1]
    BY DEF Staged!Init
  <2>2. IsCopy(stage) /\ stage.ctime = 1
    <3>1. IsCopy(f)  BY DEF Staged!File, IsCopy
    <3> QED  BY <2>1, <3>1 DEF IsCopy
  <2>3. IsCopy(keeper) /\ keeper.ctime = 0
    <3>1. keeper \in Staged!File  BY DEF Staged!Init
    <3> QED  BY <3>1 DEF Staged!File, IsCopy
  <2> QED  BY <2>2, <2>3 DEF CopiesTyped, Staged!Init
<1>2. ComparedIsEqual
  BY DEF ComparedIsEqual, Staged!Init
<1> QED  BY <1>1, <1>2 DEF StagedInv

\* Whoever writes a file gives it a new ctime, and what was read holds as long as it
\* has the old one.
LEMMA CopiesChange ==
    ASSUME Chunks \in Nat, StagedInv, Staged!Change PROVE StagedInv'
<1>1. /\ changes' = changes + 1 /\ changes \in Nat
      /\ UNCHANGED <<pc, chunk, opened, read, equal>>
      /\ pc \notin {"retained", "refused"}
  BY DEF Staged!Change, StagedInv, CopiesTyped
<1>2. ASSUME NEW f, IsCopy(f), NEW n \in 1..Chunks, NEW b \in Bytes, NEW hidden \in BOOLEAN
      PROVE  /\ IsCopy(Staged!Written(f, n, b, hidden))
             /\ Staged!Written(f, n, b, hidden).ctime = changes + 1
  <2> DEFINE g == Staged!Written(f, n, b, hidden)
  <2>1. DOMAIN g = DOMAIN f /\ g.bytes = [f.bytes EXCEPT ![n] = b] /\ g.ctime = changes + 1
    BY <1>2 DEF Staged!Written, IsCopy
  <2>2. g.bytes \in [1..Chunks -> Bytes]  BY <1>2, <2>1 DEF IsCopy
  <2> QED  BY <1>1, <1>2, <2>1, <2>2 DEF IsCopy
<1>3. ASSUME NEW f, IsCopy(f)
      PROVE  LET g == [f EXCEPT !.there = FALSE]
             IN  IsCopy(g) /\ g.ctime = f.ctime /\ g.bytes = f.bytes
  BY <1>3 DEF IsCopy
<1>4. /\ IsCopy(stage) /\ IsCopy(keeper)
      /\ stage.ctime \in Nat /\ stage.ctime <= changes /\ keeper.ctime \in Nat /\ keeper.ctime <= changes
  BY DEF StagedInv, CopiesTyped, IsCopy
<1>5. /\ IsCopy(stage')
      /\ stage'.ctime = changes + 1 \/ (stage'.ctime = stage.ctime /\ stage'.bytes = stage.bytes)
  <2>1. \/ stage' = stage \/ stage' = [stage EXCEPT !.there = FALSE]
        \/ \E n \in 1..Chunks, b \in Bytes, hidden \in BOOLEAN : stage' = Staged!Written(stage, n, b, hidden)
    BY DEF Staged!Change
  <2>2. ASSUME NEW n \in 1..Chunks, NEW b \in Bytes, NEW hidden \in BOOLEAN
        PROVE  /\ IsCopy(Staged!Written(stage, n, b, hidden))
               /\ Staged!Written(stage, n, b, hidden).ctime = changes + 1
    BY <1>2, <1>4
  <2>3. LET g == [stage EXCEPT !.there = FALSE]
        IN  IsCopy(g) /\ g.ctime = stage.ctime /\ g.bytes = stage.bytes
    BY <1>3, <1>4
  <2> QED  BY <1>4, <2>1, <2>2, <2>3
<1>6. /\ IsCopy(keeper')
      /\ keeper'.ctime = changes + 1 \/ (keeper'.ctime = keeper.ctime /\ keeper'.bytes = keeper.bytes)
  <2>1. \/ keeper' = keeper \/ keeper' = [keeper EXCEPT !.there = FALSE]
        \/ \E n \in 1..Chunks, b \in Bytes, hidden \in BOOLEAN : keeper' = Staged!Written(keeper, n, b, hidden)
    BY DEF Staged!Change
  <2>2. ASSUME NEW n \in 1..Chunks, NEW b \in Bytes, NEW hidden \in BOOLEAN
        PROVE  /\ IsCopy(Staged!Written(keeper, n, b, hidden))
               /\ Staged!Written(keeper, n, b, hidden).ctime = changes + 1
    BY <1>2, <1>4
  <2>3. LET g == [keeper EXCEPT !.there = FALSE]
        IN  IsCopy(g) /\ g.ctime = keeper.ctime /\ g.bytes = keeper.bytes
    BY <1>3, <1>4
  <2> QED  BY <1>4, <2>1, <2>2, <2>3
<1>7. CopiesTyped'
  BY <1>1, <1>4, <1>5, <1>6 DEF StagedInv, CopiesTyped
<1>8. ComparedIsEqual'
  <2>1. ComparedIsEqual  BY DEF StagedInv
  <2>2. stage'.ctime = opened.stage /\ opened.stage <= changes => stage.ctime = opened.stage /\ stage'.bytes = stage.bytes
    BY <1>1, <1>5
  <2>3. keeper'.ctime = 0 => keeper.ctime = 0 /\ keeper'.bytes = keeper.bytes
    BY <1>1, <1>4, <1>6
  <2>4. pc \in {"read", "compare"} => (stage'.ctime = opened.stage =>
              /\ pc = "compare" => read = stage'.bytes[chunk]
              /\ keeper'.ctime = 0 =>
                   \A n \in 1..(chunk - 1) : stage'.bytes[n] = keeper'.bytes[n])
    BY <2>1, <2>2, <2>3 DEF ComparedIsEqual
  <2>5. pc \in {"open", "read", "compare"} => opened.stage \in Nat /\ opened.stage <= changes + 1
    BY <1>1, <2>1 DEF ComparedIsEqual
  <2> QED  BY <1>1, <2>1, <2>3, <2>4, <2>5 DEF ComparedIsEqual
<1> QED  BY <1>7, <1>8 DEF StagedInv

\* What verify_staged reads and compares.
LEMMA CopiesAreCompared ==
    ASSUME Chunks \in Nat, StagedInv,
           \/ Staged!Cancel \/ Staged!RevalidateKeeper \/ Staged!OpenStage \/ Staged!OpenKeeper
           \/ Staged!ReadStage \/ Staged!ReadKeeper \/ Staged!ValidateStage \/ Staged!ValidateKeeper
    PROVE  StagedInv'
<1>1. UNCHANGED <<stage, keeper, placed, changes>>
  BY DEF Staged!Cancel, Staged!RevalidateKeeper, Staged!OpenStage, Staged!OpenKeeper,
         Staged!ReadStage, Staged!ReadKeeper, Staged!ValidateStage, Staged!ValidateKeeper, Staged!world
<1>2. CopiesTyped /\ CopiesTyped'
  <2>1. CopiesTyped  BY DEF StagedInv
  <2>2. chunk' = chunk \/ chunk' = chunk + 1
    BY DEF Staged!Cancel, Staged!RevalidateKeeper, Staged!OpenStage, Staged!OpenKeeper,
         Staged!ReadStage, Staged!ReadKeeper, Staged!ValidateStage, Staged!ValidateKeeper
  <2>3. \/ opened' = opened \/ \E x : opened' = [opened EXCEPT !.stage = x]
        \/ \E x : opened' = [opened EXCEPT !.keeper = x]
    BY DEF Staged!Cancel, Staged!RevalidateKeeper, Staged!OpenStage, Staged!OpenKeeper,
         Staged!ReadStage, Staged!ReadKeeper, Staged!ValidateStage, Staged!ValidateKeeper
  <2>4. DOMAIN opened' = DOMAIN opened  BY <2>3
  <2> QED  BY <1>1, <2>1, <2>2, <2>4 DEF CopiesTyped
<1>3. ASSUME Staged!Cancel PROVE ComparedIsEqual'
  BY <1>1, <1>3 DEF StagedInv, ComparedIsEqual, Staged!Cancel
<1>4. ASSUME Staged!RevalidateKeeper PROVE ComparedIsEqual'
  BY <1>1, <1>4 DEF StagedInv, ComparedIsEqual, Staged!RevalidateKeeper, Staged!Go
<1> USE DEF Staged!Go
<1>5. ComparedIsEqual  BY DEF StagedInv
<1>6. ASSUME Staged!OpenStage PROVE ComparedIsEqual'
  <2>1. opened'.stage = stage.ctime /\ stage.ctime \in Nat
    BY <1>2, <1>6 DEF Staged!OpenStage, CopiesTyped, IsCopy
  <2> QED  BY <1>1, <1>2, <1>5, <1>6, <2>1 DEF ComparedIsEqual, CopiesTyped, Staged!OpenStage
<1>7. ASSUME Staged!OpenKeeper PROVE ComparedIsEqual'
  <2>1. opened'.stage = opened.stage  BY <1>2, <1>7 DEF Staged!OpenKeeper, CopiesTyped
  <2> QED  BY <1>1, <1>2, <1>5, <1>7, <2>1 DEF ComparedIsEqual, Staged!OpenKeeper
<1>8. ASSUME Staged!ReadStage PROVE ComparedIsEqual'
  BY <1>1, <1>5, <1>8 DEF ComparedIsEqual, Staged!ReadStage
<1>9. ASSUME Staged!ReadKeeper PROVE ComparedIsEqual'
  <2>1. chunk \in Nat /\ chunk' = chunk + 1  BY <1>2, <1>9 DEF CopiesTyped, Staged!ReadKeeper
  <2>2. \A n \in 1..(chunk' - 1) : n \in 1..(chunk - 1) \/ n = chunk  BY <2>1
  <2> QED  BY <1>1, <1>5, <1>9, <2>1, <2>2 DEF ComparedIsEqual, Staged!ReadKeeper
<1>10. ASSUME Staged!ValidateStage PROVE ComparedIsEqual'
  <2>1. CASE pc' = "refused"  BY <1>10, <2>1 DEF ComparedIsEqual
  <2>2. CASE pc' = "validate" /\ stage.ctime = opened.stage
    <3>1. chunk = Chunks + 1 /\ pc = "read"
      BY <1>2, <1>5, <1>10 DEF ComparedIsEqual, CopiesTyped, Staged!ValidateStage
    <3>2. keeper.ctime = 0 => \A n \in 1..Chunks : stage.bytes[n] = keeper.bytes[n]
      BY <1>5, <2>2, <3>1 DEF ComparedIsEqual
    <3>3. stage.bytes \in [1..Chunks -> Bytes] /\ keeper.bytes \in [1..Chunks -> Bytes]
      BY <1>2 DEF CopiesTyped, IsCopy
    <3>4. keeper.ctime = 0 => stage.bytes = keeper.bytes
      BY <3>2, <3>3
    <3> QED  BY <1>1, <1>10, <2>2, <3>4 DEF ComparedIsEqual, Staged!ValidateStage
  <2> QED  BY <1>10, <2>1, <2>2 DEF Staged!ValidateStage
<1>11. ASSUME Staged!ValidateKeeper PROVE ComparedIsEqual'
  BY <1>1, <1>5, <1>11 DEF ComparedIsEqual, Staged!ValidateKeeper, Staged!KeeperIsReviewed
<1>12. ComparedIsEqual'
  BY <1>3, <1>4, <1>6, <1>7, <1>8, <1>9, <1>10, <1>11
<1> QED  BY <1>2, <1>12 DEF StagedInv

\* If the copy may go then it was equal to the file that stays at a moment after both were
\* read (duplicates.rs verify_staged), for any files, chunks and number of changes.
THEOREM RetainedStaysEqual ==
    ASSUME Chunks \in Nat PROVE Staged!Spec => []Staged!RetainedIsEqual
<1>1. Staged!Init => StagedInv  BY StagedStart
<1>2. StagedInv /\ [Staged!Next]_(Staged!vars) => StagedInv'
  <2>1. CASE UNCHANGED Staged!vars
    BY <2>1 DEF Staged!vars, StagedInv, CopiesTyped, ComparedIsEqual
  <2> QED  BY <2>1, CopiesChange, CopiesAreCompared DEF Staged!Next
<1>3. StagedInv => Staged!RetainedIsEqual
  BY DEF StagedInv, ComparedIsEqual, Staged!RetainedIsEqual
<1> QED  BY <1>1, <1>2, <1>3, PTL DEF Staged!Spec

=============================================================================
