---------------------------- MODULE DuplicateAnalysis ----------------------------
(***************************************************************************)
(* Which of the reviewed files are copies of each other (analyze in         *)
(* core/src/duplicates.rs), and the last comparison of a copy that is staged *)
(* for removal with the file that stays (verify_staged).  Other programs    *)
(* write and remove the files meanwhile.                                    *)
(*                                                                         *)
(* A file's content stands for its bytes; contents of one Size may share a   *)
(* Sample, and even a Digest.  Reading between two looks that find the same  *)
(* metadata is one step here, at the second look.                           *)
(***************************************************************************)
EXTENDS Naturals, Sequences, FiniteSets, SequencesExt, Functions

CONSTANTS
    None,
    Count,                   \* the files, in the order of their priority
    Contents, Size, Sample, Digest,
    Keepers,                 \* which of the files are never offered
    PeersPerBatch, ReadLimit,
    MaxChanges               \* bounds what other programs do

VARIABLES
    files, changes,          \* external
    tasks,                   \* what is to do, the next task first
    skipped, groups,         \* ordinals, and sequences of them
    bytesRead,
    outcome,
    \* History: what the files held at first, which change was the first of each, and
    \* how many there were when the comparison of each group ended
    original, changedAt, comparedAt

vars == <<files, changes, tasks, skipped, groups, bytesRead, outcome, original,
          changedAt, comparedAt>>
external == <<files, changes, original, changedAt>>

Files == 1..Count
Never == MaxChanges + 1

Init ==
    /\ files \in [Files -> [content : Contents, mtime : {0}, ctime : {0}, there : {TRUE}]]
    /\ changes = 0
    /\ tasks = <<[it |-> "validate", items |-> [i \in Files |-> i], done |-> <<>>, round |-> <<>>]>>
    /\ skipped = {} /\ groups = <<>> /\ bytesRead = 0 /\ outcome = "working"
    /\ original = [i \in Files |-> files[i].content] /\ changedAt = [i \in Files |-> Never] /\ comparedAt = <<>>

-----------------------------------------------------------------------------
(* External: other programs write, write and set the time back, or remove  *)

Change(i, file) ==
    /\ changes < MaxChanges /\ files[i].there
    /\ changes' = changes + 1
    /\ files' = [files EXCEPT ![i] = file]
    /\ changedAt' = [changedAt EXCEPT ![i] = IF @ = Never THEN changes + 1 ELSE @]
    /\ UNCHANGED <<tasks, skipped, groups, bytesRead, outcome, original, comparedAt>>
Write(i, c) ==
    Change(i, [files[i] EXCEPT !.content = c, !.mtime = changes + 1, !.ctime = changes + 1])
WriteBack(i, c) ==
    Size[c] = Size[files[i].content]
    /\ Change(i, [files[i] EXCEPT !.content = c, !.ctime = changes + 1])
Delete(i) == Change(i, [files[i] EXCEPT !.there = FALSE])

-----------------------------------------------------------------------------
(* The analysis, one item or batch after the other                         *)

\* open_input and validate_as_input: the file is the one that was reviewed.
AsReviewed(i) == files[i].there /\ files[i].ctime = 0

\* reserve: it is charged before it is read.
Affordable(bytes) == bytesRead + bytes <= ReadLimit
Charge(bytes) == bytesRead' = bytesRead + bytes

\* Not worth to look at: a single file, or nothing that could be offered.
Useless(items) == Len(items) < 2 \/ Range(items) \subseteq Keepers

\* Task t in place of the one in front: those of its groups that are of use, in the
\* order of their first members.  The rest of the tasks follows.
Task(it, items) == [it |-> it, items |-> items, done |-> <<>>, round |-> <<>>]
Grouped(done) ==
    LET keys == FoldLeft(LAMBDA s, d : IF d.key \in Range(s) THEN s ELSE Append(s, d.key), <<>>, done)
        of(k) == SelectSeq(done, LAMBDA d : d.key = k)
    IN  [n \in DOMAIN keys |-> [m \in DOMAIN of(keys[n]) |-> of(keys[n])[m].item]]
Split(t, it) ==
    LET useful == SelectSeq(Grouped(t.done), LAMBDA g : ~Useless(g))
    IN  [n \in DOMAIN useful |-> Task(it, useful[n])]

After == [validate |-> "sample", sample |-> "hash", hash |-> "compare"]
KeyOf(it, i) ==
    LET c == files[i].content
    IN  CASE it = "validate" -> Size[c] [] it = "sample" -> Sample[c] [] it = "hash" -> Digest[c]
Cost(it, i) ==
    CASE it = "validate" -> 0
      [] it = "sample" -> 1
      [] it = "hash" -> Size[files[i].content]

\* The next file of a task is put under its key, or skipped.
Examine ==
    /\ outcome = "working" /\ tasks # <<>>
    /\ LET t == Head(tasks)
           i == Head(t.items)
       IN  /\ t.it \in DOMAIN After /\ t.items # <<>>
           /\ Affordable(Cost(t.it, i)) /\ Charge(Cost(t.it, i))
           /\ LET rest == [t EXCEPT !.items = Tail(@)]
              IN  IF AsReviewed(i)
                  THEN /\ tasks' = <<[rest EXCEPT !.done =
                                          Append(@, [item |-> i, key |-> KeyOf(t.it, i)])]>>
                                     \o Tail(tasks)
                       /\ UNCHANGED skipped
                  ELSE tasks' = <<rest>> \o Tail(tasks) /\ skipped' = skipped \cup {i}
    /\ UNCHANGED <<external, groups, outcome, comparedAt>>
Regroup ==
    /\ outcome = "working" /\ tasks # <<>>
    /\ LET t == Head(tasks)
       IN  /\ t.it \in DOMAIN After /\ t.items = <<>>
           /\ tasks' = Split(t, After[t.it]) \o Tail(tasks)
    /\ UNCHANGED <<external, skipped, groups, bytesRead, outcome, comparedAt>>

\* Everything in the group of the task in front is skipped.
SkipGroup(t, all) ==
    /\ tasks' = Tail(tasks) /\ skipped' = skipped \cup all
    /\ UNCHANGED <<groups, bytesRead, outcome, comparedAt>>

\* exact_classes: the first of the files that are left is compared with the others, some
\* at a time; those that differ are left for the next round.  done holds the classes that
\* are complete, round the class and the mismatches of this round and how many were compared.
Compare ==
    /\ outcome = "working" /\ tasks # <<>> /\ Head(tasks).it = "compare"
    /\ LET t == Head(tasks)
           left == t.items
           all == Range(left) \cup UNION {Range(t.done[n]) : n \in DOMAIN t.done}
           round == IF t.round = <<>> THEN <<<<Head(left)>>, <<>>, 1>> ELSE t.round
           batch == SubSeq(left, round[3] + 1,
                           IF round[3] + PeersPerBatch <= Len(left) THEN round[3] + PeersPerBatch
                           ELSE Len(left))
           same(i) == files[i].content = files[Head(left)].content
           cost == (Len(batch) + 1) * Size[files[Head(left)].content]
           class == round[1] \o SelectSeq(batch, same)
           mismatches == round[2] \o SelectSeq(batch, LAMBDA i : ~same(i))
           compared == round[3] + Len(batch)
       IN  IF left = <<>>
           THEN /\ tasks' = <<[Task("finalize", SetToSeq(all)) EXCEPT !.done = t.done,
                                                                     !.round = <<changes>>]>>
                            \o Tail(tasks)
                /\ UNCHANGED <<skipped, groups, bytesRead, outcome, comparedAt>>
           ELSE IF Len(left) = 1
           THEN /\ tasks' = <<[t EXCEPT !.items = <<>>, !.done = Append(@, left)]>> \o Tail(tasks)
                /\ UNCHANGED <<skipped, groups, bytesRead, outcome, comparedAt>>
           ELSE IF \E i \in {Head(left)} \cup Range(batch) : ~AsReviewed(i)
           THEN SkipGroup(t, all)
           ELSE /\ Affordable(cost) /\ Charge(cost)
                /\ tasks' = <<IF compared < Len(left)
                              THEN [t EXCEPT !.round = <<class, mismatches, compared>>]
                              ELSE [t EXCEPT !.items = mismatches, !.round = <<>>,
                                             !.done = Append(@, class)]>> \o Tail(tasks)
                /\ UNCHANGED <<skipped, groups, outcome, comparedAt>>
    /\ UNCHANGED external

\* Faulty on purpose: what was just compared needs no look.
FinalizeAtOnce ==
    /\ outcome = "working" /\ tasks # <<>> /\ Head(tasks).it = "finalize"
    /\ LET t == Head(tasks)
           found == SelectSeq(t.done, LAMBDA g : ~Useless(g))
       IN  /\ groups' = groups \o found
           /\ comparedAt' = comparedAt \o [n \in DOMAIN found |-> t.round[1]]
           /\ tasks' = Tail(tasks)
           /\ UNCHANGED <<skipped, bytesRead, outcome>>
    /\ UNCHANGED external
\* finalize_hash_group: one that changed takes the whole group with it, or else its
\* classes are the groups.
Finalize ==
    /\ outcome = "working" /\ tasks # <<>> /\ Head(tasks).it = "finalize"
    /\ LET t == Head(tasks)
           all == UNION {Range(t.done[n]) : n \in DOMAIN t.done}
           found == SelectSeq(t.done, LAMBDA g : ~Useless(g))
       IN  IF t.items = <<>>
           THEN /\ groups' = groups \o found
                /\ comparedAt' = comparedAt \o [n \in DOMAIN found |-> t.round[1]]
                /\ tasks' = Tail(tasks)
                /\ UNCHANGED <<skipped, bytesRead, outcome>>
           ELSE IF AsReviewed(Head(t.items))
           THEN /\ tasks' = <<[t EXCEPT !.items = Tail(@)]>> \o Tail(tasks)
                /\ UNCHANGED <<skipped, groups, bytesRead, outcome, comparedAt>>
           ELSE SkipGroup(t, all)
    /\ UNCHANGED external

\* finish_stopped: what was found stays.  A checkpoint finds a cancel or the end of the
\* time anywhere; and a read that was not granted is one, too.
Stop ==
    /\ outcome = "working"
    /\ outcome' \in {"cancelled", "limited"}
    /\ UNCHANGED <<external, tasks, skipped, groups, bytesRead, comparedAt>>
Complete ==
    /\ outcome = "working" /\ tasks = <<>>
    /\ outcome' = "complete"
    /\ UNCHANGED <<external, tasks, skipped, groups, bytesRead, comparedAt>>

Next ==
    \/ Examine \/ Regroup \/ Compare \/ Finalize \/ Stop \/ Complete
    \/ outcome = "working"
       /\ \E i \in Files : Delete(i) \/ \E c \in Contents : Write(i, c) \/ WriteBack(i, c)

Spec == Init /\ [][Next]_vars

-----------------------------------------------------------------------------
(* Properties                                                              *)

InGroup(i, n) == i \in Range(groups[n])

\* "byte-for-byte comparison of independently owned local files": for every group there
\* was a moment, after its last comparison, when all of its files were as reviewed, and
\* what they held then was equal, even where their digests would be without that.
GroupsWereEqual ==
    \A n \in DOMAIN groups :
        /\ \A i, j \in Range(groups[n]) :
              changedAt[i] > comparedAt[n] /\ original[i] = original[j]
        /\ Len(groups[n]) >= 2 /\ ~(Range(groups[n]) \subseteq Keepers)

\* A complete analysis has put any two equal files that did not change, and of which one
\* could be offered, in one group, unless one that could collide with them changed.
CompleteFindsAll ==
    outcome = "complete" /\ changes = 0 =>
        /\ skipped = {}
        /\ \A i, j \in Files :
              i # j /\ files[i].content = files[j].content
              /\ (\E k \in Files : k \notin Keepers /\ files[k].content = files[i].content)
              => \E n \in DOMAIN groups : InGroup(i, n) /\ InGroup(j, n)

\* No file is in two groups, none that was skipped before is in one, and the bytes that
\* were read keep to the limit.
AnalysisIsBounded ==
    /\ \A m, n \in DOMAIN groups : m # n => Range(groups[m]) \cap Range(groups[n]) = {}
    /\ \A n \in DOMAIN groups : Range(groups[n]) \cap skipped = {}
    /\ bytesRead <= ReadLimit

=============================================================================
