---------------------------- MODULE RecentHints ----------------------------
(***************************************************************************)
(* The pool of recently changed files of core/src/refresh.rs: paths that    *)
(* may spare a scan the measurement of an artifact.  Events and finished    *)
(* scans put hints in, and a scan works on a clone that it gives back only  *)
(* when nothing came in while it ran.                                       *)
(*                                                                         *)
(* A leaf stands for a file path; Artifact[l] is the artifact it may be a   *)
(* hint of, or None where the lexical rules of remember refuse it.          *)
(***************************************************************************)
EXTENDS Naturals, Sequences, SequencesExt, FiniteSetsExt

CONSTANTS Leaves, Artifact, Weight, Scans, None,
          MaxCount,        \* RECENT_FILE_HINTS_MAX_COUNT
          MaxBytes,        \* RECENT_FILE_HINTS_MAX_BYTES
          MaxRevision      \* bounds the revision, which wraps at 2^64 in the code

VARIABLES pool,            \* runtime.recent_files
          scan,            \* the clone of each scan with the revision it was made at
          heard            \* scans during which a receipt or a clear came

vars == <<pool, scan, heard>>

Empty == [entries |-> <<>>, bytes |-> 0, revision |-> 0]

Init == pool = Empty /\ scan = [s \in Scans |-> None] /\ heard = {}

ReceivedBatch(p) == [p EXCEPT !.revision = @ + 1]

Bytes(entries) == FoldLeft(LAMBDA n, l : n + Weight[l], 0, entries)

\* remove: the hint of artifact a, if there is one.
RemoveHint(p, a) ==
    LET of == SelectSeq(p.entries, LAMBDA l : Artifact[l] = a)
    IN  IF of = <<>> THEN p
        ELSE ReceivedBatch([p EXCEPT
               !.entries = SelectSeq(p.entries, LAMBDA l : Artifact[l] # a),
               !.bytes = @ - Weight[Head(of)]])

\* Faulty on purpose: only the bytes are kept within their bound.
EvictBytes(p, weight) ==
    LET fits(k) == p.bytes - Bytes(SubSeq(p.entries, 1, k)) + weight <= MaxBytes
        k == Min({k \in 0..Len(p.entries) : fits(k)})
    IN  [p EXCEPT !.entries = SubSeq(@, k + 1, Len(@)),
                  !.bytes = @ - Bytes(SubSeq(p.entries, 1, k))]

\* The oldest hints go until there is room for one of this weight.
Evict(p, weight) ==
    LET fits(k) == /\ Len(p.entries) - k < MaxCount
                   /\ p.bytes - Bytes(SubSeq(p.entries, 1, k)) + weight <= MaxBytes
        k == Min({k \in 0..Len(p.entries) : fits(k)})
    IN  [p EXCEPT !.entries = SubSeq(@, k + 1, Len(@)),
                  !.bytes = @ - Bytes(SubSeq(p.entries, 1, k))]

\* remember: the latest leaf of an artifact takes the place of an earlier one.
Remember(p, l) ==
    IF Artifact[l] = None \/ Weight[l] > MaxBytes THEN p
    ELSE LET others == [RemoveHint(p, Artifact[l]) EXCEPT !.revision = p.revision]
             room == Evict(others, Weight[l])
         IN  ReceivedBatch([room EXCEPT !.entries = Append(@, l), !.bytes = @ + Weight[l]])

Clear(p) == ReceivedBatch([p EXCEPT !.entries = <<>>, !.bytes = 0])

-----------------------------------------------------------------------------

Hear == heard' = {s \in Scans : scan[s] # None}

\* Faulty on purpose: a batch that brings no hint leaves the revision alone.
ReceiveHints(batch) ==
    /\ pool.revision < MaxRevision
    /\ pool' = FoldLeft(Remember, pool, batch)
    /\ Hear /\ UNCHANGED scan

\* "dirty": the hints of a committed batch, which need not bring any; and "scan".
Receive(batch) ==
    /\ pool.revision < MaxRevision
    /\ pool' = ReceivedBatch(FoldLeft(Remember, pool, batch))
    /\ Hear /\ UNCHANGED scan

\* "keep", "unkeep", "reconcile_events" and changes of the granted folders.
Forget ==
    /\ pool.revision < MaxRevision
    /\ pool' = Clear(pool)
    /\ Hear /\ UNCHANGED scan

\* snapshot, when a scope is admitted.
Begin(s) ==
    /\ scan[s] = None
    /\ scan' = [scan EXCEPT ![s] = [revision |-> pool.revision, hints |-> pool,
                                    seen |-> pool.entries]]
    /\ heard' = heard \ {s}
    /\ UNCHANGED pool

\* The scan proves an artifact active by a file it met, or a hint did not hold.
Learn(s, l) ==
    /\ scan[s] # None /\ scan[s].hints.revision < MaxRevision
    /\ scan' = [scan EXCEPT ![s].hints = Remember(@, l)]
    /\ UNCHANGED <<pool, heard>>
Miss(s, l) ==
    /\ scan[s] # None /\ l \in ToSet(scan[s].hints.entries)
    /\ scan' = [scan EXCEPT ![s].hints = RemoveHint(@, Artifact[l])]
    /\ UNCHANGED <<pool, heard>>

\* replace_if_unchanged, for a complete scan; an incomplete one gives nothing back.
GiveBack(s) ==
    /\ scan[s] # None
    /\ scan' = [scan EXCEPT ![s] = None]
    /\ pool' = IF scan[s].revision = pool.revision THEN scan[s].hints ELSE pool
    /\ UNCHANGED heard
Abandon(s) ==
    /\ scan[s] # None
    /\ scan' = [scan EXCEPT ![s] = None]
    /\ UNCHANGED <<pool, heard>>

Next ==
    \/ \E batch \in {<<>>} \cup {<<l>> : l \in Leaves} : Receive(batch)
    \/ Forget
    \/ \E s \in Scans :
         \/ Begin(s) \/ GiveBack(s) \/ Abandon(s)
         \/ \E l \in Leaves : Learn(s, l) \/ Miss(s, l)

Spec == Init /\ [][Next]_vars

-----------------------------------------------------------------------------
(* Properties                                                              *)

\* "returns it only if no later receipt or invalidation changed the runtime
\* pool": what a scan gives back replaces just what it was given, so no event, no
\* keep and no hint of another scan is lost, whatever edits scans make on the way.
NothingLost ==
    \A s \in Scans :
        scan[s] # None /\ scan'[s] = None /\ pool' # pool =>
            s \notin heard /\ pool.entries = scan[s].seen
HintsAreNotLost == [][NothingLost]_vars

\* What the wire format rechecks holds of every pool that is ever sent to a
\* helper or received from one: one hint per artifact, exact bytes, both bounds.
Valid(p) ==
    /\ Len(p.entries) <= MaxCount /\ p.bytes <= MaxBytes
    /\ p.bytes = Bytes(p.entries)
    /\ \A i, j \in 1..Len(p.entries) :
         Artifact[p.entries[i]] = Artifact[p.entries[j]] => i = j
HintsAreValid ==
    Valid(pool) /\ \A s \in Scans : scan[s] # None => Valid(scan[s].hints)

=============================================================================
