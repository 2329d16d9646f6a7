--------------------------- MODULE MeasurementCursor ---------------------------
(***************************************************************************)
(* How core/src/safety.rs measures an artifact (MeasurementCursor) for its  *)
(* review, and again before it is removed, while other programs change it.  *)
(*                                                                         *)
(* The artifact "root" holds two folders, and those hold files.  A version  *)
(* stands for the timestamps of an object: a write, a new or lost link, a   *)
(* rename and, for a folder, an entry that comes or goes make a new one.    *)
(* The digest is taken to be free of collisions: it is the set and the      *)
(* number of what was added to it.  Every file has the size one.            *)
(***************************************************************************)
EXTENDS Naturals, Sequences, FiniteSets, SequencesExt

CONSTANTS
    None,
    MaxChanges,            \* bounds what the other programs do
    MaxLinkIdentities      \* MAX_LINK_IDENTITIES

VARIABLES
    \* The file system (external)
    holds,        \* what is at each place of the artifact
    outside,      \* the files that also have a link outside the artifact
    version, now,
    \* The cursor
    round, at, policy,
    initial,      \* the root as it was first read
    stack,        \* the open folders, each with what is read of it
    entry,        \* the entry at hand
    result, groups, failure, linked, saturated,
    prints,       \* the results of the rounds that are over
    \* History: what the artifact was at the end of the first round and at the start
    \* of the second; the files that were shared when their entries were read
    seen, shared

world == <<holds, outside, version, now>>
collected == <<result, groups, failure, linked, saturated>>
vars == <<world, round, at, policy, initial, stack, entry, collected, prints, seen, shared>>

Folders == {"root", "one", "two"}
Files == {"f", "g"}
Objects == Folders \cup Files
\* The places in the artifact: the first two hold folders, the others files.
Rooms == {<<"root", "a">>, <<"root", "b">>}
Desks == {<<"one", "x">>, <<"two", "x">>}
Places == Rooms \cup Desks

Links(o) == Cardinality({p \in Places : holds[p] = o}) + (IF o \in outside THEN 1 ELSE 0)
Meta(o) == [object |-> o, version |-> version[o],
            links |-> IF o \in Files THEN Links(o) ELSE 1]
Held(d) == {p \in Places : p[1] = d /\ holds[p] # None}
Reached == {"root"} \cup {holds[p] : p \in Held("root")}
\* The artifact as a digest describes it.
Tree == {[path |-> <<"root">>, meta |-> Meta("root")]}
        \cup {[path |-> p, meta |-> Meta(holds[p])] : p \in UNION {Held(d) : d \in Reached}}

Empty == [print |-> {}, entries |-> 0, bytes |-> 0, safe |-> TRUE, pruned |-> FALSE]

Init ==
    /\ holds = [p \in Places |->
                 CASE p = <<"root", "a">> -> "one" [] p = <<"root", "b">> -> "two"
                   [] p \in Desks -> "f"]
    /\ outside = {} /\ version = [o \in Objects |-> 0] /\ now = 0
    /\ round = 1 /\ at = "new" /\ policy = "developer" /\ initial = None
    /\ stack = <<>> /\ entry = None
    /\ result = Empty /\ groups = {} /\ failure = FALSE /\ linked = {} /\ saturated = FALSE
    /\ prints = <<>> /\ seen = <<>> /\ shared = {}

-----------------------------------------------------------------------------
(* Other programs                                                          *)

Touch(S) ==
    /\ now < MaxChanges /\ round <= 2
    /\ now' = now + 1
    /\ version' = [o \in Objects |-> IF o \in S THEN now' ELSE version[o]]
    /\ UNCHANGED <<round, at, policy, initial, stack, entry, collected, prints, seen, shared>>

Write(o) == Touch({o}) /\ UNCHANGED <<holds, outside>>
Unlink(p) ==
    /\ holds[p] # None
    /\ Touch({p[1], holds[p]}) /\ holds' = [holds EXCEPT ![p] = None]
    /\ UNCHANGED outside
Link(p, o) ==
    /\ holds[p] = None
    /\ Touch({p[1], o}) /\ holds' = [holds EXCEPT ![p] = o]
    /\ UNCHANGED outside
Share(o) ==
    /\ Touch({o})
    /\ outside' = (outside \ {o}) \cup ({o} \ outside)
    /\ UNCHANGED holds
Move(p, q) ==
    /\ holds[p] # None /\ holds[q] = None
    /\ Touch({p[1], q[1], holds[p]})
    /\ holds' = [holds EXCEPT ![p] = None, ![q] = holds[p]]
    /\ UNCHANGED outside

Change ==
    \/ \E o \in Files : Write(o) \/ Share(o)
    \/ \E p \in Desks : Unlink(p) \/ \E o \in Files : Link(p, o)
    \/ \E p, q \in Desks : Move(p, q)
    \/ \E p \in Rooms : Unlink(p) \/ \E d \in {"one", "two"} \ Reached : Link(p, d)

-----------------------------------------------------------------------------
(* The cursor                                                              *)

Goto(place) == at' = place
Refused(r) == [r EXCEPT !.safe = FALSE]

\* MeasurementCursor::new.  Only what a review found safe is ever measured again.
Begin(p) ==
    /\ at = "new"
    /\ round = 2 => p = policy /\ prints[1].safe
    /\ policy' = p
    /\ initial' = Meta("root")
    /\ entry' = [path |-> <<"root">>, meta |-> Meta("root")]
    /\ seen' = IF round = 2 THEN Append(seen, Tree) ELSE seen
    /\ Goto("entry")
    /\ UNCHANGED <<world, round, stack, collected, prints, shared>>

Top == Last(stack)
Dir == Top.dir
Changed == Meta(Dir) # Top.initial

\* Directory::next.  Other programs' changes may be listed or not; what was there
\* all the time is.  Before the first read the folder is what was opened.
Read(p) ==
    /\ at = "loop" /\ stack # <<>>
    /\ p \in Held(Dir) /\ p \notin Top.read
    /\ Top.read = {} => ~Changed
    /\ entry' = [path |-> p, meta |-> Meta(holds[p])]
    /\ stack' = [stack EXCEPT ![Len(stack)].read = @ \cup {p}]
    /\ shared' = shared \cup ({holds[p]} \cap outside)
    /\ Goto("entry")
    /\ UNCHANGED <<world, round, policy, initial, collected, prints, seen>>

\* A read that fails: the rest of the folder is skipped.
FailRead ==
    /\ at = "loop" /\ stack # <<>>
    /\ stack' = Front(stack)
    /\ result' = Refused(result)
    /\ UNCHANGED <<world, round, at, policy, initial, entry, groups, failure, linked,
                   saturated, prints, seen, shared>>

\* The end of a folder.  It must be what it was when it was opened.
Close ==
    /\ at = "loop" /\ stack # <<>>
    /\ Held(Dir) \cap Top.expected \subseteq Top.read
    /\ result' = IF Changed THEN Refused(result) ELSE result
    /\ stack' = Front(stack)
    /\ UNCHANGED <<world, round, at, policy, initial, entry, groups, failure, linked,
                   saturated, prints, seen, shared>>

-----------------------------------------------------------------------------
(* Entries                                                                 *)

Contents(entries) == {e \in entries : e.meta.object \in Files}
Group(o) == {g \in groups : g.meta.object = o}

\* RegularLinkClosure::observe
Observe(m) ==
    IF failure THEN UNCHANGED <<groups, failure>>
    ELSE IF \E g \in Group(m.object) : g.meta # m \/ g.observed >= m.links
    THEN failure' = TRUE /\ UNCHANGED groups
    ELSE IF Group(m.object) # {}
    THEN /\ groups' = {IF g \in Group(m.object) THEN [g EXCEPT !.observed = @ + 1] ELSE g :
                         g \in groups}
         /\ UNCHANGED failure
    ELSE IF m.links = 1 THEN UNCHANGED <<groups, failure>>
    ELSE IF Cardinality(groups) >= MaxLinkIdentities
    THEN failure' = TRUE /\ UNCHANGED groups
    ELSE /\ groups' = groups \cup {[meta |-> m, observed |-> 1]}
         /\ UNCHANGED failure

\* Faulty on purpose: every link is counted.
FirstAlways(m) == TRUE
\* Hardlinks::first
First(m) == m.links <= 1 \/ (m.object \notin linked /\ Cardinality(linked) < MaxLinkIdentities)

\* Faulty on purpose: folders are not in the digest.
CountedFilesOnly(bytes) ==
    [result EXCEPT !.print = @ \cup ({entry} \cap Contents({entry})), !.entries = @ + 1,
                   !.bytes = @ + bytes]
\* Digest::add and the counters
Counted(bytes) ==
    [result EXCEPT !.print = @ \cup {entry}, !.entries = @ + 1, !.bytes = @ + bytes]

File ==
    LET m == entry.meta
    IN  /\ at = "entry" /\ m.object \in Files
        /\ linked' = IF m.links > 1 /\ First(m) THEN linked \cup {m.object} ELSE linked
        /\ saturated' = (saturated \/ (~First(m) /\ m.object \notin linked))
        /\ LET counted == Counted(IF First(m) THEN 1 ELSE 0)
           IN  IF policy = "strict"
               THEN /\ result' = IF m.links > 1 THEN Refused(counted) ELSE counted
                    /\ UNCHANGED <<groups, failure>>
               ELSE /\ Observe(m)
                    /\ result' = IF failure' THEN Refused(counted) ELSE counted
        /\ entry' = None /\ Goto("loop")
        /\ UNCHANGED <<world, round, policy, initial, stack, prints, seen, shared>>

\* Directory::open (the root) and open_child: what is opened is what was read.
\* "expected" is for Close: what is in the folder now is listed if it stays.
OpenFolder ==
    /\ at = "entry" /\ entry.meta.object \in Folders
    /\ LET d == IF entry.path = <<"root">> THEN "root" ELSE holds[entry.path]
       IN  IF d # None /\ (d = "root" \/ Meta(d) = entry.meta)
           THEN /\ stack' = Append(stack, [dir |-> d, initial |-> Meta(d), read |-> {},
                                           expected |-> Held(d)])
                /\ result' = Counted(0)
           ELSE result' = Refused(Counted(0)) /\ UNCHANGED stack
    /\ entry' = None /\ Goto("loop")
    /\ UNCHANGED <<world, round, policy, initial, groups, failure, linked, saturated,
                   prints, seen, shared>>

-----------------------------------------------------------------------------
(* The end                                                                 *)

\* Faulty on purpose: nobody asks whether all links were met.
VerifiedNothing == ~failure
\* RegularLinkClosure::verify
Verified == ~failure /\ \A g \in groups : g.observed = g.meta.links

\* finish.  A suggestion that was given up early has no fingerprint.
Ended(r) ==
    /\ prints' = Append(prints,
         [print |-> IF r.pruned THEN None ELSE r.print, entries |-> r.entries,
          bytes |-> r.bytes,
          safe |-> /\ r.safe /\ Meta("root") = initial /\ ~saturated
                   /\ policy = "strict" \/ r.pruned \/ Verified])
    /\ seen' = IF round = 1 THEN Append(seen, Tree) ELSE seen
    /\ round' = round + 1
    /\ Goto("new")
    /\ initial' = None /\ entry' = None /\ stack' = <<>>
    /\ result' = Empty /\ groups' = {} /\ failure' = FALSE /\ linked' = {}
    /\ saturated' = FALSE
    /\ UNCHANGED <<world, policy, shared>>

Finish == at = "loop" /\ stack = <<>> /\ Ended(result)
\* stop_after_modified_ns, for suggestions only
Prune ==
    /\ at = "loop" /\ round = 1 /\ policy # "strict"
    /\ result.entries > 0 /\ ~result.safe
    /\ Ended([result EXCEPT !.pruned = TRUE])

Next ==
    \/ Change
    \/ round <= 2 /\ \E p \in {"strict", "developer"} : Begin(p)
    \/ \E p \in Places : Read(p)
    \/ FailRead \/ Close \/ File \/ OpenFolder \/ Finish \/ Prune

Spec == Init /\ [][Next]_vars

-----------------------------------------------------------------------------
(* Properties                                                              *)

Approved(k) == Len(prints) >= k /\ prints[k].safe
\* The comparison that lets a reviewed artifact be removed.
Confirmed ==
    /\ Approved(1) /\ Approved(2) /\ prints[1].print # None
    /\ prints[1].print = prints[2].print /\ prints[1].entries = prints[2].entries

\* "observations for cleanup": when two fingerprints are equal, the artifact held, all
\* the time between the two measurements, exactly the files they describe, although
\* a measurement reads one entry after the other while the artifact is changed.
EqualMeansUntouched ==
    Confirmed => \A k \in 1..2 : Contents(seen[k]) = Contents(prints[1].print)

\* "may be shared outside this artifact": a measurement that finds nothing wrong met
\* no file that had, when it was read, a link outside the artifact.
SafeIsClosed == prints # <<>> /\ (\A k \in 1..Len(prints) : prints[k].safe) /\ at = "new"
                  => shared = {}

\* The space a confirmed review promises is that of its files, each counted once,
\* however many links they have.
CountedOnce ==
    Confirmed =>
        prints[1].bytes = Cardinality({e.meta.object : e \in prints[1].print} \cap Files)

=============================================================================
