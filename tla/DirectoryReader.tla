---------------------------- MODULE DirectoryReader ----------------------------
(***************************************************************************)
(* How core/src/safety.rs lists one open folder (Directory): with           *)
(* getattrlistbulk for measurements (next), falling back to readdir where   *)
(* the volume does not have it, and with readdir for discovery              *)
(* (next_discovery and its variants), which looks at names before anything  *)
(* else is asked of an entry.  The folder itself does not change here; what *)
(* happens when it does is in MeasurementCursor and PinnedRead.             *)
(***************************************************************************)
EXTENDS Naturals, Sequences, FiniteSets

CONSTANTS
    Count,        \* how many entries the folder has
    Neighbours,   \* the kinds of all entries but the first
    Fetch,        \* how many records a call of getattrlistbulk returns
    Step          \* how many entries one step of discovery looks at

VARIABLES
    entries,      \* external: entries[i] is a kind of entry
    mode,         \* which reader the descriptor has
    offset,       \* of the description that getattrlistbulk reads
    buffered, left, emitted, exhausted,   \* BulkReader
    place,        \* of the readdir that has replaced it
    policy,       \* what discovery is for
    delivered,    \* how often each entry was handed to the caller
    counted,      \* how often each was only counted, as a file or as skipped
    stepped,      \* history: how many entries the last step went past
    touched,      \* history: the entries whose metadata was read for discovery
    outcome

vars == <<entries, mode, offset, buffered, left, emitted, exhausted, place, policy,
          delivered, counted, stepped, touched, outcome>>

\* What readdir says of the type, what the type is, and what the name is.
Kinds == [hint : {"file", "folder", "unknown"}, type : {"file", "folder"},
          name : {"plain", "personal", "protected", "media", "managed"}]
Plausible == {k \in Kinds : k.hint # "unknown" => k.type = k.hint}
Policies == {"none", "home", "personal", "library", "caches"}

Init ==
    /\ entries = <<>>
    /\ mode = "bulk" /\ offset = 0 /\ buffered = FALSE /\ left = 0 /\ emitted = 0
    /\ exhausted = FALSE /\ place = 0 /\ policy = "none"
    /\ delivered = [i \in 1..Count |-> 0] /\ counted = [i \in 1..Count |-> 0]
    /\ stepped = 0 /\ touched = {} /\ outcome = "closed"

\* A folder is opened by a caller that will want it for one thing.
Open(e, p) ==
    /\ outcome = "closed"
    /\ entries' = e /\ policy' = p /\ outcome' = "open"
    /\ UNCHANGED <<mode, offset, buffered, left, emitted, exhausted, place, delivered,
                   counted, stepped, touched>>

Deliver(i) == delivered' = [delivered EXCEPT ![i] = @ + 1]
End == outcome' = "ended"
Failed == outcome' = "failed"

-----------------------------------------------------------------------------
(* next: BulkReader::next and next_legacy                                  *)

\* The next record of the buffer.
NextRecord ==
    /\ outcome = "open" /\ mode = "bulk" /\ ~exhausted /\ left > 0
    /\ Deliver(offset - left + 1)
    /\ left' = left - 1 /\ emitted' = emitted + 1
    /\ UNCHANGED <<entries, mode, offset, buffered, exhausted, place, policy, counted,
                   stepped, touched, outcome>>

\* A call of getattrlistbulk, with which the buffer has been allocated.
FetchRecords ==
    /\ outcome = "open" /\ mode = "bulk" /\ left = 0
    /\ buffered' = TRUE
    /\ LET n == IF Count - offset < Fetch THEN Count - offset ELSE Fetch
       IN  /\ offset' = offset + n /\ left' = n
           /\ exhausted' = (n = 0)
           /\ IF n = 0 THEN End ELSE UNCHANGED outcome
    /\ UNCHANGED <<entries, mode, emitted, place, policy, delivered, counted, stepped, touched>>

\* Faulty on purpose: the other reader takes over at any time.
FallBackAnyTime == TRUE
\* system_error: only before anything has been handed out.
FallBack == emitted = 0

\* The call is refused.  What replaces it reads a new description from its start.
Unsupported ==
    /\ outcome = "open" /\ mode = "bulk" /\ left = 0
    /\ buffered' = TRUE
    /\ IF FallBack THEN mode' = "names" /\ place' = 0 /\ UNCHANGED outcome
       ELSE Failed /\ UNCHANGED <<mode, place>>
    /\ UNCHANGED <<entries, offset, left, emitted, exhausted, policy, delivered, counted,
                   stepped, touched>>

NextLegacy ==
    /\ outcome = "open" /\ mode = "names"
    /\ IF place = Count THEN End /\ UNCHANGED <<place, delivered>>
       ELSE Deliver(place + 1) /\ place' = place + 1 /\ UNCHANGED outcome
    /\ UNCHANGED <<entries, mode, offset, buffered, left, emitted, exhausted, policy,
                   counted, stepped, touched>>

-----------------------------------------------------------------------------
(* next_discovery_filtered                                                 *)

\* initialize_names: the descriptor's own offset is where readdir will start.
InitializeNames ==
    /\ outcome = "open" /\ mode = "bulk"
    /\ IF buffered THEN Failed /\ UNCHANGED <<mode, place>>
       ELSE mode' = "names" /\ place' = offset /\ UNCHANGED outcome
    /\ UNCHANGED <<entries, offset, buffered, left, emitted, exhausted, policy, delivered,
                   counted, stepped, touched>>

Library == policy \in {"library", "caches"}
\* DiscoveryFiles::excludes_before_metadata and includes
ExcludedBefore(k) ==
    Library /\ (k.name = "protected" \/ (policy = "caches" /\ k.name = "managed"))
Wanted(k) == Library \/ (policy = "personal" /\ k.name = "personal")
\* Faulty on purpose: only what is known to be a folder is judged by its name.
ExcludedFolderHint(k) == k.hint = "folder" /\ k.name = "protected"
\* What the name alone rules out for a folder.
ExcludedFolder(k) == k.name = "protected" \/ (policy = "home" /\ k.name = "media")

\* Whether the step ends with this entry, whether its metadata is read for that,
\* or it is counted and passed.
Asks(k) ==
    /\ ~ExcludedBefore(k)
    /\ \/ k.hint = "file" /\ Wanted(k)
       \/ k.hint = "unknown" /\ ~ExcludedFolder(k)
Takes(k) ==
    /\ ~ExcludedBefore(k)
    /\ \/ k.hint = "file" /\ Wanted(k)
       \/ k.hint = "folder" /\ ~ExcludedFolder(k)
       \/ k.hint = "unknown" /\ ~ExcludedFolder(k) /\ (k.type = "folder" \/ Wanted(k))

\* One step: up to the first entry that is of interest.
Discover ==
    /\ outcome = "open" /\ mode = "names"
    /\ LET ahead == (place + 1)..(IF place + Step < Count THEN place + Step ELSE Count)
           taken == {i \in ahead : Takes(entries[i])}
           stop == IF taken = {} THEN place + Cardinality(ahead)
                   ELSE CHOOSE i \in taken : \A j \in taken : i <= j
           passed == (place + 1)..stop
       IN  /\ place' = stop /\ stepped' = stop - place
           /\ delivered' = [i \in 1..Count |->
                delivered[i] + (IF i \in passed \cap taken THEN 1 ELSE 0)]
           /\ counted' = [i \in 1..Count |->
                counted[i] + (IF i \in passed \ taken THEN 1 ELSE 0)]
           /\ touched' = touched \cup {i \in passed : Asks(entries[i])}
           /\ IF taken = {} /\ stop - place < Step THEN End ELSE UNCHANGED outcome
    /\ UNCHANGED <<entries, mode, offset, buffered, left, emitted, exhausted, policy>>

Next ==
    \/ \E k \in Plausible, l \in Neighbours, p \in Policies :
          Open([i \in 1..Count |-> IF i = 1 THEN k ELSE l], p)
    \/ NextRecord \/ FetchRecords \/ Unsupported \/ NextLegacy
    \/ InitializeNames \/ Discover

Spec == Init /\ [][Next]_vars

-----------------------------------------------------------------------------
(* Properties                                                              *)

\* "Never mix an advanced bulk offset with readdir's buffer": however the calls of
\* the two interfaces follow each other, when one of them says that the folder has
\* been listed then each entry was handed out or counted once.
ListedOnce ==
    outcome = "ended" => \A i \in 1..Count : delivered[i] + counted[i] = 1

\* "reject protected names ... before a stat or open": discovery asks nothing of an
\* entry that its name rules out, and hands out no such folder.
ProtectedUntouched ==
    \A i \in touched :
        /\ entries[i].name = "protected" => ~Library /\ entries[i].hint = "file"
        /\ entries[i].name = "managed" => policy # "caches"

=============================================================================
