---------------------------- MODULE EvidenceCaches ----------------------------
(***************************************************************************)
(* What one scan remembers of the files that prove who owns an artifact    *)
(* (EvidenceCaches in core/src/scanner.rs, and core/src/lock_facts.rs): the *)
(* contents of the files it read (ContentCache), and of a lock file or a   *)
(* workspace manifest the facts it was read for (NpmLockCache, BunLockCache, *)
(* PnpmLockCache, ManifestWorkspaceCache).                                  *)
(*                                                                         *)
(* Other programs write the files meanwhile.  A version stands for the     *)
(* metadata of a file, which every change makes new; a digest is free of   *)
(* collisions.  That a file is read as it was at one moment is what         *)
(* PinnedRead shows.                                                        *)
(***************************************************************************)
EXTENDS Naturals, Sequences, FiniteSets, SequencesExt, Functions

CONSTANTS
    None,
    Paths,
    Documents,    \* Documents[g] is a sequence of what a file of grammar g may hold
    First,        \* which of them each path holds at first
    Members, Names,   \* the workspace members asked for, and the names of projects
    MaxEntries, MaxBytes,      \* MAX_CONTENT_CACHE_ENTRIES, MAX_CONTENT_CACHE_BYTES
    EntryLimit, ByteLimit,     \* of a cache of facts: MAX_ENTRIES, MAX_RETAINED_BYTES
    Slot,                      \* the size of an entry without its facts
    MaxChanges                 \* bounds what the other programs do

VARIABLES
    grammar,      \* of all files in this behaviour
    files,        \* external: what each path holds, its version, and if it is regular
    changes,
    contents, contentBytes,    \* ContentCache: the oldest use first
    facts, factBytes,          \* the cache of the grammar
    reading,      \* the call at hand
    served,       \* what the last read has returned
    answer,       \* what it was answered to own
    \* History: what the file has held since the read began
    seen

vars == <<grammar, files, changes, contents, contentBytes, facts, factBytes, reading,
          served, answer, seen>>

Grammars == {"npm", "bun", "pnpm", "manifest"}
Versions == 0..MaxChanges
Document(d) == Documents[grammar][d]
Bytes(d) == Document(d).bytes

Init ==
    /\ grammar \in Grammars
    /\ files = [p \in Paths |-> [doc |-> First[p], version |-> 0, regular |-> TRUE]]
    /\ changes = 0
    /\ contents = <<>> /\ contentBytes = 0 /\ facts = <<>> /\ factBytes = EntryLimit * Slot
    /\ reading = None /\ served = None /\ answer = None /\ seen = {}

-----------------------------------------------------------------------------
(* External: another program writes a file, or links it                    *)

Change(p, d, regular) ==
    /\ changes < MaxChanges
    /\ changes' = changes + 1
    /\ files' = [files EXCEPT ![p] = [doc |-> d, version |-> changes + 1, regular |-> regular]]
    /\ seen' = IF reading # None /\ reading.path = p THEN seen \cup {d} ELSE seen
    /\ UNCHANGED <<grammar, contents, contentBytes, facts, factBytes, reading, served, answer>>

-----------------------------------------------------------------------------
(* ContentCache::read                                                      *)

Sum(s, Size(_)) == FoldLeft(LAMBDA total, e : total + Size(e), 0, s)
MoveToEnd(s, i) == Append(RemoveAt(s, i), s[i])

\* What is left of a cache when its oldest entries go until there is room: the longest
\* of the suffixes that leave enough.
Evicted(enough) == CHOOSE s \in enough : \A t \in enough : Len(t) <= Len(s)

\* Faulty on purpose: the path is enough.
RemembersPath(e, p) == e.path = p
\* The complete metadata is what it was, and that of a file one reads.
Remembers(e, p) ==
    e.path = p /\ e.version = files[p].version /\ files[p].regular

\* A look at the cache, which forgets an entry that does not hold any more.
Lookup(p) ==
    /\ reading = None
    /\ LET cached == {i \in DOMAIN contents : contents[i].path = p}
           hit == {i \in cached : Remembers(contents[i], p)}
       IN  IF hit # {}
           THEN LET i == CHOOSE i \in hit : TRUE
                IN  /\ contents' = MoveToEnd(contents, i)
                    /\ served' = [path |-> p, doc |-> contents[i].doc]
                    /\ UNCHANGED <<contentBytes, reading>>
           ELSE /\ contents' = SelectSeq(contents, LAMBDA e : e.path # p)
                /\ contentBytes' = contentBytes
                     - Sum(SelectSeq(contents, LAMBDA e : e.path = p), LAMBDA e : Bytes(e.doc))
                /\ reading' = [path |-> p, at |-> "read", version |-> 0, doc |-> 0]
                /\ served' = None
    /\ answer' = None
    /\ seen' = {files[p].doc}
    /\ UNCHANGED <<grammar, files, changes, facts, factBytes>>

\* read_regular refuses what is no regular file of its own.
Read ==
    /\ reading # None /\ reading.at = "read"
    /\ LET f == files[reading.path]
       IN  IF f.regular
           THEN reading' = [reading EXCEPT !.at = "retain", !.version = f.version, !.doc = f.doc]
                /\ UNCHANGED seen
           ELSE reading' = None /\ seen' = {}
    /\ UNCHANGED <<grammar, files, changes, contents, contentBytes, facts, factBytes, served,
                   answer>>

\* It is remembered if it is still the same after it was read.
Retain ==
    /\ reading # None /\ reading.at = "retain"
    /\ LET p == reading.path
           d == reading.doc
           size == Bytes(d)
           stays == files[p].version = reading.version /\ files[p].regular /\ size <= MaxBytes
           left == Evicted({s \in Suffixes(contents) :
                      s = <<>> \/ (Len(s) < MaxEntries
                                   /\ Sum(s, LAMBDA e : Bytes(e.doc)) + size <= MaxBytes)})
           freed == Sum(contents, LAMBDA e : Bytes(e.doc)) - Sum(left, LAMBDA e : Bytes(e.doc))
       IN  /\ served' = [path |-> p, doc |-> d]
           /\ IF stays
              THEN /\ contents' = Append(left, [path |-> p, version |-> reading.version, doc |-> d])
                   /\ contentBytes' = contentBytes - freed + size
              ELSE UNCHANGED <<contents, contentBytes>>
    /\ reading' = None
    /\ UNCHANGED <<grammar, files, changes, facts, factBytes, answer, seen>>

-----------------------------------------------------------------------------
(* The facts of a document                                                 *)

\* A key that is given again replaces what was given before (npm, bun); importers
\* (pnpm) and patterns (manifest) add up.
Keys(d) == Document(d).keys
LastOf(d, key) ==
    LET at == {i \in DOMAIN Keys(d) : Keys(d)[i].key = key}
    IN  Keys(d)[CHOOSE i \in at : \A j \in at : j <= i]
Given(d) == {Keys(d)[i].key : i \in DOMAIN Keys(d)}

NpmOwns(d, member) == member = "" \/ (member \in Given(d) /\ LastOf(d, member).object)
BunOwns(d, member, name) ==
    /\ member \in Given(d) /\ LastOf(d, member).object
    /\ LastOf(d, member).name # None /\ name # None => LastOf(d, member).name = name
Importer(member) == IF member = "" THEN "." ELSE member
PnpmOwns(d, member) == Importer(member) \in Given(d)
\* An object stands here for a pattern that includes, anything else for one that excludes.
ManifestIncludes(d, member) ==
    LET about == {k \in Range(Keys(d)) : k.key = member}
    IN  about # {} /\ \A k \in about : k.object

\* What is kept of a document, and how that is asked.
NpmFacts(d) == {[key |-> k] : k \in {k \in Given(d) : LastOf(d, k).object}}
BunFacts(d) == {[key |-> k, name |-> LastOf(d, k).name] : k \in {k \in Given(d) : LastOf(d, k).object}}
PnpmFacts(d) == {[key |-> k] : k \in Given(d)}
ManifestFacts(d) == {[key |-> k.key, include |-> k.object] : k \in Range(Keys(d))}

NpmKnows(f, member) == member = "" \/ [key |-> member] \in f
BunKnows(f, member, name) ==
    \E k \in f : k.key = member /\ (k.name # None /\ name # None => k.name = name)
PnpmKnows(f, member) == [key |-> Importer(member)] \in f
ManifestKnows(f, member) ==
    /\ [key |-> member, include |-> TRUE] \in f
    /\ [key |-> member, include |-> FALSE] \notin f

Parsed(d, member, name) ==
    CASE grammar = "npm" -> NpmOwns(d, member)
      [] grammar = "bun" -> BunOwns(d, member, name)
      [] grammar = "pnpm" -> PnpmOwns(d, member)
      [] grammar = "manifest" -> ManifestIncludes(d, member)
Capture(d) ==
    CASE grammar = "npm" -> NpmFacts(d)
      [] grammar = "bun" -> BunFacts(d)
      [] grammar = "pnpm" -> PnpmFacts(d)
      [] grammar = "manifest" -> ManifestFacts(d)
FactOwns(f, member, name) ==
    CASE grammar = "npm" -> NpmKnows(f, member)
      [] grammar = "bun" -> BunKnows(f, member, name)
      [] grammar = "pnpm" -> PnpmKnows(f, member)
      [] grammar = "manifest" -> ManifestKnows(f, member)

Heap(f) == Cardinality(f)
Container == EntryLimit * Slot

\* The facts of a document which was parsed are kept; too many displace nothing.
Admit(d) ==
    LET size == Heap(Capture(d))
        left == Evicted({s \in Suffixes(facts) :
                  /\ Len(s) < EntryLimit
                  /\ Container + Sum(s, LAMBDA e : Heap(e.facts)) + size <= ByteLimit})
        freed == Sum(facts, LAMBDA e : Heap(e.facts)) - Sum(left, LAMBDA e : Heap(e.facts))
    IN  IF size > ByteLimit - Container THEN UNCHANGED <<facts, factBytes>>
        ELSE /\ facts' = Append(left, [digest |-> d, facts |-> Capture(d)])
             /\ factBytes' = factBytes - freed + size

\* owns_captured, includes_captured: a short file is asked directly, and an invalid one
\* is not remembered.
Owns(member, name) ==
    /\ reading = None /\ served # None /\ answer = None
    /\ LET d == served.doc
           hit == {i \in DOMAIN facts : Document(d).long /\ facts[i].digest = d}
           says(it) == [member |-> member, name |-> name, it |-> it]
       IN  IF hit # {}
           THEN LET i == CHOOSE i \in hit : TRUE
                IN  /\ answer' = says(FactOwns(facts[i].facts, member, name))
                    /\ facts' = MoveToEnd(facts, i)
                    /\ UNCHANGED factBytes
           ELSE /\ answer' = says(IF Document(d).valid THEN Parsed(d, member, name) ELSE None)
                /\ IF Document(d).long /\ Document(d).valid
                   THEN Admit(d) ELSE UNCHANGED <<facts, factBytes>>
    /\ UNCHANGED <<grammar, files, changes, contents, contentBytes, reading, served, seen>>

Next ==
    \/ \E p \in Paths, d \in DOMAIN Documents[grammar], regular \in BOOLEAN :
          Change(p, d, regular)
    \/ \E p \in Paths : Lookup(p)
    \/ Read \/ Retain
    \/ \E member \in Members, name \in Names \cup {None} : Owns(member, name)

Spec == Init /\ [][Next]_vars

-----------------------------------------------------------------------------
(* Properties                                                              *)

\* "a cached identity hit and a fresh read produce identical" evidence: what a read
\* returns was in the file at some moment of that read, cached or not.
ServedWasThere == served # None /\ reading = None => served.doc \in seen

\* A cached answer is the one that the document itself gives for this member and this
\* name, and an invalid document answers nothing.
AnsweredAsParsed ==
    answer # None =>
        answer.it = IF Document(served.doc).valid
                    THEN Parsed(served.doc, answer.member, answer.name) ELSE None

\* The caches charge what they hold, hold nothing twice, and keep within their limits.
CachesAreBounded ==
    /\ contentBytes = Sum(contents, LAMBDA e : Bytes(e.doc))
    /\ contentBytes <= MaxBytes /\ Len(contents) <= MaxEntries
    /\ factBytes = Container + Sum(facts, LAMBDA e : Heap(e.facts))
    /\ factBytes <= ByteLimit /\ Len(facts) <= EntryLimit
    /\ \A i, j \in DOMAIN contents : contents[i].path = contents[j].path => i = j
    /\ \A i, j \in DOMAIN facts : facts[i].digest = facts[j].digest => i = j

=============================================================================
