--------------------------------- MODULE MCReaders ---------------------------------
(* The parts that read folders, files and streams, in one instance: each    *)
(* behaviour is a behaviour of one part.                                    *)
EXTENDS Naturals, Sequences, FiniteSets, TLC

CONSTANTS None, l1, l2, l3, l4, s1, s2

\* part says whose behaviour it is; the slots hold the variables of that part,
\* and the slots it does not need hold None.
VARIABLES
    part,
    x1, x2, x3, x4, x5, x6, x7, x8, x9, x10, x11, x12, x13, x14, x15, x16,
    x17, x18, x19, x20, x21

slots == <<x1, x2, x3, x4, x5, x6, x7, x8, x9, x10, x11, x12, x13, x14, x15,
           x16, x17, x18, x19, x20, x21>>
vars == <<part, slots>>

\* A first entry of any kind has neighbours of one of these kinds.
Entry(hint, type, name) == [hint |-> hint, type |-> type, name |-> name]
SomeEntries == {Entry("file", "file", "plain"), Entry("folder", "folder", "plain"),
                Entry("unknown", "folder", "plain"), Entry("folder", "folder", "protected")}
\* Two leaves in one artifact, one of them twice as heavy.
HintArtifact == [l \in {l1, l2, l3, l4} |->
    CASE l \in {l1, l2} -> "one" [] l = l3 -> "two" [] l = l4 -> "three"]
HintWeight == [l \in {l1, l2, l3, l4} |-> IF l = l2 THEN 2 ELSE 1]
\* The root holds two entries, and each of them one.  A world has everything
\* that one of the entries may be next to usual ones.
ScanTree == <<0, 1, 2, 1, 4>>
Thing(dir, name, evidence, age, content) ==
    [dir |-> dir, name |-> name, evidence |-> evidence, age |-> age, content |-> content,
     busy |-> FALSE, tracked |-> FALSE, barred |-> FALSE]
Folder == Thing(TRUE, "plain", "none", "touched", "good")
Good == Thing(TRUE, "artifact", "found", "old", "good")
File == Thing(FALSE, "plain", "found", "old", "good")
Artifacts(name) ==
    {Thing(TRUE, name, "found", "old", c) : c \in {"good", "recent", "broken"}}
    \cup {Thing(TRUE, name, "found", a, "good") : a \in {"touched", "young"}}
    \cup {Thing(TRUE, name, e, "old", "good") : e \in {"none", "error"}}
Odd == {[Good EXCEPT !.busy = TRUE], [Good EXCEPT !.tracked = TRUE],
        [Good EXCEPT !.barred = TRUE]}
Around == {Folder, Good, [Folder EXCEPT !.evidence = "error"]} \cup Artifacts("conditional")
ScanWorlds ==
    {<<Folder, Folder, Good, Folder, f>> : f \in {File, [File EXCEPT !.age = "young"]}}
    \cup {<<Folder, a, Good, c, File>> : a \in Around, c \in {Good, [Good EXCEPT !.age = "young"]}}
    \cup {<<Folder, Folder, Good, c, File>> : c \in Artifacts("artifact") \cup Odd}
ScanScopes ==
    {[starts |-> <<1>>, logical |-> FALSE, exact |-> FALSE],
     [starts |-> <<2>>, logical |-> FALSE, exact |-> TRUE],
     [starts |-> <<2, 4>>, logical |-> TRUE, exact |-> FALSE]}
\* Documents: a short one, one that cannot be parsed, a key that is given twice, keys
\* of every sort, a usual one, and one with more facts than are kept.
Key(key, object, name) == [key |-> key, object |-> object, name |-> name]
Doc(bytes, long, valid, keys) == [bytes |-> bytes, long |-> long, valid |-> valid, keys |-> keys]
SomeDocuments == [g \in {"npm", "bun", "pnpm", "manifest"} |->
    <<Doc(1, FALSE, TRUE, <<Key("a", TRUE, "shop")>>),
      Doc(2, TRUE, FALSE, <<Key("a", TRUE, "shop")>>),
      Doc(2, TRUE, TRUE, <<Key("a", TRUE, "shop"), Key("a", FALSE, None)>>),
      Doc(3, TRUE, TRUE, <<Key("a", TRUE, "toys"), Key("", TRUE, None), Key(".", TRUE, None)>>),
      Doc(2, TRUE, TRUE, <<Key("a", TRUE, None)>>),
      Doc(6, TRUE, TRUE, <<Key("a", TRUE, "shop"), Key("", TRUE, None), Key(".", TRUE, None),
                           Key("b", TRUE, "toys")>>)>>]
SomeParts == {<<>>, <<".">>, <<"*", "*">>, <<"*">>, <<"a">>, <<"a", "*", "a">>,
              <<"*", "a", "b", "*", "b">>, <<".", "*">>, <<"?">>}
SomeComponents == {<<>>, <<"a">>, <<".", "a">>, <<"a", "a", "b", "b">>, <<"a", "b", "a">>, <<"b">>}
OneSize == [c \in {"a", "b", "c"} |-> 1]
\* Two contents collide.
SomeDigests == [c \in {"a", "b", "c"} |-> IF c = "c" THEN 2 ELSE 1]
\* The physical folders of three repositories with a worktree each, and a link that looks
\* like one; pointers by several ways, and configurations of two and four lines.
WorktreeOf(repo) == repo \o <<".git", "worktrees", "x">>
UpTo(p) == {SubSeq(p, 1, n) : n \in 0..Len(p)}
SomeFolders ==
    UpTo(<<"r", "w", ".git">>)
    \cup UNION {UpTo(WorktreeOf(m)) : m \in {<<"r", "m">>, <<"o", "m">>, <<"o", "k">>}}
SomeLinks == [p \in {<<"r", "l">>} |-> <<"o", "k">>]
Pointer(absolute, parts) == [is |-> "file", absolute |-> absolute, parts |-> parts]
Up(n) == [m \in 1..n |-> ".."]
SomeMarkers ==
    {Pointer(FALSE, p) :
        p \in {Up(1) \o WorktreeOf(<<"m">>), Up(1) \o WorktreeOf(<<"l">>),
               <<"..", "l", "..">> \o WorktreeOf(<<"m">>), <<"..", "m", "..">> \o WorktreeOf(<<"m">>),
               <<>>, Up(4), Up(2) \o WorktreeOf(<<"o", "m">>)}}
    \cup {Pointer(TRUE, WorktreeOf(p)) : p \in {<<"r", "m">>, <<"o", "m">>, <<"r", "l", "..", "m">>}}
SomeCommons ==
    {Pointer(FALSE, p) : p \in {Up(1), Up(2), <<".">> \o Up(2), Up(4) \o <<"l", "..", "m", ".git">>}}
    \cup {Pointer(TRUE, p) : p \in {<<"r", "m", ".git">>, <<"r", "l", "..", "m", ".git">>}}
SomeBacks ==
    {Pointer(FALSE, Up(4) \o <<"w", ".git">>)}
    \cup {Pointer(TRUE, p) : p \in {<<"r", "w", ".git">>, <<"r", "v", ".git">>,
                                    <<"r", "l", "..", "w", ".git">>}}
Line(begins, name, continued, behind) ==
    [begins |-> begins, name |-> name, continued |-> continued, behind |-> behind]
Headers == {Line("section", n, FALSE, None) : n \in {"core", "include", "other", "extensions"}}
Settings == {Line("key", n, FALSE, None) : n \in {"sparseCheckout", "objectFormat", "path"}}
Continued(l) == [l EXCEPT !.continued = TRUE]
SomeConfigs ==
    [1..2 -> Headers \cup Settings \cup {Line("section", "extensions", FALSE, "objectFormat")}]
    \cup {<<h1, s, h2, l>> : h1 \in Headers, h2 \in Headers, l \in Settings,
                              s \in Settings \cup {Continued(t) : t \in Settings}}
World(m, c, b, g) == [marker |-> m, common |-> c, back |-> b, config |-> g]
SomeWorlds ==
    LET folder == [is |-> "folder", absolute |-> FALSE, parts |-> <<>>]
    IN  {World(m, c, b, <<>>) : m \in {None, folder} \cup SomeMarkers, c \in {None} \cup SomeCommons,
                                b \in {None} \cup SomeBacks}
        \cup {World(folder, None, None, g) : g \in SomeConfigs}
Header(name, value) == [name |-> name, value |-> value]
Octets(s) == [n \in DOMAIN s |-> [name |-> "byte", value |-> s[n]]]
Fine == <<Header("status", "200"), Header("type", "json")>>
Chunked == Header("encoding", "chunked")
Record(id, size, inUse) == [id |-> id, size |-> size, inUse |-> inUse]
TwoRecords == <<Record("a", 2, TRUE), Record("b", 1, FALSE)>>
Message(headers, chunks, records) == [headers |-> headers, chunks |-> chunks, records |-> records]
\* Chunks that look like the ends of lines and of chunks, and how they may be framed.
SomeChunks == {<<>>, <<Octets(<<"x", "r", "n">>)>>, <<Octets(<<"r", "n", "0", "r", "n">>)>>,
               <<Octets(<<"x", "r", "n", "1">>), Octets(<<"x">>)>>}
Frames == {<<Chunked>>} \cup {<<Header("length", n)>> : n \in {"0", "2", "3", "5"}}
SomeMessages ==
    {Message(Fine \o f, c, TwoRecords) : f \in Frames, c \in SomeChunks}
    \cup {Message(Fine \o <<Chunked>>, <<Octets(<<"x">>)>>, r) :
            r \in {<<>>, <<Record("a", 1, FALSE), Record("a", 1, TRUE)>>,
                   <<Record("a", 2, FALSE), Record("b", 2, FALSE)>>}}
    \cup {Message(h, <<Octets(<<"x">>)>>, <<>>) :
            h \in {<<>>, Fine, Fine \o <<Header("length", "1"), Chunked>>,
                   Fine \o <<Header("length", "1"), Header("length", "1")>>,
                   <<Header("status", "500")>>,
                   Fine \o <<Header("content", "gzip"), Header("length", "1")>>}}
SomeKinds == [o \in {"top", "home", "lib", "store", "sub", "f", "g", "z", "w"} |->
    CASE o \in {"f", "g"} -> "file" [] o = "z" -> "fenced" [] o = "w" -> "foreign"
      [] OTHER -> "folder"]
\* A file with two links; beside it nothing, a link that is not followed, or a file that is
\* too much for a word, with an image of another user.
Usual == << << <<"top", "home">>, "home">>, << <<"home", "lib">>, "lib">>,
            << <<"lib", "store">>, "store">>, << <<"store", "s">>, "sub">>,
            << <<"store", "x">>, "f">>, << <<"sub", "x">>, "f">>, << <<"lib", "image">>, "g">> >>
StoragePlaces == {Usual[n][1] : n \in DOMAIN Usual}
    \cup {<<"top", "aside">>, <<"home", "aside">>, <<"lib", "aside">>, <<"store", "y">>, <<"sub", "y">>}
Holding(s) == [p \in StoragePlaces |->
    IF \E n \in DOMAIN s : s[n][1] = p THEN s[CHOOSE n \in DOMAIN s : s[n][1] = p][2] ELSE None]
SomeHolds == {Holding(Usual), Holding(<< << <<"sub", "y">>, "z">> >> \o Usual),
              Holding(<< << <<"sub", "y">>, "g">>, << <<"lib", "image">>, "w">> >> \o Usual)}
SomeMoves == {<< <<"sub", "x">>, <<"store", "y">> >>, << <<"store", "x">>, <<"sub", "y">> >>,
              << <<"lib", "store">>, <<"lib", "aside">> >>,
              << <<"home", "lib">>, <<"home", "aside">> >>, << <<"home", "aside">>, <<"home", "lib">> >>,
              << <<"top", "home">>, <<"top", "aside">> >>}
StorageRoutes ==
    <<[names |-> <<"lib", "image">>, fileOnly |-> TRUE, skip |-> {}, only |-> None],
      [names |-> <<"lib", "store">>, fileOnly |-> FALSE, skip |-> {"y"}, only |-> None]>>

\* Processes in the location and out of it, one of each kind that cannot be seen.
Doing(name, exe, cwd, apps, shows) ==
    [name |-> name, exe |-> exe, cwd |-> cwd, apps |-> apps, shows |-> shows]
SomeUses ==
    {Doing("other", "in", "out", {}, "all"), Doing("other", "out", "in", {}, "all"),
     Doing("zig", "out", "out", {}, "all"), Doing("other", "out", "out", {"app", "helper"}, "all"),
     Doing("other", "out", "unknown", {}, "all"), Doing("other", "out", "in", {}, "nothing"),
     Doing("other", "out", "in", {}, "path")}
SomeGates ==
    {[kind |-> "devcache", route |-> "zig", owners |-> {}], [kind |-> "node", route |-> "none", owners |-> {}],
     [kind |-> "cache", route |-> "zig", owners |-> {"org.app"}]}
\* What is in a project at first: the markers of one tool, of two, of none that says enough.
Marker(n) == <<"project", n>>
SomeStarts ==
    [n \in {".build", ".dart_tool", ".zig-cache", ".gradle", "bin", "build", "__pycache__", ".venv", ".next"} |->
     CASE n = ".build" -> {Marker("Package.swift") :> "plain"}
       [] n = ".dart_tool" -> {Marker("pubspec.yaml") :> "flutter"}
       [] n = ".zig-cache" -> {(Marker("build.zig") :> "plain") @@ (Marker("build.zig.zon") :> "plain")}
       [] n = ".gradle" -> {(Marker("build.gradle") :> "plain") @@ (Marker("settings.gradle") :> "overrides")}
       [] n = "bin" -> {Marker("b.csproj") :> "plain",
                        (Marker("a.csproj") :> "plain") @@ (Marker("b.csproj") :> "plain")
                            @@ (<<"above", "Directory.Build.props">> :> "overrides")}
       [] n = "build" -> {(Marker("pubspec.yaml") :> "plain") @@ (Marker(".metadata") :> "flutter")
                              @@ (Marker("build.gradle.kts") :> "plain"),
                          Marker("pubspec.yaml") :> "flutter", Marker("build.gradle.kts") :> "plain"}
       [] n = "__pycache__" ->
            LET bytecode == <<"artifact", "m.cpython-312.pyc">> :> "bytecode"
                source == Marker("m.py") :> "plain"
            IN  {bytecode, bytecode @@ source,
                 bytecode @@ source @@ (<<"artifact", "other">> :> "bytecode")}
       [] n = ".venv" -> {<<"artifact", "pyvenv.cfg">> :> "plain"}
       [] n = ".next" -> {Marker("package.json") :> "plain"}]
\* A candidate that others may write before a good one, settings that contradict each other,
\* a tool of another user; lists that cannot be read, that mark nothing, two or no name.
SomeWanted == <<{"homebrew", "uv", "pnpm", "docker", "editor"}, {"homebrew"}>>
Removal(n) == [remove |-> TRUE, size |-> n]
Note == [remove |-> FALSE, size |-> None]
Says(ok, what) == [ok |-> ok, says |-> what]
SomeOutputs ==
    [p \in {"homebrew", "uv", "pnpm", "docker"} |->
     CASE p = "homebrew" ->
            <<{Says(FALSE, <<>>)} \cup
              {Says(TRUE, l) : l \in {<<>>, <<Removal(2), Note, Removal(1)>>,
                  <<Removal(2), Removal(2), Removal(1)>>, <<Removal(None), Removal(1)>>,
                  <<Note, Note, Note, Removal(1)>>}}>>
       [] p = "uv" -> <<{Says(TRUE, "path"), Says(TRUE, "nonsense"), Says(FALSE, "path")}>>
       [] p = "pnpm" -> <<{Says(TRUE, "path"), Says(TRUE, "nonsense")},
                          {Says(TRUE, "status"), Says(FALSE, "status")}>>
       [] p = "docker" -> <<{Says(TRUE, "owned socket"), Says(TRUE, "remote")}, {Says(TRUE, 3)}>>]
Candidate(writable, owner) ==
    [inside |-> TRUE, named |-> TRUE, executable |-> TRUE, writable |-> writable, owner |-> owner]
Trusty == <<Candidate(TRUE, "user"), Candidate(FALSE, "root")>>
Removed(n, obsolete) == [name |-> n, obsolete |-> obsolete]
Both == [valid |-> TRUE, marks |-> <<Removed("a", TRUE), Removed("b", TRUE)>>]
SomeLists ==
    {None, Both, [valid |-> FALSE, marks |-> <<>>], [valid |-> TRUE, marks |-> <<Removed("a", FALSE)>>],
     [valid |-> TRUE, marks |-> <<Removed("..", TRUE)>>]}
Extension(n) == [version |-> 0, is |-> "folder", package |-> n]
Installation(tool, lower, upper, root, list, a) ==
    [installed |-> [tool |-> tool, lower |-> lower, upper |-> upper], root |-> root, list |-> list,
     folder |-> [n \in {"a", "b"} |-> IF n = "a" THEN a ELSE Extension(n)]]
SomeInstallations ==
    {Installation(Trusty, "unset", "a", 0, l, Extension("a")) : l \in SomeLists}
    \cup {Installation(Trusty, "a", "b", None, None, None), Installation(Trusty, "unset", "a", 0, Both, None),
          Installation(Trusty, "unset", "unset", None, None, None),
          Installation(<<Candidate(FALSE, "other")>>, "unset", "unset", None, None, None)}

\* Three changes by other programs while a path is observed up to three times.
Scope == INSTANCE ScopeProof WITH
    MaxChanges <- 3, Attempts <- 3, reaches <- x1, granted <- x2,
    holds <- x3, version <- x4, dead <- x5, now <- x6, at <- x7, want <- x8,
    bound <- x9, fds <- x10, opened <- x11, expected <- x12, observed <- x13,
    attempt <- x14, read <- x15, answer <- x16, whose <- x17, first <- x18,
    witness <- x19

\* Three changes while an artifact is measured twice.
Measure == INSTANCE MeasurementCursor WITH
    MaxChanges <- 3, MaxLinkIdentities <- 1, holds <- x1, outside <- x2,
    version <- x3, now <- x4, round <- x5, at <- x6, policy <- x7,
    initial <- x8, stack <- x9, entry <- x10, result <- x11, groups <- x12,
    failure <- x13, linked <- x14, saturated <- x15, prints <- x16,
    seen <- x17, shared <- x18

\* Two changes while a file is read in two parts.
Pinned == INSTANCE PinnedRead WITH
    MaxChanges <- 2, MaxManifest <- 2, leads <- x1, holds <- x2,
    contents <- x3, version <- x4, now <- x5, task <- x6, at <- x7,
    round <- x8, parent <- x9, initial <- x10, child <- x11, before <- x12,
    bytes <- x13, been <- x14, broken <- x15

\* Three entries, fetched and looked at two at a time.
Directory == INSTANCE DirectoryReader WITH
    Count <- 3, Fetch <- 2, Step <- 2, Neighbours <- SomeEntries,
    entries <- x1, mode <- x2, offset <- x3, buffered <- x4, left <- x5,
    emitted <- x6, exhausted <- x7, place <- x8, policy <- x9,
    delivered <- x10, counted <- x11, stepped <- x12, touched <- x13,
    outcome <- x14

\* Two scans take hints and give them back.
Hints == INSTANCE RecentHints WITH
    Leaves <- {l1, l2, l3, l4}, Scans <- {s1, s2}, Artifact <- HintArtifact,
    Weight <- HintWeight, MaxCount <- 2, MaxBytes <- 3, MaxRevision <- 2,
    pool <- x1, scan <- x2, heard <- x3

\* Two digits of a length, bodies of up to two bytes.
Stream == INSTANCE FrameStream WITH
    Base <- 2, PrefixBytes <- 2, MaxFrameBytes <- 2, MaxStream <- 8,
    MaxChunk <- 3, wire <- x1, taken <- x2, buffer <- x3, frames <- x4,
    outcome <- x5

\* A scan of five entries with one failure or change.
Traversal == INSTANCE Traversal WITH
    Above <- ScanTree, Worlds <- ScanWorlds, Scopes <- ScanScopes,
    Keeps <- {{}, {2}, {3}}, Frontier <- 1, ActiveMax <- 2, DeferMax <- 1,
    MaxDepth <- 3, MaxFaults <- 1, is <- x1, kept <- x2, changed <- x3,
    scope <- x4, mode <- x5, next <- x6, frontier <- x7, deferred <- x8,
    measuring <- x9, turn <- x10, laneTurn <- x11, hints <- x12, look <- x13,
    rows <- x14, errors <- x15, outcome <- x16, faults <- x17, opened <- x18,
    tallied <- x19, waited <- x20, noted <- x21

\* Three files of one grammar, caches of two, and one change.
Caches == INSTANCE EvidenceCaches WITH
    Paths <- {"p", "q", "r"}, Documents <- SomeDocuments,
    First <- [p |-> 3, q |-> 4, r |-> 5], Members <- {"", "a"},
    Names <- {"shop", "toys"}, MaxEntries <- 2, MaxBytes <- 5,
    EntryLimit <- 2, ByteLimit <- 5, Slot <- 1, MaxChanges <- 1,
    grammar <- x1, files <- x2, changes <- x3, contents <- x4,
    contentBytes <- x5, facts <- x6, factBytes <- x7, reading <- x8,
    served <- x9, answer <- x10, seen <- x11

\* A project two folders below its grant, and two more files.
Owner == INSTANCE ProjectEvidence WITH
    Depth <- 3, MaxFiles <- 2, adapter <- x1, says <- x2, custom <- x3

\* Patterns of up to two parts, paths of up to three components.
Globs == INSTANCE WorkspaceGlobs WITH
    Parts <- SomeParts, Components <- SomeComponents, MaxParts <- 2,
    MaxComponents <- 3, pattern <- x1, path <- x2, at <- x3, row <- x4,
    result <- x5

\* A project below a grant below a folder outside of it, and two changes.
LastLook == INSTANCE Revalidation WITH
    Levels <- 1..3, Grant <- 2, Uses <- {"program", "folder"},
    MaxChanges <- 2, content <- x1, config <- x2, busy <- x3, repo <- x4,
    changes <- x5, pc <- x6, round <- x7, todo <- x8, level <- x9,
    saved <- x10, entry <- x11, child <- x12, pipe <- x13, pending <- x14,
    tracked <- x15, free <- x16, rested <- x17

\* Four files of one size, and one change.
Copies == INSTANCE DuplicateAnalysis WITH
    Count <- 4, Contents <- {"a", "b", "c"}, Size <- OneSize,
    Sample <- SomeDigests, Digest <- SomeDigests, Keepers <- {3},
    PeersPerBatch <- 2, ReadLimit <- 16, MaxChanges <- 1, files <- x1,
    changes <- x2, tasks <- x3, skipped <- x4, groups <- x5, bytesRead <- x6,
    outcome <- x7, original <- x8, changedAt <- x9, comparedAt <- x10

\* Two chunks of each file, and two changes.
Staged == INSTANCE StagedCopy WITH
    Chunks <- 2, Bytes <- {0, 1}, MaxChanges <- 2, stage <- x1, keeper <- x2,
    placed <- x3, changes <- x4, pc <- x5, chunk <- x6, opened <- x7,
    read <- x8, equal <- x9

\* A worktree, its repository, and a link out of the grant.
Layout == INSTANCE GitLayout WITH
    Grant <- <<"r">>, Project <- <<"r", "w">>, Folders <- SomeFolders,
    Links <- SomeLinks, Worlds <- SomeWorlds, marker <- x1, common <- x2,
    back <- x3, config <- x4, done <- x5, evidence <- x6

\* Two callers and one supervisor; one byte too many can be written.
Probes == INSTANCE ProbePool WITH
    Callers <- {l1, l2}, Workers <- {s1}, Queued <- 1, MaxBytes <- 1,
    MaxWrites <- 1, result <- x1, late <- x2, queue <- x3, worker <- x4,
    got <- x5, reply <- x6, leader <- x7, helper <- x8, written <- x9,
    reused <- x10

\* Messages framed rightly and wrongly, sums at the limit of a word.
Docker == INSTANCE DockerRead WITH
    Messages <- SomeMessages, RequestLength <- 2, MaxResponse <- 24,
    MaxRecords <- 2, Word <- 4, MaxSwaps <- 1, listening <- x1, swaps <- x2,
    server <- x3, message <- x4, sent <- x5, closed <- x6, pc <- x7,
    expected <- x8, written <- x9, response <- x10, outcome <- x11

\* An image and a folder with a folder, and two changes.
Storage == INSTANCE StorageInventory WITH
    Kind <- SomeKinds, Worlds <- SomeHolds, Moves <- SomeMoves,
    Routes <- StorageRoutes, Home <- "home", EntriesPerRoute <- 5,
    TotalEntries <- 6, Depth <- 2, MaxIssues <- 1, Word <- 3,
    MaxChanges <- 2, holds <- x1, version <- x2, size <- x3, now <- x4,
    pc <- x5, route <- x6, look <- x7, home <- x8, place <- x9, stack <- x10,
    row <- x11, inodes <- x12, entries <- x13, report <- x14, was <- x15

\* Two processes, an app that is read while it is changed twice, a look used again.
Activity == INSTANCE ActivityCheck WITH
    Self <- "self", Pids <- {"p", "q"}, Uses <- SomeUses,
    Gates <- SomeGates, Apps <- {"app", "helper"}, Local <- {"app"},
    Identifiers <- {"org.app", "org.other"}, MaxProcesses <- 3,
    MaxBundles <- 2, MaxAge <- 1, MaxTime <- 2, MaxMoves <- 1,
    MaxChanges <- 2, now <- x1, changes <- x2, cancel <- x3, runs <- x4,
    since <- x5, plist <- x6, written <- x7, gate <- x8, asked <- x9,
    at <- x10, cached <- x11, todo <- x12, here <- x13, seen <- x14,
    read <- x15, verdict <- x16

\* Markers of each tool, and two changes.
Provider == INSTANCE ProviderEvidence WITH
    Starts <- SomeStarts, MaxFiles <- 4, MaxChanges <- 2, file <- x1,
    version <- x2, artifact <- x3, changes <- x4, touched <- x5, name <- x6,
    at <- x7, scope <- x8, kind <- x9, left <- x10, entry <- x11,
    captured <- x12, found <- x13, outcome <- x14

\* Two requests, two extensions, and one change.
Managed == INSTANCE ManagedReview WITH
    Wanted <- SomeWanted, Outputs <- SomeOutputs,
    Worlds <- SomeInstallations, Lists <- SomeLists, MaxObservations <- 3,
    MaxRecords <- 1, Word <- 3, MaxChanges <- 1, view <- x1, asked <- x2,
    tasks <- x3, bridge <- x4, controls <- x5, replies <- x6, slot <- x7,
    flags <- x8, pc <- x9, said <- x10, review <- x11, installed <- x12,
    root <- x13, list <- x14, folder <- x15, changes <- x16, helper <- x17,
    stopped <- x18, heard <- x19

Init ==
    \/ part = "scope" /\ Scope!Init
       /\ x20 = None /\ x21 = None
    \/ part = "measure" /\ Measure!Init
       /\ x19 = None /\ x20 = None /\ x21 = None
    \/ part = "pinned" /\ Pinned!Init
       /\ x16 = None /\ x17 = None /\ x18 = None /\ x19 = None /\ x20 = None
       /\ x21 = None
    \/ part = "directory" /\ Directory!Init
       /\ x15 = None /\ x16 = None /\ x17 = None /\ x18 = None /\ x19 = None
       /\ x20 = None /\ x21 = None
    \/ part = "hints" /\ Hints!Init
       /\ x4 = None /\ x5 = None /\ x6 = None /\ x7 = None /\ x8 = None
       /\ x9 = None /\ x10 = None /\ x11 = None /\ x12 = None /\ x13 = None
       /\ x14 = None /\ x15 = None /\ x16 = None /\ x17 = None /\ x18 = None
       /\ x19 = None /\ x20 = None /\ x21 = None
    \/ part = "stream" /\ Stream!Init
       /\ x6 = None /\ x7 = None /\ x8 = None /\ x9 = None /\ x10 = None
       /\ x11 = None /\ x12 = None /\ x13 = None /\ x14 = None /\ x15 = None
       /\ x16 = None /\ x17 = None /\ x18 = None /\ x19 = None /\ x20 = None
       /\ x21 = None
    \/ part = "traversal" /\ Traversal!Init
    \/ part = "caches" /\ Caches!Init
       /\ x12 = None /\ x13 = None /\ x14 = None /\ x15 = None /\ x16 = None
       /\ x17 = None /\ x18 = None /\ x19 = None /\ x20 = None /\ x21 = None
    \/ part = "owner" /\ Owner!Init
       /\ x4 = None /\ x5 = None /\ x6 = None /\ x7 = None /\ x8 = None
       /\ x9 = None /\ x10 = None /\ x11 = None /\ x12 = None /\ x13 = None
       /\ x14 = None /\ x15 = None /\ x16 = None /\ x17 = None /\ x18 = None
       /\ x19 = None /\ x20 = None /\ x21 = None
    \/ part = "globs" /\ Globs!Init
       /\ x6 = None /\ x7 = None /\ x8 = None /\ x9 = None /\ x10 = None
       /\ x11 = None /\ x12 = None /\ x13 = None /\ x14 = None /\ x15 = None
       /\ x16 = None /\ x17 = None /\ x18 = None /\ x19 = None /\ x20 = None
       /\ x21 = None
    \/ part = "lastlook" /\ LastLook!Init
       /\ x18 = None /\ x19 = None /\ x20 = None /\ x21 = None
    \/ part = "copies" /\ Copies!Init
       /\ x11 = None /\ x12 = None /\ x13 = None /\ x14 = None /\ x15 = None
       /\ x16 = None /\ x17 = None /\ x18 = None /\ x19 = None /\ x20 = None
       /\ x21 = None
    \/ part = "staged" /\ Staged!Init
       /\ x10 = None /\ x11 = None /\ x12 = None /\ x13 = None /\ x14 = None
       /\ x15 = None /\ x16 = None /\ x17 = None /\ x18 = None /\ x19 = None
       /\ x20 = None /\ x21 = None
    \/ part = "layout" /\ Layout!Init
       /\ x7 = None /\ x8 = None /\ x9 = None /\ x10 = None /\ x11 = None
       /\ x12 = None /\ x13 = None /\ x14 = None /\ x15 = None /\ x16 = None
       /\ x17 = None /\ x18 = None /\ x19 = None /\ x20 = None /\ x21 = None
    \/ part = "probes" /\ Probes!Init
       /\ x11 = None /\ x12 = None /\ x13 = None /\ x14 = None /\ x15 = None
       /\ x16 = None /\ x17 = None /\ x18 = None /\ x19 = None /\ x20 = None
       /\ x21 = None
    \/ part = "docker" /\ Docker!Init
       /\ x12 = None /\ x13 = None /\ x14 = None /\ x15 = None /\ x16 = None
       /\ x17 = None /\ x18 = None /\ x19 = None /\ x20 = None /\ x21 = None
    \/ part = "storage" /\ Storage!Init
       /\ x16 = None /\ x17 = None /\ x18 = None /\ x19 = None /\ x20 = None
       /\ x21 = None
    \/ part = "activity" /\ Activity!Init
       /\ x17 = None /\ x18 = None /\ x19 = None /\ x20 = None /\ x21 = None
    \/ part = "provider" /\ Provider!Init
       /\ x15 = None /\ x16 = None /\ x17 = None /\ x18 = None /\ x19 = None
       /\ x20 = None /\ x21 = None
    \/ part = "managed" /\ Managed!Init
       /\ x20 = None /\ x21 = None

Next ==
    \/ part = "scope" /\ Scope!Next
       /\ UNCHANGED <<part, x20, x21>>
    \/ part = "measure" /\ Measure!Next
       /\ UNCHANGED <<part, x19, x20, x21>>
    \/ part = "pinned" /\ Pinned!Next
       /\ UNCHANGED <<part, x16, x17, x18, x19, x20, x21>>
    \/ part = "directory" /\ Directory!Next
       /\ UNCHANGED <<part, x15, x16, x17, x18, x19, x20, x21>>
    \/ part = "hints" /\ Hints!Next
       /\ UNCHANGED <<part, x4, x5, x6, x7, x8, x9, x10, x11, x12, x13, x14,
                      x15, x16, x17, x18, x19, x20, x21>>
    \/ part = "stream" /\ Stream!Next
       /\ UNCHANGED <<part, x6, x7, x8, x9, x10, x11, x12, x13, x14, x15,
                      x16, x17, x18, x19, x20, x21>>
    \/ part = "traversal" /\ Traversal!Next
       /\ UNCHANGED <<part>>
    \/ part = "caches" /\ Caches!Next
       /\ UNCHANGED <<part, x12, x13, x14, x15, x16, x17, x18, x19, x20, x21>>
    \/ part = "owner" /\ Owner!Next
       /\ UNCHANGED <<part, x4, x5, x6, x7, x8, x9, x10, x11, x12, x13, x14,
                      x15, x16, x17, x18, x19, x20, x21>>
    \/ part = "globs" /\ Globs!Next
       /\ UNCHANGED <<part, x6, x7, x8, x9, x10, x11, x12, x13, x14, x15,
                      x16, x17, x18, x19, x20, x21>>
    \/ part = "lastlook" /\ LastLook!Next
       /\ UNCHANGED <<part, x18, x19, x20, x21>>
    \/ part = "copies" /\ Copies!Next
       /\ UNCHANGED <<part, x11, x12, x13, x14, x15, x16, x17, x18, x19, x20,
                      x21>>
    \/ part = "staged" /\ Staged!Next
       /\ UNCHANGED <<part, x10, x11, x12, x13, x14, x15, x16, x17, x18, x19,
                      x20, x21>>
    \/ part = "layout" /\ Layout!Next
       /\ UNCHANGED <<part, x7, x8, x9, x10, x11, x12, x13, x14, x15, x16,
                      x17, x18, x19, x20, x21>>
    \/ part = "probes" /\ Probes!Next
       /\ UNCHANGED <<part, x11, x12, x13, x14, x15, x16, x17, x18, x19, x20,
                      x21>>
    \/ part = "docker" /\ Docker!Next
       /\ UNCHANGED <<part, x12, x13, x14, x15, x16, x17, x18, x19, x20, x21>>
    \/ part = "storage" /\ Storage!Next
       /\ UNCHANGED <<part, x16, x17, x18, x19, x20, x21>>
    \/ part = "activity" /\ Activity!Next
       /\ UNCHANGED <<part, x17, x18, x19, x20, x21>>
    \/ part = "provider" /\ Provider!Next
       /\ UNCHANGED <<part, x15, x16, x17, x18, x19, x20, x21>>
    \/ part = "managed" /\ Managed!Next
       /\ UNCHANGED <<part, x20, x21>>

Spec == Init /\ [][Next]_vars

\* What a check of a path, a file or a child reports was there at one moment, as
\* it is described, and a replaced file is not taken for one being written.
AnswersWereThere ==
    /\ part = "scope" =>
           Scope!AnswerWasThere /\ Scope!WrittenNotReplaced /\ Scope!AncestorIsBound
    /\ part = "pinned" => Pinned!BytesWereThere /\ Pinned!ChildAllAlong
    /\ part = "lastlook" =>
           LastLook!ApprovedIsSafe /\ LastLook!NoGitIsLeft
    /\ part = "copies" => Copies!GroupsWereEqual
    /\ part = "staged" => Staged!RetainedIsEqual
    /\ part = "docker" => Docker!AnswerIsWhole /\ Docker!SumsAreTrue
\* Equal fingerprints mean that the artifact was not touched in between; without a
\* finding no file in it is linked from outside, and each file counts once.
MeasurementIsTrue ==
    /\ part = "measure" =>
           Measure!EqualMeansUntouched /\ Measure!SafeIsClosed /\ Measure!CountedOnce
    /\ part = "storage" =>
           Storage!RowsAreWhereTheySay /\ Storage!CompleteRowsAreTrue /\ Storage!CompleteIsEarned
\* A folder that was listed to its end had each entry handed out once, and
\* discovery asks nothing of entries whose names rule them out.
ListedOnce ==
    part = "directory" =>
           Directory!ListedOnce /\ Directory!ProtectedUntouched
\* What a helper and the engine send each other is understood: every pool of hints
\* passes the checks of the wire format, frames do not depend on how the stream is
\* cut, and every body that is written is read back within a bounded buffer.
HelperIsUnderstood ==
    /\ part = "hints" => Hints!HintsAreValid
    /\ part = "stream" =>
           Stream!ChunksDoNotMatter /\ Stream!MemoryIsBounded /\ Stream!WhatIsWrittenIsRead
    /\ part = "probes" =>
           Probes!OnlyItsOwnIsKilled /\ Probes!NothingIsLeftRunning /\ Probes!OutputIsWhole
\* A scan that gives its hints back loses none that came in meanwhile, and what
\* changes the owner of an artifact changes the evidence for it. Nothing is cleared that
\* a process has been using, whatever look at the processes is used again, and a review
\* that the engine was told to stop begins no further command.
NothingIsOverlooked ==
    [][/\ part = "hints" => Hints!NothingLost
       /\ part = "owner" => Owner!EvidenceDecides
       /\ part = "activity" => Activity!ClearedIsIdle /\ Activity!IdentifierWasThere
       /\ part = "managed" => Managed!StoppedRunsNoMore]_vars
\* A scan that calls itself complete has offered every artifact that is due, and no
\* scan offers another one, or one whose change shows in what it looks at after it: rows
\* and counts are final, what is kept is left alone, the lanes take turns and the queues
\* are short.
ScanIsThorough ==
    /\ part = "traversal" =>
           Traversal!CompleteIsAll /\ Traversal!OfferedAsFound /\ Traversal!NothingLeftOpen /\ Traversal!KeptIsLeftAlone /\ Traversal!LanesTakeTurns /\ Traversal!QueuesAreBounded
    /\ part = "copies" =>
           Copies!CompleteFindsAll /\ Copies!AnalysisIsBounded
\* What a cache gives is what the file held during the read, and what follows from it;
\* the caches keep to their limits, and the owner of an artifact is proved by what was
\* read, never borrowed from another install or repository. The output of a tool is known
\* by all the markers of its project, and what a tool says of its cache is shown to who
\* asked, called complete only if every command succeeded and every line was counted.
EvidenceIsSound ==
    /\ part = "caches" =>
           Caches!ServedWasThere /\ Caches!AnsweredAsParsed /\ Caches!CachesAreBounded
    /\ part = "owner" => Owner!OwnerIsProved
    /\ part = "globs" => Globs!PatternsMean
    /\ part = "layout" =>
           Layout!GitUsesWhatWasValidated /\ Layout!GitLooksNowhereElse
    /\ part = "provider" =>
           Provider!MarkersAreComplete /\ Provider!AmbiguousIsNobodys /\ Provider!OverridesAreSeen /\ Provider!SourcelessIsNotCache
    /\ part = "managed" =>
           Managed!StoppedIsNotShown /\ Managed!StopIsForOne /\ Managed!CompleteIsEarned /\ Managed!RecordsAreOfOneFolder /\ Managed!CompleteMeansUnmarked

=============================================================================
