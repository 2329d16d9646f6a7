----------------------------- MODULE ActivityCheck -----------------------------
(***************************************************************************)
(* Who uses what is about to be cleaned (core/src/activity.rs): a bounded   *)
(* look at the processes of this account, which a scan reuses for a while,  *)
(* and, for the cache of an app, the identifiers of the apps that run, read *)
(* from a file that another program may be replacing.                       *)
(*                                                                         *)
(* Each system call is a step, and processes start, exit and move between   *)
(* them.  A path is where it lies as seen from the location asked about; any *)
(* name of a Python interpreter is "python".                                *)
(***************************************************************************)
EXTENDS Naturals, Sequences, FiniteSets

CONSTANTS
    None,
    Self,            \* the process of the scanner itself
    Pids,            \* the others
    Uses,            \* what a process may be doing
    Gates,           \* what is asked about: a kind, the route, who owns it by name
    Apps, Local,     \* Local: those whose folder may be read
    Identifiers,     \* what the Info.plist of an app may say
    MaxProcesses,    \* MAX_ACTIVITY_PROCESSES
    MaxBundles,      \* MAX_APP_BUNDLES
    MaxAge,          \* of a look that is used again
    MaxTime, MaxMoves, MaxChanges   \* bounds: the clock, processes, and all other programs

VARIABLES
    \* External
    now, changes, cancel,
    runs, since,     \* what each process does, and from when on
    plist, written,  \* the Info.plist of each app, and when it was last touched
    \* The check
    gate, asked, at, \* what is asked, since when, and the step it is at
    cached,          \* the look that is reused: its age and its result
    todo, here,      \* of the list of processes: what is left, and the one looked at
    seen,            \* the uses of programs and folders that were found
    read,            \* the Info.plist that is being read
    verdict

world == <<now, changes, cancel, runs, since, plist, written>>
vars == <<world, gate, asked, at, cached, todo, here, seen, read, verdict>>

Processes == Pids \cup {Self}
Quiet == [name |-> "other", exe |-> "out", cwd |-> "out", apps |-> {}, shows |-> "all"]
NoRead == [app |-> None, left |-> {}, folder |-> 0, before |-> None, fd |-> 0, parts |-> <<>>,
           was |-> {}]
\* An exited process that nobody has waited for.
Zombie == [Quiet EXCEPT !.shows = "exited"]
Nothing == [paths |-> {}, folders |-> {}]

\* The Info.plist an app has in folder n of those that are its Contents by turns.
File(inode, id, is) == [inode |-> inode, version |-> inode, id |-> id, is |-> is]
Shown(p) == IF p.info[p.contents].is = "file" THEN p.info[p.contents].id ELSE None

Init ==
    /\ now = MaxAge /\ changes = 0 /\ cancel = FALSE
    \* The others are alike, so that one chosen process is the busy one: a bound.
    /\ \E busy \in Uses \cup {None, Quiet}, idle \in {None, Quiet} :
          runs = [p \in Processes |->
                     IF p = Self THEN [Quiet EXCEPT !.cwd = "in"]
                     ELSE IF p = CHOOSE q \in Pids : TRUE THEN busy ELSE idle]
    /\ since = [p \in Processes |-> 0]
    /\ \E id \in Identifiers :
          plist = [a \in Apps |-> [contents |-> 1, info |-> [n \in {1, 2} |-> File(0, id, "file")]]]
    /\ written = [a \in Apps |-> 0]
    /\ gate = None /\ asked = 0 /\ at = "idle" /\ cached = None
    /\ todo = {} /\ here = None /\ seen = Nothing /\ read = NoRead /\ verdict = None

-----------------------------------------------------------------------------
(* External: other programs, the clock and the user                        *)

check == <<gate, asked, at, cached, todo, here, seen, verdict>>
Changed(max) == changes < max /\ changes' = changes + 1

\* A process starts, exits, is left unreaped, or does something else.
Move(p) ==
    /\ cached # None /\ Changed(MaxMoves)
    /\ \E use \in Uses \cup {None, Zombie} :
          use # runs[p] /\ runs' = [runs EXCEPT ![p] = use]
    /\ since' = [since EXCEPT ![p] = now]
    /\ UNCHANGED <<now, cancel, plist, written, read, check>>

\* An app's Info.plist is written, replaced or removed, or its Contents are, while it is read:
\* a bound.
Touch(a, p) ==
    /\ read.app = a /\ Changed(MaxChanges)
    /\ plist' = [plist EXCEPT ![a] = p] /\ written' = [written EXCEPT ![a] = now]
    /\ read' = [read EXCEPT !.was = @ \cup {Shown(p)}]
    /\ UNCHANGED <<now, cancel, runs, since, check>>
Update(a) ==
    \/ \E n \in {1, 2} : \E id \in Identifiers :
          \/ Touch(a, [plist[a] EXCEPT !.info[n] = [@ EXCEPT !.id = id, !.version = changes + 1]])
          \/ Touch(a, [plist[a] EXCEPT !.info[n] = File(changes + 1, id, "file")])
    \/ \E n \in {1, 2} : \E is \in {"other", "absent"} :
          Touch(a, [plist[a] EXCEPT !.info[n] = File(changes + 1, None, is)])
    \/ Touch(a, [plist[a] EXCEPT !.contents = 3 - @])

Tick ==
    /\ now < MaxTime /\ now' = now + 1
    /\ UNCHANGED <<changes, cancel, runs, since, plist, written, read, check>>
Cancel ==
    /\ ~cancel /\ cancel' = TRUE /\ gate # None
    /\ UNCHANGED <<now, changes, runs, since, plist, written, read, check>>

-----------------------------------------------------------------------------
(* capture_with_max_age and capture                                        *)

Go(to) == at' = to
Decided(v) == Go("done") /\ verdict' = v

\* Its age counts from before the look.
Ask(g) ==
    /\ at = "idle"
    /\ gate' = g /\ asked' = now
    /\ IF cached = None \/ now - cached.time >= MaxAge
       THEN /\ cached' = [time |-> now, failed |-> FALSE, look |-> Nothing, asked |-> "no", ids |-> {}]
            /\ Go("list")
       ELSE Go("decide") /\ UNCHANGED cached
    /\ UNCHANGED <<world, todo, here, seen, read, verdict>>

\* A look that failed is kept like another one.
Fails ==
    /\ cached' = [cached EXCEPT !.failed = TRUE] /\ Go("decide")
    /\ todo' = {} /\ here' = None /\ seen' = Nothing

List ==
    /\ at = "list"
    /\ LET all == {p \in Processes : runs[p] # None}
       IN  IF Cardinality(all) >= MaxProcesses THEN Fails
           ELSE Go("look") /\ todo' = all /\ UNCHANGED <<cached, here, seen>>
    /\ UNCHANGED <<world, gate, asked, read, verdict>>

Gone(p) == runs[p] \in {None, Zombie}

\* Its program; one that is gone by now is passed by.
Look(p) ==
    /\ at = "look" /\ here = None /\ p \in todo
    /\ IF cancel \/ (~Gone(p) /\ runs[p].shows = "nothing") THEN Fails
       ELSE /\ todo' = todo \ {p} /\ UNCHANGED <<at, cached>>
            /\ here' = IF Gone(p) \/ p = Self THEN None ELSE p
            /\ seen' = IF Gone(p) THEN seen ELSE [seen EXCEPT !.paths = @ \cup {runs[p]}]
    /\ UNCHANGED <<world, gate, asked, read, verdict>>
\* Its working directory, of the same or, by now, another process.
LookAgain ==
    /\ at = "look" /\ here # None
    /\ IF Gone(here) THEN here' = None /\ UNCHANGED <<at, cached, todo, seen>>
       ELSE IF runs[here].shows # "all" \/ runs[here].cwd = "unknown" THEN Fails
       ELSE /\ here' = None /\ UNCHANGED <<at, cached, todo>>
            /\ seen' = [seen EXCEPT !.folders = @ \cup {runs[here].cwd}]
    /\ UNCHANGED <<world, gate, asked, read, verdict>>
Captured ==
    /\ at = "look" /\ here = None /\ todo = {} /\ Go("decide")
    /\ cached' = [cached EXCEPT !.look = seen] /\ seen' = Nothing
    /\ UNCHANGED <<world, gate, asked, todo, here, read, verdict>>

-----------------------------------------------------------------------------
(* blocked_for                                                             *)

\* tool_cache_writer: who writes the caches below .cache and .expo.
ToolWriters(route) ==
    CASE route \in {"zig", "ruff", "ghostty"} -> {route}
      [] route = "mypy" -> {"mypy", "python"}
      [] route = "opencode" -> {"opencode", "bun"}
      [] route = "oh-my-zsh" -> {"zsh"}
      [] route = "script" -> {"node", "bun"}    \* typescript, eslint, prettier, expo
      [] OTHER -> {}
\* developer_cache_writer: by the owner that the catalogue names.
DeveloperWriters(owner) ==
    CASE owner = "node" -> {"node", "nodejs", "bun", "npm", "npx", "corepack"}
      [] owner = "bun" -> {"bun", "bunx"}
      [] owner \in {"pip", "uv"} -> {"python", "pip", "uv", "uvx"}
      [] owner = "cargo" -> {"cargo", "rustc", "rustdoc", "rust-analyzer", "clippy-driver", "git"}
      [] owner = "swiftpm" ->
            {"swift", "swift-build", "swift-package", "swift-test", "swift-run", "swift-frontend",
             "xcodebuild", "Xcode", "XCBBuildService", "SWBBuildService", "git"}
      [] owner = "homebrew" -> {"brew", "ruby", "curl", "wget"}
      [] owner \in {"aws", "ruff", "mypy"} -> {owner, "python"}
      [] owner \in {"mise", "zig"} -> {owner}
\* What runs the output of a project without being in it.
Hosts(kind) ==
    CASE kind = "dotnet" -> {"dotnet"} [] kind = "gradle" -> {"java", "gradle"}
      [] kind \in {"dart", "flutter"} -> {"dart", "dartaotruntime", "flutter_tester"}
      [] kind = "swiftpm" -> {"swift", "swift-frontend", "swift-build"}
      [] kind = "zig" -> {"zig"} [] kind = "pythoncache" -> {"python"}
      [] kind = "xcode" -> {"Xcode", "xcodebuild", "XCBBuildService", "SWBBuildService",
                            "swift-frontend", "clang", "clang++"}
      [] OTHER -> {}
Suspects(g) ==
    CASE g.kind = "cache" -> ToolWriters(g.route)
      [] g.kind = "devcache" -> DeveloperWriters(g.route)
      [] OTHER -> Hosts(g.kind)

Named(look, g) == \E use \in look.paths : use.name \in Suspects(g)
\* blocked: something runs in it or out of it.
Inside(look) == "in" \in look.folders \/ \E use \in look.paths : use.exe = "in"
Owned(ids, g) == ids \cap g.owners # {}

Decide ==
    /\ at = "decide"
    /\ IF cached.failed \/ Named(cached.look, gate) \/ Inside(cached.look)
       THEN Decided("blocked")
       ELSE IF gate.kind # "cache" THEN Decided("clear")
       ELSE IF cancel THEN Decided("blocked")
       ELSE IF cached.asked = "no" THEN Go("bundles") /\ UNCHANGED verdict
       ELSE Decided(IF cached.asked = "failed" \/ Owned(cached.ids, gate) THEN "blocked" ELSE "clear")
    /\ UNCHANGED <<world, gate, asked, cached, todo, here, seen, read>>
Return ==
    /\ at = "done" /\ Go("idle")
    /\ gate' = None /\ asked' = 0 /\ verdict' = None
    /\ UNCHANGED <<world, cached, todo, here, seen, read>>

-----------------------------------------------------------------------------
(* collect_running_app_bundle_ids: all apps that enclose a program          *)

Keep(how) ==
    /\ cached' = [cached EXCEPT !.asked = how] /\ Go("decide") /\ read' = NoRead
Bundles ==
    /\ at = "bundles"
    /\ LET all == UNION {use.apps : use \in cached.look.paths}
       IN  IF cancel \/ Cardinality(all) > MaxBundles THEN Keep("failed")
           ELSE /\ Go("next") /\ read' = [NoRead EXCEPT !.left = all]
                /\ UNCHANGED cached
    /\ UNCHANGED <<world, gate, asked, todo, here, seen, verdict>>

\* The next app, or the identifiers are complete.
NextApp ==
    /\ at = "next"
    /\ IF cancel THEN Keep("failed")
       ELSE IF read.left = {} THEN Keep("yes")
       ELSE /\ \E a \in read.left :
                   read' = [NoRead EXCEPT !.app = a, !.left = read.left \ {a}, !.was = {Shown(plist[a])}]
            /\ Go("folder") /\ UNCHANGED cached
    /\ UNCHANGED <<world, gate, asked, todo, here, seen, verdict>>

-----------------------------------------------------------------------------
(* bundle_identifier and read_info_plist                                   *)

Here == plist[read.app]
Info(n) == Here.info[n]
\* Whatever is wrong with it, nothing is known of its owner.
Unknown == Go("next") /\ UNCHANGED <<cached, read>>
\* A step of the reading: a cancel is noticed between any two.
Step(from, ok, to, r) ==
    /\ at = from
    /\ IF cancel THEN Keep("failed")
       ELSE IF ok THEN Go(to) /\ read' = r /\ UNCHANGED cached
       ELSE Unknown
    /\ UNCHANGED <<world, gate, asked, todo, here, seen, verdict>>

\* open_local_contents and info_metadata.
Folder == Step("folder", read.app \in Local, "before", [read EXCEPT !.folder = Here.contents])
Before ==
    Step("before", Info(read.folder).is = "file", "open", [read EXCEPT !.before = Info(read.folder)])
Open ==
    Step("open", Info(read.folder).is # "absent", "same",
         [read EXCEPT !.fd = Info(read.folder).inode])
\* What is open is what was looked at.  A file that was replaced has changed as well.
Unchanged == Info(read.folder).inode = read.fd /\ Info(read.folder) = read.before
Same == Step("same", Unchanged, "part", read)
Part ==
    Step("part", TRUE, IF Len(read.parts) = 1 THEN "after" ELSE "part",
         [read EXCEPT !.parts = Append(@, IF Info(read.folder).inode = read.fd
                                          THEN Info(read.folder).id ELSE read.before.id)])
After == Step("after", Unchanged, "folder again", read)
FolderAgain == Step("folder again", Here.contents = read.folder, "again", read)
\* Its name still leads to it; both parts are of one text, or it is not understood.
Again ==
    /\ at = "again"
    /\ IF cancel THEN Keep("failed")
       ELSE /\ Go("next") /\ UNCHANGED read
            /\ cached' = IF /\ Info(read.folder) = read.before
                            /\ read.parts[1] = read.parts[2] /\ read.parts[1] # None
                         THEN [cached EXCEPT !.ids = @ \cup {read.parts[1]}] ELSE cached
    /\ UNCHANGED <<world, gate, asked, todo, here, seen, verdict>>

Next ==
    \/ \E p \in Pids : Move(p) \/ Look(p)
    \/ \E a \in Local : Update(a)
    \/ Tick \/ Cancel \/ Look(Self)
    \/ \E g \in Gates : Ask(g)
    \/ List \/ LookAgain \/ Captured \/ Decide \/ Return
    \/ Bundles \/ NextApp \/ Folder \/ Before \/ Open \/ Same \/ Part \/ After \/ FolderAgain \/ Again

Spec == Init /\ [][Next]_vars

-----------------------------------------------------------------------------
(* Properties                                                              *)

\* What process p does stands against cleaning g: it runs in it, out of it, it is a program
\* that writes there, or the app that owns it, known by an Info.plist that is left alone.
Settled(t) == t <= asked - MaxAge
OwnedByApp(use) ==
    \E a \in use.apps \cap Local : Shown(plist[a]) \in gate.owners /\ Settled(written[a])
Against(p) ==
    /\ runs[p] \notin {None, Zombie}
    /\ \/ runs[p].exe = "in" \/ (p # Self /\ runs[p].cwd = "in")
       \/ runs[p].name \in Suspects(gate)
       \/ gate.kind = "cache" /\ OwnedByApp(runs[p])

\* "an unreadable process table stays an exclusion, never silently retried into apparent
\* idleness within the same window": whatever processes and files do meanwhile, a look that
\* is used again included, nothing is cleared that a process has been using for the age
\* that a look may reach.
ClearedIsIdle ==
    at = "decide" /\ at' = "done" /\ verdict' = "clear" =>
        \A p \in Processes : Against(p) => ~Settled(since[p])

\* "Detect growth", replacement and redirection: an identifier is what the Info.plist at the
\* app's path said at a moment of the reading.
IdentifierWasThere == at = "again" => cached'.ids \subseteq cached.ids \cup read.was

=============================================================================
