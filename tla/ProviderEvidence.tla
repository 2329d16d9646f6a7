---------------------------- MODULE ProviderEvidence ----------------------------
(***************************************************************************)
(* What proves that a folder is the output of a build tool                  *)
(* (core/src/project_providers.rs, and the adapters of core/src/scanner.rs   *)
(* for Python and the web): marker files in the project beside it, each read *)
(* on its own while other programs write, add and remove files.             *)
(*                                                                         *)
(* A place is a folder and a name: the project, the folder above it up to    *)
(* which the grant reaches, or the artifact itself.  A version stands for    *)
(* inode and timestamps; that of a folder changes with its entries.         *)
(***************************************************************************)
EXTENDS Naturals, Sequences, FiniteSets, SequencesExt

CONSTANTS
    None,
    Starts,          \* Starts[n]: what may be in the project of an artifact named n at first
    MaxFiles,        \* MAX_PROVIDER_FILES
    MaxChanges       \* bounds what other programs do

VARIABLES
    file,            \* external: file[p] is what is at place p
    version,         \* external: of the folders
    artifact,        \* external: what is at the artifact's name
    changes, touched,   \* how much changed, and where, since the look began
    name, at,
    scope,           \* what the artifact and the project were at the start
    kind, left,      \* the adapters that are still to come, and what this one has left
    entry,           \* what an entry of a bytecode cache was when it was listed
    captured,        \* what was read
    found,           \* what the adapters of this artifact came to
    outcome

world == <<file, version, artifact, changes, touched>>
vars == <<world, name, at, scope, kind, left, entry, captured, found, outcome>>

-----------------------------------------------------------------------------
(* What each adapter reads, in its order                                   *)

In(folder, names) == [n \in DOMAIN names |-> <<folder, names[n]>>]
Gradle == <<"settings.gradle", "settings.gradle.kts", "build.gradle", "build.gradle.kts">>
MSBuild == <<"Directory.Build.props", "Directory.Build.targets">>
Projects == {"a.csproj", "b.csproj"}
Bytecode == {"m.cpython-312.pyc", "m.cpython-312.opt-1.pyc", "other"}
Source == <<"project", "m.py">>

\* identify, and the names of evidence_with_downloads_cached.
Adapters(n) ==
    CASE n = ".build" -> <<"swiftpm">> [] n = ".dart_tool" -> <<"dart">>
      [] n = ".zig-cache" -> <<"zig">> [] n = ".gradle" -> <<"gradle">>
      [] n \in {"bin", "obj"} -> <<"dotnet">> [] n = "build" -> <<"flutter", "gradle">>
      [] n = "__pycache__" -> <<"pythoncache">> [] n = ".venv" -> <<"venv">>
      [] n = ".next" -> <<"webcache">>
Marks(k) ==
    CASE k = "swiftpm" -> In("project", <<"Package.swift", "Package.resolved">>)
      [] k = "dart" -> In("project", <<"pubspec.yaml", "pubspec.lock", "pubspec_overrides.yaml">>)
      [] k = "flutter" -> In("project", <<"pubspec.yaml", ".metadata", "pubspec.lock",
                                          "pubspec_overrides.yaml">>)
      [] k = "zig" -> In("project", <<"build.zig", "build.zig.zon">>)
      [] k = "gradle" -> In("project", Gradle)
      [] k = "dotnet" -> In("project", MSBuild) \o In("above", MSBuild)
      [] k = "venv" -> In("artifact", <<"pyvenv.cfg">>)
      [] k = "webcache" -> In("project", <<"package.json">>)
      [] k = "pythoncache" -> <<>>
Providers == {"swiftpm", "dart", "flutter", "zig", "gradle", "dotnet"}
\* Without its first file there is nothing to say; of these any file will do.
NeedsFirst(k) == k \notin {"gradle", "dotnet", "pythoncache"}
Listed(k) == CASE k = "dotnet" -> {"project"} \X Projects
               [] k = "pythoncache" -> {"artifact"} \X Bytecode [] OTHER -> {}
Places == [n \in DOMAIN Starts |->
    UNION {Range(Marks(k)) \cup Listed(k) : k \in Range(Adapters(n))}
        \cup (IF n = "__pycache__" THEN {Source} ELSE {})]

\* What a file may say.
Saying(p) == {"plain"}
    \cup (IF p[2] \in {"pubspec.yaml", ".metadata"} THEN {"flutter"} ELSE {})
    \cup (IF p[2] \in Range(Gradle) \cup Range(MSBuild) \cup Projects THEN {"overrides"} ELSE {})
    \cup (IF p[2] \in Bytecode THEN {"bytecode"} ELSE {})
File(v, is, says) == [version |-> v, is |-> is, says |-> says]
Present(p) == p \in DOMAIN file

-----------------------------------------------------------------------------
(* External: other programs                                                *)

check == <<name, at, scope, kind, left, entry, captured, found, outcome>>
Change(places) ==
    /\ changes < MaxChanges /\ at # "done"
    /\ changes' = changes + 1 /\ touched' = touched \cup places
Write(p) ==
    /\ Present(p) /\ Change({p})
    /\ \E says \in Saying(p) : file' = [file EXCEPT ![p] = File(changes', "file", says)]
    /\ UNCHANGED <<version, artifact, check>>
\* A file comes, goes, or is replaced, also by a link or a folder.
Place(p) ==
    /\ Change({p})
    /\ \/ Present(p) /\ file' = Restrict(file, DOMAIN file \ {p})
       \/ \E is \in {"file", "other"} : \E says \in Saying(p) :
             file' = (p :> File(changes', is, says)) @@ file
    /\ version' = [version EXCEPT ![p[1]] = changes']
    /\ UNCHANGED <<artifact, check>>
Rebuild ==
    /\ Change({}) /\ \E is \in {"folder", "link"} : artifact' = [version |-> changes', is |-> is]
    /\ UNCHANGED <<file, version, check>>
Other == Rebuild \/ \E p \in Places[name] : Write(p) \/ Place(p)

-----------------------------------------------------------------------------
(* ensure_scope                                                            *)

Init ==
    /\ name \in DOMAIN Starts
    /\ \E start \in Starts[name] :
          file = [p \in DOMAIN start |-> File(0, "file", start[p])]
    /\ version = [d \in {"project", "above", "artifact"} |-> 0]
    /\ artifact = [version |-> 0, is |-> "folder"]
    /\ changes = 0 /\ touched = {}
    /\ at = "scope" /\ scope = None /\ kind = Adapters(name) /\ left = <<>> /\ entry = None
    /\ captured = <<>> /\ found = <<>> /\ outcome = None

Go(to) == at' = to
End(result) == Go("done") /\ outcome' = result
Artifact == [artifact |-> artifact, entries |-> version["artifact"]]
Scope ==
    /\ at = "scope"
    /\ IF artifact.is # "folder" /\ Head(kind) \in Providers
       THEN End("none") /\ UNCHANGED scope
       ELSE /\ scope' = [artifact |-> Artifact, project |-> None]
            /\ Go("project") /\ UNCHANGED outcome
    /\ UNCHANGED <<world, name, kind, left, entry, captured, found>>
Project ==
    /\ at = "project" /\ Go("adapter")
    /\ scope' = [scope EXCEPT !.project = version["project"]]
    /\ UNCHANGED <<world, name, kind, left, entry, captured, found, outcome>>

-----------------------------------------------------------------------------
(* capture and capture_any                                                 *)

\* The next of the adapters of this name, or none is left: only one of them may have
\* found something.
Evidence(k) == [kind |-> k, captured |-> captured,
                blocked |-> k \in {"gradle", "dotnet"}
                            /\ \E n \in DOMAIN captured : captured[n].says = "overrides",
                last |-> DOMAIN file]
\* Faulty on purpose: the first to find something is taken.
FirstComesFirst(all) == IF all # <<>> THEN End("found") ELSE End("none")
Judge(all) == IF Len(all) = 1 THEN End("found") ELSE End("none")
Conclude(all) ==
    /\ found' = all /\ kind' = Tail(kind) /\ left' = <<>>
    /\ IF Len(kind) = 1 THEN Judge(all) ELSE Go("adapter") /\ UNCHANGED outcome
Nothing == Conclude(found) /\ UNCHANGED captured
Error == End("error") /\ UNCHANGED <<kind, left, captured, found>>

\* Names that the folder holds, in an order.
Order(S) == SetToSortSeq(S, LAMBDA p, q : p[2] = "a.csproj")
Begin ==
    /\ at = "adapter"
    /\ LET listed == {p \in Listed(Head(kind)) : Present(p)}
       IN  IF Head(kind) = "dotnet" /\ Cardinality(listed) > MaxFiles THEN Error
           ELSE IF Head(kind) = "dotnet" /\ listed = {} THEN Nothing
           ELSE /\ left' = Order(listed) \o Marks(Head(kind))
                /\ captured' = <<>> /\ Go("capture")
                /\ UNCHANGED <<kind, found, outcome>>
    /\ UNCHANGED <<world, name, scope, entry>>

\* Neither the manifest nor the metadata speaks of Flutter.
Hopeless ==
    /\ Head(kind) = "flutter" /\ Head(left)[2] = "pubspec.lock"
    /\ \A n \in DOMAIN captured : captured[n].says # "flutter"
TooMany(p) == Head(kind) = "dotnet" /\ p[2] \in Range(MSBuild) /\ Len(captured) >= MaxFiles
\* present, before the file is opened.
Capture ==
    /\ at = "capture" /\ left # <<>> /\ Head(kind) # "pythoncache"
    /\ IF Hopeless THEN Nothing
       ELSE IF Present(Head(left))
       THEN IF Head(kind) \in {"venv", "webcache"} /\ file[Head(left)].is # "file" THEN Nothing
            ELSE IF TooMany(Head(left)) THEN Error
            ELSE Go("read") /\ UNCHANGED <<kind, left, captured, found, outcome>>
       ELSE IF NeedsFirst(Head(kind)) /\ Head(left) = Marks(Head(kind))[1] THEN Nothing
       ELSE /\ left' = Tail(left)
            /\ UNCHANGED <<at, kind, captured, found, outcome>>
    /\ UNCHANGED <<world, name, scope, entry>>
\* python_cache_evidence: the entry as it was listed, then its source, then its bytes.
Entry ==
    /\ at = "capture" /\ left # <<>> /\ Head(kind) = "pythoncache"
    /\ LET p == Head(left)
       IN  IF ~Present(p) THEN Error /\ UNCHANGED entry
           ELSE IF file[p].is # "file" \/ p[2] = "other" THEN Nothing /\ UNCHANGED entry
           ELSE /\ entry' = file[p].version /\ Go("source")
                /\ UNCHANGED <<kind, left, captured, found, outcome>>
    /\ UNCHANGED <<world, name, scope>>
LookForSource ==
    /\ at = "source"
    /\ IF Present(Source) /\ file[Source].is = "file"
       THEN Go("read") /\ UNCHANGED <<kind, left, captured, found, outcome>>
       ELSE Nothing
    /\ UNCHANGED <<world, name, scope, entry>>

NotBytecode(f) == Head(kind) = "pythoncache" /\ (f.version # entry \/ f.says # "bytecode")
Read ==
    /\ at = "read"
    /\ LET p == Head(left)
       IN  IF ~Present(p) \/ file[p].is # "file" THEN Error
           ELSE IF NotBytecode(file[p]) THEN Nothing
           ELSE /\ captured' = Append(captured, [place |-> p, says |-> file[p].says])
                /\ left' = Tail(left) /\ Go("capture")
                /\ UNCHANGED <<kind, found, outcome>>
    /\ UNCHANGED <<world, name, scope, entry>>

-----------------------------------------------------------------------------
(* finish, and the end of python_cache_evidence                            *)

Found == Conclude(Append(found, Evidence(Head(kind)))) /\ UNCHANGED captured
Look ==
    /\ at = "capture" /\ left = <<>>
    /\ IF captured = <<>> THEN IF Head(kind) = "dotnet" THEN Error ELSE Nothing
       ELSE IF Head(kind) \in {"venv", "webcache"} THEN Found
       ELSE IF Len(captured) > MaxFiles THEN Error
       ELSE IF Artifact # scope.artifact
       THEN IF Head(kind) = "pythoncache" THEN Nothing ELSE Error
       ELSE IF Head(kind) = "pythoncache" THEN Found
       ELSE Go("compare") /\ UNCHANGED <<kind, left, captured, found, outcome>>
    /\ UNCHANGED <<world, name, scope, entry>>
Compare ==
    /\ at = "compare"
    /\ IF version["project"] # scope.project THEN Error ELSE Found
    /\ UNCHANGED <<world, name, scope, entry>>

Next ==
    \/ Other \/ Scope \/ Project \/ Begin \/ Capture \/ Entry \/ LookForSource \/ Read \/ Look
    \/ Compare

(***************************************************************************)
(* Properties                                                              *)
(***************************************************************************)

Ends(k) == outcome = "found" /\ found[1].kind = k
ReadFor(n) == {found[n].captured[m].place : m \in DOMAIN found[n].captured}

\* Every marker that was in the project when its folder was compared for the last time
\* was read: nothing that speaks of the output came in between (finish, the names that
\* dotnet lists; unchanged of python_cache_evidence).
MarkersAreComplete ==
    \A n \in DOMAIN found :
        LET k == found[n].kind
            direct == IF k = "pythoncache" THEN Listed(k)
                      ELSE {p \in Range(Marks(k)) \cup Listed(k) : p[1] = "project"}
        IN  k \notin {"venv", "webcache"} =>
            direct \cap found[n].last = direct \cap ReadFor(n)

\* A folder that two tools both claim belongs to neither (identify).
AmbiguousIsNobodys ==
    (outcome = "found" /\ name = "build") =>
        ~ /\ \E p \in {<<"project", "pubspec.yaml">>, <<"project", ".metadata">>} :
                p \notin touched /\ Present(p) /\ file[p].says = "flutter"
          /\ <<"project", "pubspec.yaml">> \notin touched
          /\ \E p \in Range(Marks("gradle")) : p \notin touched /\ Present(p)

\* Output that a configuration puts elsewhere is not called cleanable, whichever of the
\* files says so, the ones of the folder above included (gradle, dotnet).
MayOverride(k) ==
    CASE k = "gradle" -> {"project"} \X Range(Gradle)
      [] k = "dotnet" -> ({"project"} \X Projects) \cup ({"project", "above"} \X Range(MSBuild))
      [] OTHER -> {}
OverridesAreSeen ==
    \A n \in DOMAIN found : \A p \in MayOverride(found[n].kind) \ touched :
        Present(p) /\ file[p].says = "overrides" => found[n].blocked

\* Bytecode without its source, or anything else in its folder, is not thrown away
\* (python_cache_evidence).
SourcelessIsNotCache ==
    Ends("pythoncache") =>
        /\ Source \notin touched => Present(Source)
        /\ \A p \in Listed("pythoncache") \ touched :
              Present(p) => p[2] # "other" /\ file[p].says = "bytecode"

Spec == Init /\ [][Next]_vars

=============================================================================
