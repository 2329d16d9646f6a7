------------------------------ MODULE EventScopes ------------------------------
(***************************************************************************)
(* What a file event makes the engine look at again: the scope of an event  *)
(* (core/src/refresh.rs), and the routes below a Home grant that may be     *)
(* looked at, and those that are suggested (recommendations.rs).  All of it *)
(* is about names only.  A path is the sequence of names below the grant;   *)
(* of the tables of names there is one entry of each sort here.             *)
(***************************************************************************)
EXTENDS Naturals, Sequences, FiniteSets, SequencesExt

CONSTANTS
    None,
    Routes,       \* for each kind of grant: where events come from, beginnings of paths
    Names         \* and the names that follow them

VARIABLES root, path, kind, recursive, indexed, told

vars == <<root, path, kind, recursive, indexed, told>>

-----------------------------------------------------------------------------
(* The tables                                                              *)

ArtifactComponent(n) == n \in {"target", "node_modules"}
ExcludedName(n) == n \in {".git", "Library", "Dropbox", "Tool.app"}
OwnershipEvidence(n) == n \in {"package.json", "Cargo.lock"}
PersonalFileName(n) == n = "plan.pdf"
Hidden(n) == n \in {".git", ".cargo", ".npm", ".cache", ".chippytea-1"}

Caches == <<"Library", "Caches">>
Logs == <<"Library", "Logs">>
DerivedData == <<"Library", "Developer", "Xcode", "DerivedData">>
Support == <<"Library", "Application Support">>
Corridors == {<<"Library">>, <<"Library", "Developer">>,
              <<"Library", "Developer", "Xcode">>, <<"Library", "org.swift.swiftpm">>}
DeveloperRoutes == {<<".npm", "_cacache">>, Caches \o <<"node", "corepack">>,
                    <<"Library", "org.swift.swiftpm", "cache">>}
HomeCacheRoutes == {<<".cache", "opencode">>}
HomeLogRoutes == {<<".npm", "_logs">>}
SupportUnits == {<<"Slack", "Cache">>, <<"Google", "GoogleUpdater", "crx_cache">>}
SupportCorridors == {<<>>, <<"Slack">>, <<"Google">>, <<"Google", "GoogleUpdater">>}

-----------------------------------------------------------------------------
(* recommendations.rs                                                      *)

Under(p, route) == IsPrefix(route, p)
After(p, route) == SubSeq(p, Len(route) + 1, Len(p))
\* The route of S that p is in; there is never more than one.
In(p, S) == IF \E r \in S : Under(p, r) THEN CHOOSE r \in S : Under(p, r) ELSE None

Area(r, p) == IF r = "home" THEN In(p, {Caches, Logs, DerivedData, Support}) ELSE None
LibraryCorridor(r, p) == r = "home" /\ p \in Corridors
DeveloperRoute(r, p) == r = "home" /\ p \in DeveloperRoutes
DeveloperAllowed(r, p) ==
    r = "home" /\ p # <<>> /\ \E d \in DeveloperRoutes : Under(p, d) \/ Under(d, p)
DeveloperScope(r, p) == IF r = "home" THEN In(p, DeveloperRoutes) ELSE None
HomeLog(r, p) == r = "home" /\ In(p, HomeLogRoutes) # None

\* developer_library_cache_name, managed_cache
DeveloperCacheName(n) == \E d \in DeveloperRoutes : Under(d, Caches) /\ d[Len(Caches) + 1] = n
ManagedCache(n) == ~DeveloperCacheName(n) /\ n = "yarn"

\* Of a browser's caches a profile is the unit; what leads there is a corridor.
BrowserUnit(s) ==
    CASE s[1] = "Google" /\ Len(s) >= 2 /\ s[2] = "Chrome" -> 3
      [] s[1] = "Google" /\ (Len(s) < 2 \/ s[2] # "Chrome") -> 2
      [] s[1] # "Google" -> 1
RouteAllowed(r, p) ==
    \/ LibraryCorridor(r, p)
    \/ p # <<>> /\ p[1] = "Library" /\ DeveloperAllowed(r, p)
    \/ Area(r, p) # None /\
       LET s == After(p, Area(r, p))
       IN  CASE Area(r, p) = Support -> s \in SupportCorridors \/ In(s, SupportUnits) # None
             [] Area(r, p) = Caches /\ s # <<>> ->
                  /\ ~DeveloperCacheName(s[1]) /\ ~ManagedCache(s[1])
                  /\ BrowserUnit(s) > 1 /\ Len(s) >= BrowserUnit(s)
                       => ~Hidden(s[BrowserUnit(s)])
             [] OTHER -> TRUE

\* Faulty on purpose: two names below its area, whatever the area.
LibraryEventScopeDirect(r, p) ==
    IF Area(r, p) = None \/ ~RouteAllowed(r, p) THEN None
    ELSE LET s == After(p, Area(r, p))
         IN  IF s = <<>> THEN p ELSE Area(r, p) \o SubSeq(s, 1, IF Len(s) < 2 THEN Len(s) ELSE 2)
\* library_event_scope: the smallest unit that is suggested as a whole.
LibraryEventScope(r, p) ==
    IF DeveloperScope(r, p) # None THEN DeveloperScope(r, p)
    ELSE IF Area(r, p) = None \/ ~RouteAllowed(r, p) THEN None
    ELSE LET area == Area(r, p)
             s == After(p, area)
         IN  CASE area = Logs \/ s = <<>> \/ DeveloperAllowed(r, p) -> p
               [] area = Support /\ s # <<>> /\ ~DeveloperAllowed(r, p) ->
                    IF In(s, SupportUnits) # None THEN area \o In(s, SupportUnits) ELSE p
               [] area = Caches /\ s # <<>> /\ ~DeveloperAllowed(r, p) ->
                    area \o SubSeq(s, 1, IF BrowserUnit(s) < Len(s) THEN BrowserUnit(s) ELSE Len(s))
               [] area = DerivedData /\ s # <<>> /\ ~DeveloperAllowed(r, p) -> area \o <<s[1]>>

HomeCacheEventScope(r, p) ==
    IF r # "home" THEN None
    ELSE IF DeveloperScope(r, p) # None THEN DeveloperScope(r, p)
    ELSE IF In(p, HomeCacheRoutes) # None THEN In(p, HomeCacheRoutes)
    ELSE IF HomeLog(r, p) THEN p ELSE None

\* library_candidate and home_cache_candidate: what is suggested.
LibraryUnit(r, p, directory) ==
    \/ directory /\ DeveloperRoute(r, p)
    \/ /\ ~DeveloperAllowed(r, p) /\ Area(r, p) # None /\ p # Area(r, p) /\ RouteAllowed(r, p)
       /\ LET s == After(p, Area(r, p))
          IN  \/ Area(r, p) = Caches /\ Len(s) = BrowserUnit(s)
                 /\ (BrowserUnit(s) > 1 => directory)
              \/ Area(r, p) = Logs /\ ~directory
              \/ Area(r, p) = DerivedData /\ directory /\ Len(s) = 1
              \/ Area(r, p) = Support /\ directory /\ s \in SupportUnits
HomeUnit(r, p, directory) ==
    \/ directory /\ r = "home" /\ p \in HomeCacheRoutes \cup DeveloperRoutes
    \/ ~directory /\ HomeLog(r, p)

-----------------------------------------------------------------------------
(* safety.rs: check_scope_policy                                           *)

HomeMedia(r, p) == r = "home" /\ p # <<>> /\ p[1] = "Music"
Allowed(r, p) ==
    /\ \A i \in 1..Len(p) : ExcludedName(p[i]) => i = 1 /\ RouteAllowed(r, p)
    /\ ~HomeMedia(r, p)

-----------------------------------------------------------------------------
(* refresh.rs                                                              *)

PersonalScope(r, p) ==
    /\ \A i \in 1..Len(p) : ~Hidden(p[i])
    /\ r = "home" => p # <<>> /\ p[1] = "Documents"
    /\ r \in {"home", "folder"}
InDownloads(r, p) == r = "home" /\ p # <<>> /\ p[1] = "Downloads"

If(condition, scope) == IF condition THEN scope ELSE None

\* The first name of a path that settles what the scope is.
Settles(p, i) ==
    LET rest == SubSeq(p, i + 1, Len(p))
    IN  \/ p[i] = ".cargo" /\ rest \in {<<>>, <<"config">>}
        \/ ExcludedName(p[i]) \/ p[i] = ".chippytea-1"
        \/ ArtifactComponent(p[i])

\* Faulty on purpose: the innermost artifact is the scope.
SettledInside(p, k, rec) ==
    LET i == CHOOSE n \in 1..Len(p) : Settles(p, n) /\ \A m \in 1..Len(p) : Settles(p, m) => m <= n
    IN  IF ArtifactComponent(p[i]) THEN SubSeq(p, 1, i) ELSE None

Settled(p, k, rec) ==
    LET i == CHOOSE n \in 1..Len(p) : Settles(p, n) /\ \A m \in 1..(n - 1) : ~Settles(p, m)
        above == SubSeq(p, 1, i - 1)
        rest == SubSeq(p, i + 1, Len(p))
        plainFolder == k = "directory" /\ ~rec
    IN  CASE p[i] = ".cargo" -> If(rest # <<>> \/ ~plainFolder, above)
          [] p[i] = ".git" ->
               If(/\ ~plainFolder
                  /\ ~(k = "file" /\ ~rec /\ rest = <<"COMMIT_EDITMSG">>)
                  /\ rest # <<>> => rest[1] # "objects", above)
          [] ArtifactComponent(p[i]) -> above \o <<p[i]>>
          [] OTHER -> None

EventScope(r, p, k, rec) ==
    LET plainFolder == k = "directory" /\ ~rec
        name == IF p = <<>> THEN "none" ELSE Last(p)
        allowed(s) == IF s = None THEN None ELSE If(Allowed(r, s), s)
    IN  CASE HomeMedia(r, p) -> None
          [] ~HomeMedia(r, p) /\ HomeCacheEventScope(r, p) # None ->
               If(~plainFolder, allowed(HomeCacheEventScope(r, p)))
          [] ~HomeMedia(r, p) /\ HomeCacheEventScope(r, p) = None /\ LibraryCorridor(r, p) ->
               If(~plainFolder, p)
          [] ~HomeMedia(r, p) /\ HomeCacheEventScope(r, p) = None /\ Area(r, p) # None ->
               If(~plainFolder, allowed(LibraryEventScope(r, p)))
          [] OTHER ->
               IF \E i \in 1..Len(p) : Settles(p, i) THEN Settled(p, k, rec)
               ELSE IF p # <<>> /\ name = "Cargo.lock" /\ k = "file" /\ ~rec THEN p
               ELSE IF p # <<>> /\ OwnershipEvidence(name) THEN Front(p)
               ELSE If(/\ ~plainFolder
                       /\ k = "file" /\ ~rec =>
                            \/ InDownloads(r, p)
                            \/ PersonalScope(r, p) /\ PersonalFileName(name), p)

Artifacts(p) == {n \in 1..Len(p) : ArtifactComponent(p[n])}
Outermost(p) ==
    IF Artifacts(p) = {} THEN p
    ELSE SubSeq(p, 1, CHOOSE n \in Artifacts(p) : \A m \in Artifacts(p) : n <= m)

\* Faulty on purpose: an indexed ancestor comes first.
ResolveIndexed(r, p, above) ==
    IF above # None THEN Outermost(above)
    ELSE IF ~Allowed(r, p) THEN p
    ELSE IF LibraryEventScope(r, p) # None THEN LibraryEventScope(r, p)
    ELSE IF HomeCacheEventScope(r, p) # None THEN HomeCacheEventScope(r, p)
    ELSE Outermost(p)
\* resolve_scope with what is indexed above p, or None; normalize_scope without.
Resolve(r, p, above) ==
    IF ~Allowed(r, p) THEN p
    ELSE IF LibraryEventScope(r, p) # None THEN LibraryEventScope(r, p)
    ELSE IF HomeCacheEventScope(r, p) # None THEN HomeCacheEventScope(r, p)
    ELSE IF above = None THEN Outermost(p)
    ELSE IF ~Allowed(r, above) THEN above
    ELSE IF LibraryEventScope(r, above) # None THEN LibraryEventScope(r, above)
    ELSE IF HomeCacheEventScope(r, above) # None THEN HomeCacheEventScope(r, above)
    ELSE Outermost(above)

\* Faulty on purpose: every lock file has a target beside it.
CargoLockTargetAnywhere(r, p) ==
    If(p # <<>> /\ Last(p) = "Cargo.lock", Front(p) \o <<"target">>)
CargoLockTarget(r, p) ==
    If(/\ p # <<>> /\ Last(p) = "Cargo.lock" /\ Resolve(r, p, None) = p /\ Allowed(r, p),
       Front(p) \o <<"target">>)

-----------------------------------------------------------------------------
(* Every event that can come                                               *)

Ends == {<<>>} \cup {<<n>> : n \in Names} \cup {<<m, n>> : m, n \in Names}

Init ==
    /\ root = "none" /\ path = <<>> /\ kind = "unknown" /\ recursive = FALSE
    /\ indexed = None /\ told = FALSE

Watch(r, route) ==
    /\ root = "none" /\ root' = r /\ path' = route
    /\ UNCHANGED <<kind, recursive, indexed, told>>

\* An event below the route; at most the folder it is in is indexed.
Event(end, k, rec, above) ==
    /\ path \o end # <<>>
    /\ path' = path \o end /\ kind' = k /\ recursive' = rec
    /\ indexed' = IF above THEN Front(path \o end) ELSE None
    /\ told' = TRUE /\ UNCHANGED root

Next ==
    \/ \E r \in DOMAIN Routes : \E route \in Routes[r] : Watch(r, route)
    \/ /\ root # "none" /\ ~told
       /\ \E end \in Ends, k \in {"unknown", "file", "directory"}, rec, above \in BOOLEAN :
             Event(end, k, rec, above)

Spec == Init /\ [][Next]_vars

-----------------------------------------------------------------------------
(* Properties                                                              *)

\* Until there is an event the grant's own path stands for one.
Scope == EventScope(root, path, kind, recursive)
Ignored == kind = "directory" /\ ~recursive

\* What is looked at again is around the event, may be looked at, and is a scope the
\* journal takes as it is: event_scope and resolve_scope agree, or the same artifact
\* would be claimed under two paths.
ScopesAgree ==
    Scope # None =>
        /\ IsPrefix(Scope, path)
        /\ Allowed(root, Scope)
        /\ Resolve(root, Scope, None) = Scope

\* Everything that is suggested is refreshed as a whole: an event anywhere inside
\* of a unit has a scope that is the unit or around it.  (A notification for a
\* folder alone has none: its children are reported.)
Units(r, p) ==
    {u \in {SubSeq(p, 1, n) : n \in 1..(Len(p) - 1)} :
        /\ Allowed(r, u) /\ \A i \in 1..Len(u) : u[i] # ".chippytea-1"
        /\ \/ LibraryUnit(r, u, TRUE) \/ HomeUnit(r, u, TRUE)
           \/ Outermost(u) = u /\ Artifacts(u) # {} /\ Area(r, u) = None
              /\ HomeCacheEventScope(r, u) = None}
UnitsAreRefreshed ==
    ~Ignored => \A u \in Units(root, path) : Scope # None /\ IsPrefix(Scope, u)

\* cargo_lock_target: "must cover the same artifact": the target that a lock file
\* stands for is one that is scanned under its own path, beside the lock file.
LockNamesItsTarget ==
    CargoLockTarget(root, path) # None =>
        LET target == CargoLockTarget(root, path)
        IN  Allowed(root, target) /\ Resolve(root, target, None) = target

\* "An older indexed ancestor must not erase a protected suffix", and it never makes
\* the scope lose the event.
ResolvedAround ==
    LET s == Resolve(root, path, indexed)
    IN  IsPrefix(s, path) /\ (~Allowed(root, path) => s = path)

=============================================================================
