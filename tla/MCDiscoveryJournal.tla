------------------------- MODULE MCDiscoveryJournal -------------------------
(* Small trees of grants for DiscoveryJournal.                             *)
EXTENDS DiscoveryJournal

CONSTANTS home, app, lib, lockFile, target, disc

Identity(S) == [p \in S |-> p]

\* One grant: an artifact directory with another candidate inside it.
TreePaths == {home, app, lib}
TreeAbove == [p \in TreePaths |-> IF p = lib THEN {home, app, lib} ELSE {home, p}]
TreeRoots == {home}
TreeGrant == [p \in TreePaths |-> home]
TreeIdentity == Identity(TreePaths)
TreeLocks == Identity({})

\* One grant: a Cargo.lock and the target beside it.
LockPaths == {home, lockFile, target}
LockAbove == [p \in LockPaths |-> {home, p}]
LockRoots == {home}
LockGrant == [p \in LockPaths |-> home]
LockIdentity == Identity(LockPaths)
LockTargets == [p \in {lockFile} |-> target]

\* Two grants: a folder with one candidate, and a mounted disc with none.
DiscPaths == {home, app, disc}
DiscAbove == [p \in DiscPaths |-> IF p = app THEN {home, app} ELSE {p}]
DiscRoots == {home, disc}
DiscGrant == [p \in DiscPaths |-> IF p = disc THEN disc ELSE home]
DiscIdentity == Identity(DiscPaths)

\* One grant with one candidate.
OnePaths == {home, app}
OneAbove == [p \in OnePaths |-> {home, p}]
OneGrant == [p \in OnePaths |-> home]
OneIdentity == Identity(OnePaths)

AllLapses == {Unqueued, Unlocated}

=============================================================================
