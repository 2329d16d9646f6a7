---------------------------- MODULE ProjectEvidence ----------------------------
(***************************************************************************)
(* Whose a node_modules or a target is (node_evidence_cached and           *)
(* cargo_evidence in core/src/scanner.rs): the files of the project and of *)
(* the folders above it, up to the grant, are read until one of them       *)
(* decides.  What is read is the evidence; its fingerprint is what a later  *)
(* look is compared with.                                                   *)
(*                                                                         *)
(* Level 1 is the project, level Depth the grant.  What a file holds is     *)
(* what it says of the project, and a fingerprint is free of collisions.    *)
(***************************************************************************)
EXTENDS Naturals, FiniteSets

CONSTANTS
    Depth,        \* how many folders there are from the project to the grant
    MaxFiles      \* bounds how many files there are beside the manifest

VARIABLES
    adapter,      \* which of the two is looked at
    says,         \* external: says[l][f] is what file f of level l holds
    custom        \* external: a target is named in the environment, or in a
                  \* configuration outside of the grant

vars == <<adapter, says, custom>>

Levels == 1..Depth

\* What a file may say.  "in" and "out" are about the project's membership, "owns"
\* and "other" about whether the lock lists it; "bad" cannot be read or understood.
Says(a) ==
    IF a = "node"
    THEN [package |-> {"absent", "in", "out", "bad"},            \* package.json
          lock |-> {"absent", "owns", "other", "bad"},           \* package-lock.json, ...
          pnpmWorkspace |-> {"absent", "in", "out", "bad"},
          pnpmLock |-> {"absent", "owns", "other"},
          yarnrc |-> {"absent", "plain"},                        \* .yarnrc.yml
          git |-> {"absent", "plain"}]
    ELSE [manifest |-> {"absent", "package", "workspace", "delegates", "bad"},  \* Cargo.toml
          config |-> {"absent", "plain", "redirects", "bad"},    \* .cargo/config.toml
          lock |-> {"absent", "plain", "bad"},                   \* Cargo.lock
          marker |-> {"absent", "plain", "bad"}]                 \* CACHEDIR.TAG in the target
Files(a) == DOMAIN Says(a)

Present == {<<l, f>> \in Levels \X Files(adapter) : says[l][f] # "absent"}

Init ==
    /\ adapter \in {"node", "cargo"}
    /\ custom \in BOOLEAN
    /\ says = [l \in Levels |-> [f \in Files(adapter) |->
                 CASE l = 1 /\ f = "package" -> "in"
                   [] l = 1 /\ f = "manifest" -> "package"
                   [] OTHER -> "absent"]]

\* Another program writes or removes one file.
Write(l, f, what) ==
    /\ says[l][f] # what
    /\ says' = [says EXCEPT ![l][f] = what]
    /\ Cardinality({<<k, g>> \in Levels \X Files(adapter) : says'[k][g] # "absent"}) <= MaxFiles + 1
    /\ UNCHANGED <<adapter, custom>>

Next == \E l \in Levels : \E f \in Files(adapter) : \E what \in Says(adapter)[f] : Write(l, f, what)

Spec == Init /\ [][Next]_vars

-----------------------------------------------------------------------------
(* node_evidence_cached                                                    *)

Error == [it |-> "error", owner |-> 0, blocked |-> TRUE, read |-> {}]
Nothing == [it |-> "none", owner |-> 0, blocked |-> FALSE, read |-> {}]

\* What level l is read for, and what that comes to.
Shown(l, fs) == {<<l, f, says[l][f]>> : f \in {g \in fs : says[l][g] # "absent"}}
NodeRead(l) == Shown(l, {"package", "pnpmWorkspace", "yarnrc", "lock", "pnpmLock"})
\* The project's own workspace file is not asked about its members.
Unreadable(l) ==
    \/ says[l].package = "bad" \/ says[l].lock = "bad"
    \/ l # 1 /\ says[l].pnpmWorkspace = "bad"
NodeMember(l) == l = 1 \/ says[l].package = "in"
PnpmMember(l) == l = 1 \/ says[l].pnpmWorkspace = "in"
Recognized(l) ==
    \/ says[l].lock = "owns" /\ NodeMember(l)
    \/ says[l].pnpmLock = "owns" /\ PnpmMember(l)

\* Faulty on purpose: a lock of another project is passed by.
SeparateRepository(l) == says[l].git # "absent"
\* "Never borrow ownership across a separate install or repository"
Separate(l) == says[l].lock # "absent" \/ says[l].pnpmLock # "absent" \/ says[l].git # "absent"

\* The walk from level l on, with what was read so far.
NodeWalk[l \in 1..(Depth + 1), read \in SUBSET (Levels \X Files("node") \X UNION {Says("node")[f] : f \in Files("node")})] ==
    IF l > Depth \/ Unreadable(l) THEN Error
    ELSE LET all == read \cup NodeRead(l)
         IN  IF Recognized(l)
             THEN [it |-> "found", owner |-> l, read |-> all,
                   blocked |-> \E k \in Levels : <<k, "yarnrc", "plain">> \in all]
             ELSE IF Separate(l) THEN Error ELSE NodeWalk[l + 1, all]
NodeEvidence == IF says[1].package = "absent" THEN Error ELSE NodeWalk[1, {}]

-----------------------------------------------------------------------------
(* cargo_evidence                                                          *)

OwnWorkspace == says[1].manifest = "workspace"
CargoRead(l) ==
    Shown(l, {"config"} \cup (IF l = 1 THEN {"manifest", "lock", "marker"}
                              ELSE IF OwnWorkspace THEN {} ELSE {"manifest"}))
CargoUnreadable(l) ==
    says[l].config = "bad" \/ (l # 1 /\ ~OwnWorkspace /\ says[l].manifest = "bad")
Redirected(l) ==
    \/ says[l].config = "redirects"
    \/ l # 1 /\ ~OwnWorkspace /\ says[l].manifest = "workspace"

\* From the project to the grant, all of it.
CargoWalk[l \in 1..(Depth + 1)] ==
    IF l > Depth THEN [it |-> "found", owner |-> 1, blocked |-> custom, read |-> {}]
    ELSE LET rest == CargoWalk[l + 1]
         IN  IF CargoUnreadable(l) \/ rest.it = "error" THEN Error
             ELSE [rest EXCEPT !.blocked = @ \/ Redirected(l), !.read = @ \cup CargoRead(l)]
CargoEvidence ==
    IF says[1].manifest = "absent" THEN Nothing
    ELSE IF says[1].manifest = "bad" \/ says[1].lock = "bad" \/ says[1].marker = "bad" THEN Error
    ELSE IF says[1].marker = "absent" THEN Nothing
    ELSE LET found == CargoWalk[1]
         IN  [found EXCEPT !.blocked = @ \/ says[1].manifest = "delegates"]

\* evidence_with_downloads_cached: a node_modules whose owner cannot be told is shown
\* as one that cannot be cleaned, a target like that is not shown.
ArtifactEvidence ==
    IF adapter = "cargo" THEN CargoEvidence
    ELSE IF NodeEvidence.it = "error" THEN [Error EXCEPT !.it = "found"] ELSE NodeEvidence

-----------------------------------------------------------------------------
(* Properties                                                              *)

\* The owner of a node_modules is the nearest folder with an install or a repository of
\* its own, and only if a lock there lists the project and everything up to there can
\* be understood; a target is its project's unless something up to the grant says
\* otherwise, and what lies above an own workspace does not.
Nearest == {l \in Levels : Separate(l) /\ \A k \in 1..(l - 1) : ~Separate(k)}
OwnerIsProved ==
    /\ adapter = "node" /\ NodeEvidence.it = "found" =>
          /\ Nearest = {NodeEvidence.owner}
          /\ Recognized(NodeEvidence.owner)
          /\ \A k \in 1..NodeEvidence.owner : ~Unreadable(k)
    /\ adapter = "node" /\ NodeEvidence.it = "error" /\ says[1].package # "absent" =>
          \/ \A l \in Nearest : ~Recognized(l)
          \/ \E k \in Levels : Unreadable(k) /\ \A l \in Nearest : k <= l
    /\ adapter = "cargo" /\ CargoEvidence.it = "found" /\ ~CargoEvidence.blocked =>
          /\ ~custom /\ says[1].manifest \in {"package", "workspace"} /\ says[1].marker = "plain"
          /\ \A l \in Levels : says[l].config \in {"absent", "plain"}
          /\ says[1].manifest = "package" =>
                \A l \in 2..Depth : says[l].manifest \notin {"workspace", "bad"}

\* If nothing that was read has changed then nothing that follows from it has: equal
\* fingerprints mean the same owner, and as little or as much that stands against it.
EvidenceDecides ==
    /\ ArtifactEvidence.it = "found" /\ ArtifactEvidence'.it = "found"
    /\ ArtifactEvidence'.read = ArtifactEvidence.read
    => ArtifactEvidence' = ArtifactEvidence

=============================================================================
