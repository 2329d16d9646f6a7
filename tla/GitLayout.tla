-------------------------------- MODULE GitLayout --------------------------------
(***************************************************************************)
(* Which repository Git would use for a project, and what of it is validated *)
(* before Git is started (GitEvidence::capture, git_metadata,               *)
(* git_pointer_path and validate_git_config in core/src/scanner.rs).         *)
(*                                                                         *)
(* A path is the sequence of its components below "/".  The project is      *)
(* /r/w and the grant /r.  A pointer is a file that holds a path.  A line of *)
(* a configuration is a record: what it begins with, in which section or of  *)
(* which key, if it ends with a continuation, and what follows a section's   *)
(* header in the same line.                                                 *)
(***************************************************************************)
EXTENDS Naturals, Sequences, FiniteSets, SequencesExt

CONSTANTS
    None,
    Grant, Project,
    Folders,                 \* the physical folders
    Links,                   \* symbolic links, and where they lead
    Worlds                   \* what the files of a world may hold: marker, common, back,
                             \* config

VARIABLES
    marker,                  \* .git of the project: None, a folder, or what the file holds
    common, back,            \* what commondir and gitdir hold in a git folder, or None
    config,                  \* of the common folder
    done, evidence           \* the verdict: the folders that were validated, or None

vars == <<marker, common, back, config, done, evidence>>
Folder == [is |-> "folder", absolute |-> FALSE, parts |-> <<>>]
Marker == Append(Project, ".git")

Init ==
    /\ \E w \in Worlds :
          marker = w.marker /\ common = w.common /\ back = w.back /\ config = w.config
    /\ done = FALSE /\ evidence = None

-----------------------------------------------------------------------------
(* External: how Git reads it                                              *)

\* Git lets the file system resolve a path, and thereby its links.
Resolved(base, pointer) ==
    FoldLeft(LAMBDA at, c :
                 CASE c = "." -> at
                   [] c = ".." -> IF at = <<>> THEN <<>> ELSE Front(at)
                   [] OTHER -> LET to == Append(at, c)
                               IN  IF to \in DOMAIN Links THEN Links[to] ELSE to,
             IF pointer.absolute THEN <<>> ELSE base, pointer.parts)
GitFolder == IF marker = Folder THEN Marker ELSE Resolved(Project, marker)
GitCommon == IF common = None THEN GitFolder ELSE Resolved(GitFolder, common)

\* Git's own settings: a line that ends with a backslash goes on in the next one, and what
\* is behind a header belongs to its section.
Lines(c) == {n \in DOMAIN c : n = 1 \/ ~c[n - 1].continued}
Heads(c, n) == {m \in Lines(c) : m <= n /\ c[m].begins = "section"}
SectionAt(c, n) ==
    IF Heads(c, n) = {} THEN None
    ELSE c[CHOOSE m \in Heads(c, n) : \A k \in Heads(c, n) : k <= m].name
Settings(c) ==
    {<<SectionAt(c, n), c[n].name>> : n \in {m \in Lines(c) : c[m].begins = "key"}}
    \cup {<<c[n].name, c[n].behind>> : n \in {m \in Lines(c) : c[m].behind # None}}
LooksElsewhere(s) ==
    \/ s[1] \in {"include", "includeIf"}
    \/ s[1] = "core" /\ s[2] \in {"sparseCheckout", "sparseCheckoutCone"}
    \/ s[1] = "extensions" /\ s[2] \in {"objectFormat", "sparseIndex"}

-----------------------------------------------------------------------------
(* The validation                                                          *)

\* Faulty on purpose: a name and the .. behind it cancel out.
PointerPathCollapsed(base, pointer) ==
    FoldLeft(LAMBDA at, c :
                 CASE c = "." -> at
                   [] c = ".." -> IF at = <<>> THEN <<>> ELSE Front(at)
                   [] OTHER -> Append(at, c),
             IF pointer.absolute THEN <<>> ELSE base, pointer.parts)
\* git_pointer_path: only leading .. components, which leave a physical folder.
PointerPath(base, pointer) ==
    LET named(n) == \E m \in 1..n : pointer.parts[m] \notin {".", ".."}
        up == {n \in DOMAIN pointer.parts : pointer.parts[n] = ".."}
        start == IF pointer.absolute THEN <<>> ELSE base
        names == SelectSeq(pointer.parts, LAMBDA c : c \notin {".", ".."})
        path == SubSeq(start, 1, Len(start) - Cardinality(up)) \o names
    IN  IF pointer.parts = <<>> \/ Cardinality(up) > Len(start) \/ \E n \in up : named(n)
           \/ ~IsPrefix(Grant, path)
        THEN None ELSE path

\* git_metadata: there is a physical folder, and no link on the way to it.
Physical(path) ==
    /\ IsPrefix(Grant, path) /\ path \in Folders
    /\ \A n \in DOMAIN path : SubSeq(path, 1, n) \notin DOMAIN Links

\* validate_git_config, line by line
Refused(c) ==
    LET headOf(n) == {m \in 1..n : c[m].begins = "section"}
        section(n) == IF headOf(n) = {} THEN None
                      ELSE c[CHOOSE m \in headOf(n) : \A k \in headOf(n) : k <= m].name
    IN  \E n \in DOMAIN c :
            \/ c[n].continued
            \/ c[n].begins = "section" /\ section(n) \in {"include", "includeIf"}
            \/ c[n].begins = "key" /\ LooksElsewhere(<<section(n), c[n].name>>)

\* The two layouts that capture knows.
Linked ==
    LET folder == PointerPath(Project, marker)
        worktrees == Front(folder)
        shared == Front(worktrees)
    IN  IF marker \in {None, Folder} \/ folder = None \/ Len(folder) < 2 THEN None
        ELSE IF /\ Last(worktrees) = "worktrees" /\ shared # <<>> /\ Last(shared) = ".git"
                /\ Physical(shared) /\ Physical(worktrees) /\ Physical(folder)
                /\ common # None /\ PointerPath(folder, common) = shared
                /\ back # None /\ back.absolute /\ PointerPath(folder, back) = Marker
        THEN [folder |-> folder, common |-> shared] ELSE None
Plain ==
    IF marker = Folder /\ Physical(Marker) /\ common = None
    THEN [folder |-> Marker, common |-> Marker] ELSE None

Capture ==
    /\ ~done /\ done' = TRUE
    /\ LET found == IF marker = Folder THEN Plain ELSE Linked
       IN  evidence' = IF Refused(config) THEN None ELSE found
    /\ UNCHANGED <<marker, common, back, config>>
Next == Capture

Spec == Init /\ [][Next]_vars

-----------------------------------------------------------------------------
(* Properties                                                              *)

\* "It never becomes part of an artifact or authorizes traversal beyond the user's existing
\* filesystem grant": the folders that were validated are those that Git would use, in the
\* grant, and the worktree's folder leads back to this project.
GitUsesWhatWasValidated ==
    evidence # None =>
        /\ GitFolder = evidence.folder /\ GitCommon = evidence.common
        /\ IsPrefix(Grant, evidence.folder) /\ IsPrefix(Grant, evidence.common)
        /\ marker # Folder => Resolved(evidence.folder, back) = Marker

\* "Includes can read configuration outside the validated evidence set. Reject them": Git
\* finds no setting that leads it elsewhere, if each has a line of its own (one that
\* follows a header in its line is not looked at).
GitLooksNowhereElse ==
    (evidence # None /\ \A n \in DOMAIN config : config[n].behind = None) =>
        \A s \in Settings(config) : ~LooksElsewhere(s)

=============================================================================
