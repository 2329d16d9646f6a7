------------------------------ MODULE MCJournalShapes ------------------------------
(* The discovery journal over three shapes of grants, in one instance: a    *)
(* behaviour is a behaviour over one of them.  The shape of the extended    *)
(* journal is a tree: one grant, an artifact with another one inside it.    *)
EXTENDS MCDiscoveryJournal

\* part says whose behaviour it is; the slots hold the variables of that part,
\* and the slots it does not need hold None.
VARIABLES
    part,
    x1, x2, x3, x4, x5, x6, x7, x8, x9, x10, x11, x12, x13, x14, x15, x16,
    x17, x18, x19, x20

slots == <<x1, x2, x3, x4, x5, x6, x7, x8, x9, x10, x11, x12, x13, x14, x15,
           x16, x17, x18, x19, x20>>
parts == <<part, vars, slots>>

\* One grant: a Cargo.lock and the target beside it.
Lock == INSTANCE DiscoveryJournal WITH
    Paths <- LockPaths, Roots <- LockRoots, Above <- LockAbove,
    Grant <- LockGrant, EventScope <- LockIdentity, Normal <- LockIdentity,
    LockTarget <- LockTargets, MaxVersion <- 1, MaxRows <- 1,
    ActiveScans <- 2, MaxBatch <- 1, Gaps <- FALSE, Lapses <- {}, disk <- x1,
    unheard <- x2, historyLost <- x3, granted <- x4, pending <- x5,
    before <- x6, active <- x7, marker <- x8, unseen <- x9, rows <- x10,
    tomb <- x11, incomplete <- x12, limited <- x13, omitted <- x14,
    pressed <- x15, reader <- x16, admitting <- x17, worker <- x18,
    review <- x19, cleanup <- x20

\* Two grants, one of them a disc, and everything that may go wrong.
Discs == INSTANCE DiscoveryJournal WITH
    Paths <- DiscPaths, Roots <- DiscRoots, Above <- DiscAbove,
    Grant <- DiscGrant, EventScope <- DiscIdentity, Normal <- DiscIdentity,
    LockTarget <- TreeLocks, MaxVersion <- 1, MaxRows <- 1, ActiveScans <- 2,
    MaxBatch <- 2, Gaps <- TRUE, Lapses <- AllLapses, disk <- x1,
    unheard <- x2, historyLost <- x3, granted <- x4, pending <- x5,
    before <- x6, active <- x7, marker <- x8, unseen <- x9, rows <- x10,
    tomb <- x11, incomplete <- x12, limited <- x13, omitted <- x14,
    pressed <- x15, reader <- x16, admitting <- x17, worker <- x18,
    review <- x19, cleanup <- x20

PartsInit ==
    /\ Init
    /\ \/ part = "tree"
          /\ x1 = None /\ x2 = None /\ x3 = None /\ x4 = None /\ x5 = None
          /\ x6 = None /\ x7 = None /\ x8 = None /\ x9 = None /\ x10 = None
          /\ x11 = None /\ x12 = None /\ x13 = None /\ x14 = None
          /\ x15 = None /\ x16 = None /\ x17 = None /\ x18 = None
          /\ x19 = None /\ x20 = None
       \/ part = "lock" /\ Lock!Init
       \/ part = "discs" /\ Discs!Init
    /\ part # "tree" => \A p \in Items : disk[p] = 0

PartsNext ==
    \/ part = "tree" /\ Next /\ UNCHANGED <<part, slots>>
    \/ part = "lock" /\ Lock!Next
       /\ UNCHANGED <<part, vars>>
    \/ part = "discs" /\ Discs!Next
       /\ UNCHANGED <<part, vars>>

PartsSpec == PartsInit /\ [][PartsNext]_parts

\* What the shapes of the tree's siblings add: the scopes of a Cargo.lock and its
\* target look at both, and with gaps and lapses a hidden row still stays hidden
\* and nothing that differs from the index is forgotten.
ShapesAreHonest ==
    /\ part = "lock" => Lock!CoverageIsHonest /\ Lock!HiddenIsOwedALook
    /\ part = "discs" => Discs!NothingMissed /\ Discs!HiddenStaysHidden

\* A bound: of one grant's items at most one has changed without being heard of yet.
FewUnheard ==
    /\ part = "tree" => Cardinality(unheard) <= 1
    /\ part = "lock" => Cardinality(x2) <= 1

=============================================================================
