--------------------------- MODULE MCCleanupLedger --------------------------
(* Small ledgers for CleanupLedger: two items on one volume, or one item    *)
(* that is cleaned up, restored and cleaned up again.                      *)
EXTENDS CleanupLedger, TLC

CONSTANTS cache, archive, disc

TwoItems == {cache, archive}
OneItem == {cache}
OneVolume == [i \in Items |-> disc]

\* The cache shares one byte of what was reviewed, the archive was reviewed at
\* less than it holds, and neither makes a whole number of coins.
PrivateBytes == [i \in Items |-> IF i = cache THEN 3 ELSE 2]
AllocatedBytes == [i \in Items |-> IF i = cache THEN 4 ELSE 1]

\* A third operation only where all are on the cache.
FewOperations ==
    (\A o \in Operations : op[o] # None) => \A o \in Operations : op[o].item = cache

OperationSymmetry == Permutations(Operations)

=============================================================================
