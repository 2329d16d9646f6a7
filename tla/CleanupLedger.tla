--------------------------- MODULE CleanupLedger ---------------------------
(***************************************************************************)
(* One cleanup after another, as core/src/cleanup.rs carries it out and    *)
(* core/src/store.rs and core/src/accounting.rs record it: the durable     *)
(* operation, the manifest, the item's way from its folder to a staged     *)
(* name and on to Trash or to nothing, the observation window, the wallet, *)
(* and Restore.  The store is locked for a whole cleanup, so there is one  *)
(* job at a time; a crash, a failed write, a cancellation and the user's   *)
(* own changes may fall between any two of its steps.                      *)
(***************************************************************************)
EXTENDS Integers, FiniteSets

CONSTANTS
    Items,       \* files and folders that may be cleaned up
    Operations,  \* ids of operations; their number bounds a behaviour
    Deletable,   \* candidates with eligible_permanent
    Volume,      \* Volume[i]: the storage domain of i
    Private,     \* Private[i]: the bytes of i that nothing else shares
    Allocated,   \* Allocated[i]: candidate.allocated_bytes
    MaxGrowth,   \* bounds the growth of free space one window can show
    CoinBytes,   \* accounting.rs COIN_BYTES
    None

ASSUME ItemsAssumption ==
    /\ Deletable \subseteq Items
    /\ Private \in [Items -> Nat] /\ Allocated \in [Items -> Nat]
    /\ None \notin Operations
ASSUME CoinsAssumption == CoinBytes \in Nat \ {0} /\ MaxGrowth \in Nat

Modes == {"trash", "permanent"}
Unfinished == {"prepared", "mutating", "restoring"}
Final == {"removed", "partial", "cancelled", "skipped", "failed", "interrupted", "restored"}
States == Unfinished \cup Final \cup {"trashed"}

\* What a receipt's detail tells its reader: where a staged item is left, and
\* that the item can be restored.
Claims == {"staged", "restorable"}
Receipts == [item : Items, mode : Modes, state : States, outcome : States,
             restorable : BOOLEAN, says : SUBSET Claims]

Places == {"origin", "staged", "trash", "part", "gone", "emptied"}
Steps == {"prepared", "ready", "staged", "checking", "checked", "removing", "putback",
          "accounting", "settling", "tidying", "error", "excusing", "restoring"}

Verdicts == [outcome : States, restorable : BOOLEAN, says : SUBSET Claims, through : BOOLEAN]
Jobs == [pc : Steps, op : Operations \cup {None}, item : Items, mode : Modes,
         verdict : Verdicts]

ASSUME NoneAssumption == None \notin Receipts /\ None \notin Jobs

VARIABLES
    op,        \* operations: the row and the receipt in it
    manifest,  \* operations with committed cleanup_entries
    window,    \* windows: the state of the window an operation opened
    alloc,     \* allocations: the bytes credited to an operation
    coins,     \* earnings: the coins an operation earned ...
    paid,      \* ... and the operations whose coins were collected
    wallet,    \* the wallet row
    job,       \* the cleanup or restore that holds the store
    cancel,    \* Engine::mutation_cancel
    place      \* where each item is, and which operation moved it (external)

books == <<window, alloc, coins, paid, wallet>>
vars == <<op, manifest, books, job, cancel, place>>

At(where, o) == [at |-> where, by |-> o]
Verdict(outcome, restorable, says, through) ==
    [outcome |-> outcome, restorable |-> restorable, says |-> says, through |-> through]
NoVerdict == Verdict("prepared", FALSE, {}, FALSE)
Idle == job = None

Init ==
    /\ op = [o \in Operations |-> None]
    /\ manifest = {} /\ paid = {}
    /\ window = [o \in Operations |-> "none"]
    /\ alloc = [o \in Operations |-> 0] /\ coins = [o \in Operations |-> 0]
    /\ wallet = [collected |-> 0, remainder |-> 0, credited |-> 0]
    /\ job = None /\ cancel = FALSE
    /\ place = [i \in Items |-> At("origin", None)]

\* The sum of f over S, its units counted one by one: f[x] of them for every x.
Units(f, S) == UNION {{x} \X (1..f[x]) : x \in S}
Total(f, S) == Cardinality(Units(f, S))

Step(pc) == ~Idle /\ job.pc = pc
Goto(pc) == job' = [job EXCEPT !.pc = pc]
Decide(pc, v) == job' = [job EXCEPT !.pc = pc, !.verdict = v]
Stopped == IF cancel THEN "cancelled" ELSE "skipped"

-----------------------------------------------------------------------------
(* Preparing and staging                                                   *)

Prepared(i, m, outcome, says) ==
    [item |-> i, mode |-> m, state |-> "prepared", outcome |-> outcome,
     restorable |-> FALSE, says |-> says]

\* execute_inner up to prepare_operation: the preflight holds, the operation is
\* durable and its receipt already names where the item would be staged.
\* begin_mutation has cleared the cancellation.
Begin(o, i, m) ==
    /\ Idle /\ op[o] = None
    /\ place[i].at = "origin"
    /\ m = "permanent" => i \in Deletable
    /\ op' = [op EXCEPT ![o] = Prepared(i, m, "prepared", {"staged"})]
    /\ job' = [pc |-> "prepared", op |-> o, item |-> i, mode |-> m, verdict |-> NoVerdict]
    /\ cancel' = FALSE
    /\ UNCHANGED <<manifest, books, place>>

\* The preflight refuses the item before anything is durable.
Refuse(i, m) ==
    /\ Idle
    /\ job' = [pc |-> "error", op |-> None, item |-> i, mode |-> m, verdict |-> NoVerdict]
    /\ cancel' = FALSE
    /\ UNCHANGED <<op, manifest, books, place>>

\* Revalidation writes the manifest and commits it before the first rename.
Record ==
    /\ Step("prepared") /\ ~cancel
    /\ manifest' = manifest \cup {job.op}
    /\ Goto("ready")
    /\ UNCHANGED <<op, books, cancel, place>>

PreparationFails ==
    /\ Step("prepared")
    /\ Decide("settling", Verdict(Stopped, FALSE, {}, FALSE))
    /\ UNCHANGED <<op, manifest, books, cancel, place>>

\* rename_exclusive to the operation's own hidden name in the same folder.
Stage ==
    /\ Step("ready") /\ ~cancel
    /\ place' = [place EXCEPT ![job.item] = At("staged", job.op)]
    /\ Goto("staged")
    /\ UNCHANGED <<op, manifest, books, cancel>>

StagingFails ==
    /\ Step("ready")
    /\ Decide("settling", Verdict(Stopped, FALSE, {}, FALSE))
    /\ UNCHANGED <<op, manifest, books, cancel, place>>

MarkMutating ==
    /\ Step("staged")
    /\ op' = [op EXCEPT ![job.op].state = "mutating"]
    /\ Goto("checking")
    /\ UNCHANGED <<manifest, books, cancel, place>>

\* The staged item is the reviewed one (and its kept copy still matches).
Verify ==
    /\ Step("checking") /\ ~cancel
    /\ Goto("checked")
    /\ UNCHANGED <<op, manifest, books, cancel, place>>

\* The update fails, the staged item differs, or the user cancels.
VerificationFails ==
    /\ Step("staged") \/ Step("checking")
    /\ Decide("putback", NoVerdict)
    /\ UNCHANGED <<op, manifest, books, cancel, place>>

\* rename_exclusive puts the item back unless its path is taken or the rename
\* fails; the receipt says which.  A failed Trash falls through to the end of
\* execute_inner, the other failures return.
PutBack ==
    /\ Step("putback")
    /\ LET i == job.item
           failed == job.verdict.outcome = "failed"
           outcome == IF failed THEN "failed" ELSE Stopped IN
       \/ /\ place[i] = At("staged", job.op)
          /\ place' = [place EXCEPT ![i] = At("origin", None)]
          /\ Decide("settling", Verdict(outcome, FALSE, {}, failed))
       \/ /\ Decide("settling", Verdict(outcome, FALSE, {"staged"}, failed))
          /\ UNCHANGED place
    /\ UNCHANGED <<op, manifest, books, cancel>>

-----------------------------------------------------------------------------
(* Trash                                                                   *)

NativeTrash ==
    /\ Step("checked") /\ job.mode = "trash" /\ ~cancel
    /\ place' = [place EXCEPT ![job.item] = At("trash", job.op)]
    /\ Decide("settling", Verdict("trashed", TRUE, {"restorable"}, TRUE))
    /\ UNCHANGED <<op, manifest, books, cancel>>

\* The callback fails, or what it returns is not the item it was given.
TrashFails ==
    /\ Step("checked") /\ job.mode = "trash"
    /\ \/ UNCHANGED place
       \/ ~cancel /\ place' = [place EXCEPT ![job.item] = At("trash", job.op)]
    /\ Decide("putback", Verdict("failed", FALSE, {}, TRUE))
    /\ UNCHANGED <<op, manifest, books, cancel>>

-----------------------------------------------------------------------------
(* Permanent removal                                                       *)

\* LeafRecovery::create fails: the item stays where it is staged.
RecoveryFails ==
    /\ Step("checked") /\ job.mode = "permanent"
    /\ Decide("settling", Verdict("failed", FALSE, {"staged"}, FALSE))
    /\ UNCHANGED <<op, manifest, books, cancel, place>>

\* open_window_domain: one open window per volume.
WindowFree(i) == \A o \in Operations : window[o] = "open" => Volume[op[o].item] # Volume[i]

\* accounting::begin, of which only the success matters.
OpenWindow ==
    /\ Step("checked") /\ job.mode = "permanent"
    /\ \/ WindowFree(job.item) /\ window' = [window EXCEPT ![job.op] = "open"]
       \/ UNCHANGED window
    /\ Goto("removing")
    /\ UNCHANGED <<op, manifest, alloc, coins, paid, wallet, cancel, place>>

RemoveLeaf ==
    /\ Step("removing") /\ ~cancel
    /\ place' = [place EXCEPT ![job.item] = At("part", job.op)]
    /\ UNCHANGED <<op, manifest, books, job, cancel>>

\* With a window the receipt is settled by accounting::finish.
Accounted == IF window[job.op] = "open" THEN "accounting" ELSE "settling"

RemovalEnds ==
    /\ Step("removing") /\ ~cancel
    /\ place' = [place EXCEPT ![job.item] = At("gone", job.op)]
    /\ Decide(Accounted, Verdict("removed", FALSE, {}, TRUE))
    /\ UNCHANGED <<op, manifest, books, cancel>>

\* A leaf, the closing checks or the recovery directory stop the removal.
RemovalStops ==
    /\ Step("removing")
    /\ \/ UNCHANGED place
       \/ place' = [place EXCEPT ![job.item] = At("gone", job.op)]
    /\ Decide(Accounted, Verdict(IF cancel THEN "cancelled" ELSE "partial", FALSE, {"staged"}, TRUE))
    /\ UNCHANGED <<op, manifest, books, cancel>>

-----------------------------------------------------------------------------
(* Receipts and credit                                                     *)

Least(S) == CHOOSE n \in S : \A k \in S : n <= k

\* Faulty on purpose: a removal that stopped half way is credited; the bytes that other
\* files share are credited.
SupportedAnyOutcome(known, growth) ==
    IF job.mode = "permanent" /\ known
    THEN Least({Private[job.item], Allocated[job.item], growth})
    ELSE 0

SupportedShared(known, growth) ==
    IF job.mode = "permanent" /\ job.verdict.outcome = "removed" /\ known
    THEN Least({Allocated[job.item], growth})
    ELSE 0

\* supported_credit: what growth beyond the background, the private bytes of
\* the removed files and the reviewed size all support.
SupportedCredit(known, growth) ==
    IF job.mode = "permanent" /\ job.verdict.outcome = "removed" /\ known
    THEN Least({Private[job.item], Allocated[job.item], growth})
    ELSE 0

Settled(r, v) ==
    [r EXCEPT !.state = v.outcome, !.outcome = v.outcome,
              !.restorable = v.restorable, !.says = v.says]

\* Faulty on purpose: the remainder is not reduced; the remainder is not carried.
CreditedWhole(credit) ==
    [wallet EXCEPT !.remainder = @ + credit, !.credited = @ + credit]

CreditedAnew(credit) ==
    [wallet EXCEPT !.remainder = credit % CoinBytes, !.credited = @ + credit]

\* wallet, after a credit: full coins are earned, the rest is carried forward.
Credited(credit) ==
    [wallet EXCEPT !.remainder = (wallet.remainder + credit) % CoinBytes,
                   !.credited = @ + credit]

\* accounting::finish: one transaction closes the window, books the credit and
\* settles the operation.
Allocate(known, growth) ==
    /\ Step("accounting")
    /\ LET credit == SupportedCredit(known, growth) IN
       /\ alloc' = [alloc EXCEPT ![job.op] = credit]
       /\ coins' = [coins EXCEPT ![job.op] = (wallet.remainder + credit) \div CoinBytes]
       /\ wallet' = Credited(credit)
    /\ window' = [window EXCEPT ![job.op] = "closed"]
    /\ op' = [op EXCEPT ![job.op] = Settled(@, job.verdict)]
    /\ Goto("tidying")
    /\ UNCHANGED <<manifest, paid, cancel, place>>

\* The transaction fails: the receipt is settled without credit, the window is
\* left open until the next start.
AllocationFails ==
    /\ Step("accounting")
    /\ Goto("settling")
    /\ UNCHANGED <<op, manifest, books, cancel, place>>

\* finish_operation
FinishOperation ==
    /\ Step("settling")
    /\ op' = [op EXCEPT ![job.op] = Settled(@, job.verdict)]
    /\ job' = IF job.verdict.through THEN [job EXCEPT !.pc = "tidying"] ELSE None
    /\ UNCHANGED <<manifest, books, cancel, place>>

\* A cleanup whose receipt cannot be written is an error of its item; a restore
\* just returns the error.
FinishFails ==
    /\ Step("settling")
    /\ job' = IF job.verdict.outcome = "restored" THEN None ELSE [job EXCEPT !.pc = "error"]
    /\ UNCHANGED <<op, manifest, books, cancel, place>>

\* Faulty on purpose: the manifest is dropped with every receipt.
KeptNever(o, outcome) == manifest \ {o}

\* The manifest is evidence: it is dropped only when nothing can be left over.
Kept(o, outcome) == IF outcome \in {"removed", "trashed"} THEN manifest \ {o} ELSE manifest

Tidy ==
    /\ Step("tidying")
    /\ manifest' = Kept(job.op, job.verdict.outcome)
    /\ job' = None
    /\ UNCHANGED <<op, books, cancel, place>>

TidyFails ==
    /\ Step("tidying")
    /\ Goto("error")
    /\ UNCHANGED <<op, manifest, books, cancel, place>>

\* Engine::request "execute" answers an error of one item with a receipt of
\* its own, under a new id.
Excuse(o) ==
    /\ Step("error") /\ op[o] = None
    /\ op' = [op EXCEPT ![o] = Prepared(job.item, job.mode, "skipped", {})]
    /\ job' = [job EXCEPT !.pc = "excusing", !.op = o]
    /\ UNCHANGED <<manifest, books, cancel, place>>

FinishExcuse ==
    /\ Step("excusing")
    /\ op' = [op EXCEPT ![job.op].state = "skipped"]
    /\ job' = None
    /\ UNCHANGED <<manifest, books, cancel, place>>

ExcuseFails ==
    /\ Step("error") \/ Step("excusing")
    /\ job' = None
    /\ UNCHANGED <<op, manifest, books, cancel, place>>

-----------------------------------------------------------------------------
(* Restore, collection and restarts                                        *)

\* Faulty on purpose: the move is not announced to the journal first.
MarkNothing(o) ==
    /\ Idle /\ op[o] # None
    /\ op[o].outcome = "trashed" /\ op[o].restorable
    /\ place[op[o].item] = At("trash", o)
    /\ job' = [pc |-> "restoring", op |-> o, item |-> op[o].item, mode |-> op[o].mode,
               verdict |-> NoVerdict]
    /\ cancel' = FALSE
    /\ UNCHANGED <<op, manifest, books, place>>

\* restore: the receipt, not the state column, says whether it may be tried.
MarkRestoring(o) ==
    /\ Idle /\ op[o] # None
    /\ op[o].outcome = "trashed" /\ op[o].restorable
    /\ place[op[o].item] = At("trash", o)
    /\ op' = [op EXCEPT ![o].state = "restoring"]
    /\ job' = [pc |-> "restoring", op |-> o, item |-> op[o].item, mode |-> op[o].mode,
               verdict |-> NoVerdict]
    /\ cancel' = FALSE
    /\ UNCHANGED <<manifest, books, place>>

MoveBack ==
    /\ Step("restoring") /\ ~cancel
    /\ place[job.item] = At("trash", job.op)
    /\ place' = [place EXCEPT ![job.item] = At("origin", None)]
    /\ Decide("settling", Verdict("restored", FALSE, {}, FALSE))
    /\ UNCHANGED <<op, manifest, books, cancel>>

\* The item or its destination changed, or the user cancelled.
RestoreRefused ==
    /\ Step("restoring")
    /\ \/ op' = [op EXCEPT ![job.op].state = "trashed"]
       \/ UNCHANGED op
    /\ job' = None
    /\ UNCHANGED <<manifest, books, cancel, place>>

\* store.rs collect: with nothing pending it changes nothing.
Uncollected == {o \in Operations : window[o] = "closed"} \ paid

\* Faulty on purpose: coins collected before are counted again.
AllCoins == Total(coins, Operations)

PendingCoins == Total(coins, Operations \ paid)

Collect ==
    /\ Idle /\ PendingCoins \in Nat \ {0}
    /\ paid' = paid \cup Uncollected
    /\ wallet' = [wallet EXCEPT !.collected = @ + PendingCoins]
    /\ UNCHANGED <<op, manifest, window, alloc, coins, job, cancel, place>>

\* Faulty on purpose: every receipt is rewritten.
ReconciledAll(r) ==
    IF r # None
    THEN [r EXCEPT !.state = "interrupted", !.outcome = "interrupted",
                   !.restorable = FALSE, !.says = @ \cup {"staged"}]
    ELSE r

\* store.rs reconcile, on open: nothing is replayed and nothing credited.
Reconciled(r) ==
    IF r # None /\ r.state \in Unfinished
    THEN [r EXCEPT !.state = "interrupted", !.outcome = "interrupted",
                   !.restorable = FALSE, !.says = @ \cup {"staged"}]
    ELSE r

Restart ==
    /\ op' = [o \in Operations |-> Reconciled(op[o])]
    /\ window' = [o \in Operations |-> IF window[o] = "open" THEN "interrupted" ELSE window[o]]
    /\ job' = None /\ cancel' = FALSE
    /\ UNCHANGED <<manifest, alloc, coins, paid, wallet, place>>

Cancel ==
    /\ ~Idle /\ ~cancel
    /\ cancel' = TRUE
    /\ UNCHANGED <<op, manifest, books, job, place>>

\* The user, in Finder.
EmptyTrash(i) ==
    /\ place[i].at = "trash"
    /\ place' = [place EXCEPT ![i].at = "emptied"]
    /\ UNCHANGED <<op, manifest, books, job, cancel>>

-----------------------------------------------------------------------------

Staging ==
    \/ \E o \in Operations, i \in Items, m \in Modes : Begin(o, i, m)
    \/ \E i \in Items, m \in Modes : Refuse(i, m)
    \/ Record \/ PreparationFails
    \/ Stage \/ StagingFails
    \/ MarkMutating \/ Verify \/ VerificationFails \/ PutBack

Mutating ==
    \/ NativeTrash \/ TrashFails
    \/ RecoveryFails \/ OpenWindow
    \/ RemoveLeaf \/ RemovalEnds \/ RemovalStops

Settling ==
    \/ \E known \in BOOLEAN, growth \in 0..MaxGrowth : Allocate(known, growth)
    \/ AllocationFails
    \/ FinishOperation \/ FinishFails
    \/ Tidy \/ TidyFails
    \/ \E o \in Operations : Excuse(o)
    \/ FinishExcuse \/ ExcuseFails

Restoring ==
    \/ \E o \in Operations : MarkRestoring(o)
    \/ MoveBack \/ RestoreRefused

Outside == \E i \in Items : EmptyTrash(i)

Next == Staging \/ Mutating \/ Settling \/ Restoring \/ Outside \/ Collect \/ Cancel \/ Restart

Spec == Init /\ [][Next]_vars

-----------------------------------------------------------------------------
(* Properties                                                              *)

\* Every variable keeps its shape; the wallet's remainder is less than a coin,
\* and a job that has an operation works on that operation's item.
TypeOK ==
    /\ op \in [Operations -> Receipts \cup {None}]
    /\ manifest \subseteq Operations /\ paid \subseteq Operations
    /\ window \in [Operations -> {"none", "open", "closed", "interrupted"}]
    /\ alloc \in [Operations -> Nat] /\ coins \in [Operations -> Nat]
    /\ wallet \in [collected : Nat, remainder : 0..(CoinBytes - 1), credited : Nat]
    /\ job \in Jobs \cup {None}
    /\ ~Idle /\ job.pc # "error" =>
        job.op \in Operations /\ op[job.op] # None /\ op[job.op].item = job.item
    /\ cancel \in BOOLEAN
    /\ place \in [Items -> [at : Places, by : Operations \cup {None}]]

\* supported_credit and allocate: credit goes only to a permanent cleanup that
\* removed all of its item, within the item's private and reviewed bytes, and no
\* item is credited twice (each is gone by one operation only).
CreditIsEarned ==
    \A o \in Operations : alloc[o] > 0 =>
        /\ op[o].state = "removed" /\ op[o].mode = "permanent"
        /\ place[op[o].item] = At("gone", o)
        /\ alloc[o] <= Private[op[o].item] /\ alloc[o] <= Allocated[op[o].item]

\* Across any number of cleanups, restores, crashes and lost accounting, the
\* wallet never claims more than the private bytes of what is really gone.
CreditIsBacked ==
    wallet.credited <= Total(Private, {i \in Items : place[i].at = "gone"})

\* cleanup.rs "Never erase that evidence": an item left under a staged name or
\* half removed still has its manifest and a receipt that says where to look.
LeftoversAreNamed ==
    \A i \in Items : place[i].at \in {"staged", "part"} =>
        /\ place[i].by \in manifest
        /\ "staged" \in op[place[i].by].says

\* A receipt that offers Restore stands for an item that Trash got from that
\* very operation, and that only the user can have taken from there.
RestorableIsInTrash ==
    \A o \in Operations :
        op[o] # None /\ op[o].state = "trashed" /\ op[o].restorable =>
            /\ place[op[o].item].by = o
            /\ place[op[o].item].at \in {"trash", "emptied"}

RowKept(o) ==
    /\ op[o] # None /\ op[o].state \in Final => op'[o] = op[o]
    /\ op[o] # None /\ op[o].state = "trashed" =>
        op'[o] # None /\ op'[o].state \in {"trashed", "restoring"}
    /\ window[o] \in {"closed", "interrupted"} =>
        window'[o] = window[o] /\ alloc'[o] = alloc[o] /\ coins'[o] = coins[o]
    /\ o \in paid => o \in paid'

\* reconcile and restore rewrite no finished receipt, and what was credited or
\* collected stays so; a trashed operation can only go to "restoring".
HistoryIsFinal == [][\A o \in Operations : RowKept(o)]_vars

Counter == INSTANCE RewardWallet WITH credited <- wallet.credited, collected <- wallet.collected

\* The counter the README promises, which knows only the bytes credited and the
\* coins collected, is what the cleanups and their accounting implement.
CounterSpec == Counter!Spec

\* The rows of allocations, earnings and wallet agree with that counter, and
\* the bytes credited are gone from the disk.
BooksAgree ==
    /\ CreditIsBacked
    /\ PendingCoins = Counter!Earned - wallet.collected
    /\ wallet.remainder = wallet.credited % CoinBytes
    /\ wallet.credited = Total(alloc, Operations)

\* site DemoPanel.tsx:83 "You can restore it while it remains in Trash": an
\* item whose receipt told the user so stays restorable until it leaves Trash.
RestorableWhileInTrash ==
    \A o \in Operations :
        op[o] # None /\ "restorable" \in op[o].says /\ place[op[o].item] = At("trash", o) =>
            op[o].restorable

=============================================================================
