------------------------ MODULE CleanupLedgerSafety ------------------------
(***************************************************************************)
(* The safety theorems of CleanupLedger, for every number of items,         *)
(* operations and bytes.  The first part proves its types; the others rest  *)
(* on one inductive invariant, LedgerInv: what the rows say of the items,   *)
(* and where the item of the running job is at each of its steps.  The next *)
(* is about the books: the rows of alloc and coins add up to the wallet,    *)
(* the bytes credited are gone from the disk, and the wallet is the counter *)
(* of RewardWallet.  What follows the books is about the check that every   *)
(* item must pass before a job touches it: Revalidation, for any number of  *)
(* levels and changes.                                                      *)
(***************************************************************************)
EXTENDS CleanupLedger, FiniteSetTheorems, TLAPS

\* The least of three numbers, as supported_credit takes it, is one of them
\* and at most each of them.
LEMMA LeastOfThree ==
    ASSUME NEW a \in Nat, NEW b \in Nat, NEW c \in Nat
    PROVE  /\ Least({a, b, c}) \in Nat
           /\ Least({a, b, c}) <= a /\ Least({a, b, c}) <= b /\ Least({a, b, c}) <= c
<1>1. \E n \in {a, b, c} : \A k \in {a, b, c} : n <= k
    <2>1. CASE a <= b /\ a <= c  BY <2>1
    <2>2. CASE b <= a /\ b <= c  BY <2>2
    <2>3. CASE c <= a /\ c <= b  BY <2>3
    <2> QED  BY <2>1, <2>2, <2>3
<1>2. PICK n \in {a, b, c} : n = Least({a, b, c}) /\ \A k \in {a, b, c} : n <= k
    BY <1>1 DEF Least
<1> QED  BY <1>2

\* A credit is a number of bytes within the item's private and reviewed bytes,
\* and is nothing unless the whole item was removed.
LEMMA CreditBounds ==
    ASSUME TypeOK, ~Idle, NEW known \in BOOLEAN, NEW growth \in 0..MaxGrowth
    PROVE  LET credit == SupportedCredit(known, growth) IN
           /\ credit \in Nat
           /\ credit > 0 =>
                /\ job.mode = "permanent" /\ job.verdict.outcome = "removed"
                /\ credit <= Private[job.item] /\ credit <= Allocated[job.item]
<1>1. job.item \in Items /\ job \in Jobs
    BY DEF TypeOK, Idle, Jobs
<1>2. Private[job.item] \in Nat /\ Allocated[job.item] \in Nat /\ growth \in Nat
    BY <1>1, ItemsAssumption, CoinsAssumption
<1> QED  BY <1>2, LeastOfThree DEF SupportedCredit

\* Carrying a remainder keeps it below one coin, and coins are whole.
LEMMA CarryType ==
    ASSUME NEW n \in Nat
    PROVE  n % CoinBytes \in 0..(CoinBytes - 1) /\ n \div CoinBytes \in Nat
BY CoinsAssumption

\* What a job, a row and a place look like after each kind of update.
LEMMA NewRow ==
    ASSUME NEW i \in Items, NEW m \in Modes, NEW outcome \in States, NEW says \in SUBSET Claims
    PROVE  Prepared(i, m, outcome, says) \in Receipts /\ Prepared(i, m, outcome, says) # None
<1>1. Prepared(i, m, outcome, says) \in Receipts
    BY DEF Prepared, Receipts, States, Unfinished
<1> QED  BY <1>1, NoneAssumption

LEMMA RowMoved ==
    ASSUME NEW r \in Receipts, NEW s \in States
    PROVE  LET moved == [r EXCEPT !.state = s] IN
           moved \in Receipts /\ moved # None /\ moved.item = r.item
<1>1. [r EXCEPT !.state = s] \in Receipts
    BY DEF Receipts
<1> QED  BY <1>1, NoneAssumption DEF Receipts

LEMMA RowSettled ==
    ASSUME NEW r \in Receipts, NEW v \in Verdicts
    PROVE  Settled(r, v) \in Receipts /\ Settled(r, v) # None /\ Settled(r, v).item = r.item
<1>1. Settled(r, v) \in Receipts
    BY DEF Receipts, Settled, Verdicts
<1> QED  BY <1>1, NoneAssumption DEF Receipts, Settled

LEMMA RowReconciled ==
    ASSUME NEW r \in Receipts \cup {None}
    PROVE  Reconciled(r) \in Receipts \cup {None}
BY DEF Receipts, Reconciled, States, Final, Claims

LEMMA NewJob ==
    ASSUME NEW pc \in Steps, NEW o \in Operations \cup {None}, NEW i \in Items,
           NEW m \in Modes, NEW v \in Verdicts
    PROVE  [pc |-> pc, op |-> o, item |-> i, mode |-> m, verdict |-> v] \in Jobs
BY DEF Jobs

LEMMA JobMoved ==
    ASSUME NEW j \in Jobs, NEW pc \in Steps
    PROVE  LET moved == [j EXCEPT !.pc = pc] IN
           /\ moved \in Jobs
           /\ moved.pc = pc /\ moved.op = j.op /\ moved.item = j.item
           /\ moved.mode = j.mode /\ moved.verdict = j.verdict
BY DEF Jobs

\* The part of TypeOK that ties a job to the row of its operation.
JobTyped ==
    /\ job \in Jobs \cup {None}
    /\ ~Idle /\ job.pc # "error" =>
        job.op \in Operations /\ op[job.op] # None /\ op[job.op].item = job.item

LEMMA Going ==
    ASSUME TypeOK, ~Idle, job.pc # "error", NEW pc \in Steps, Goto(pc), UNCHANGED op
    PROVE  JobTyped'
<1>1. job \in Jobs  BY DEF TypeOK, Idle
<1> QED  BY <1>1, JobMoved DEF JobTyped, Goto, TypeOK, Idle

LEMMA Deciding ==
    ASSUME TypeOK, ~Idle, job.pc # "error", NEW pc \in Steps, NEW v \in Verdicts,
           Decide(pc, v), UNCHANGED op
    PROVE  JobTyped'
<1> DEFINE moved == [job EXCEPT !.pc = pc, !.verdict = v]
<1>1. moved \in Jobs /\ moved.op = job.op /\ moved.item = job.item
    <2>1. job \in Jobs  BY DEF TypeOK, Idle
    <2> QED  BY <2>1 DEF Jobs
<1>2. job' = moved  BY DEF Decide
<1> HIDE DEF moved
<1> QED  BY <1>1, <1>2 DEF JobTyped, TypeOK, Idle

\* The verdicts of the code are verdicts.
LEMMA VerdictType ==
    ASSUME NEW outcome \in States, NEW restorable \in BOOLEAN, NEW says \in SUBSET Claims,
           NEW through \in BOOLEAN
    PROVE  Verdict(outcome, restorable, says, through) \in Verdicts
BY DEF Verdict, Verdicts

LEMMA NoVerdictType == NoVerdict \in Verdicts
BY DEF NoVerdict, Verdict, Verdicts, States, Unfinished, Claims

-----------------------------------------------------------------------------
(* Types                                                                   *)

LEMMA TypeInit == Init => TypeOK
<1> SUFFICES ASSUME Init PROVE TypeOK
    OBVIOUS
<1>1. wallet \in [collected : Nat, remainder : 0..(CoinBytes - 1), credited : Nat]
    BY CoinsAssumption DEF Init
<1>2. place \in [Items -> [at : Places, by : Operations \cup {None}]]
    BY DEF Init, At, Places
<1> QED  BY <1>1, <1>2 DEF Init, TypeOK, Idle

LEMMA TypeStep == TypeOK /\ [Next]_vars => TypeOK'
<1> SUFFICES ASSUME TypeOK, [Next]_vars PROVE TypeOK'
    OBVIOUS
<1>j. ~Idle => /\ job \in Jobs /\ job.item \in Items /\ job.mode \in Modes
               /\ job.verdict \in Verdicts
    BY DEF TypeOK, Idle, Jobs
<1>1. CASE UNCHANGED vars
    BY <1>1 DEF vars, books, TypeOK, Idle
<1>2. ASSUME NEW o \in Operations, NEW i \in Items, NEW m \in Modes, Begin(o, i, m)
      PROVE  TypeOK'
    <2> DEFINE row == Prepared(i, m, "prepared", {"staged"})
    <2>1. row \in Receipts /\ row # None /\ row.item = i
        <3>1. "prepared" \in States /\ {"staged"} \in SUBSET Claims
            BY DEF States, Unfinished, Claims
        <3> QED  BY <3>1, NewRow DEF Prepared
    <2>2. job' \in Jobs /\ job'.op = o /\ job'.item = i
        BY <1>2, NewJob, NoVerdictType DEF Begin, Steps
    <2> HIDE DEF row
    <2>3. op' = [op EXCEPT ![o] = row]
        BY <1>2 DEF Begin, row
    <2>4. op' \in [Operations -> Receipts \cup {None}] /\ op'[o] = row
        BY <2>1, <2>3 DEF TypeOK
    <2> QED  BY <1>2, <2>1, <2>2, <2>4 DEF Begin, books, TypeOK, Idle
<1>3. ASSUME NEW i \in Items, NEW m \in Modes, Refuse(i, m)
      PROVE  TypeOK'
    <2>1. job' \in Jobs /\ job'.pc = "error"
        BY <1>3, NewJob, NoVerdictType DEF Refuse, Steps
    <2> QED  BY <1>3, <2>1 DEF Refuse, books, TypeOK, Idle
<1>4. CASE Record
    <2>1. JobTyped'
        BY <1>4, Going DEF Record, Step, Steps, Idle
    <2> QED  BY <1>4, <2>1 DEF Record, books, JobTyped, TypeOK, Step, Idle
<1>5. CASE PreparationFails
    <2>1. Verdict(Stopped, FALSE, {}, FALSE) \in Verdicts
        BY VerdictType, NoVerdictType DEF States, Final, Unfinished, Claims, Stopped
    <2>2. JobTyped'
        BY <1>5, <2>1, Deciding DEF PreparationFails, Step, Steps, Idle
    <2> QED  BY <1>5, <2>2 DEF PreparationFails, books, JobTyped, TypeOK
<1>6. CASE Stage
    <2>1. JobTyped'
        BY <1>6, Going DEF Stage, Step, Steps, Idle
    <2> QED  BY <1>6, <2>1, <1>j DEF Stage, books, JobTyped, TypeOK, At, Places, Step, Idle
<1>7. CASE StagingFails
    <2>1. Verdict(Stopped, FALSE, {}, FALSE) \in Verdicts
        BY VerdictType, NoVerdictType DEF States, Final, Unfinished, Claims, Stopped
    <2>2. JobTyped'
        BY <1>7, <2>1, Deciding DEF StagingFails, Step, Steps, Idle
    <2> QED  BY <1>7, <2>2 DEF StagingFails, books, JobTyped, TypeOK
<1>8. CASE MarkMutating
    <2>1. job.op \in Operations /\ op[job.op] \in Receipts /\ op[job.op].item = job.item
        BY <1>8 DEF MarkMutating, TypeOK, Step, Idle
    <2>2. "mutating" \in States
        BY DEF States, Unfinished, Final
    <2> DEFINE row == [op[job.op] EXCEPT !.state = "mutating"]
    <2>3. row \in Receipts /\ row # None /\ row.item = job.item
        BY <2>1, <2>2, RowMoved
    <2>4. job' \in Jobs /\ job'.op = job.op /\ job'.item = job.item
        BY <1>8, <1>j, JobMoved DEF MarkMutating, Goto, Step, Steps
    <2> HIDE DEF row
    <2>5. op' = [op EXCEPT ![job.op] = row]
        BY <1>8 DEF MarkMutating, row
    <2> QED  BY <1>8, <2>1, <2>3, <2>4, <2>5 DEF MarkMutating, books, TypeOK, Idle
<1>9. CASE Verify
    <2>1. JobTyped'
        BY <1>9, Going DEF Verify, Step, Steps, Idle
    <2> QED  BY <1>9, <2>1 DEF Verify, books, JobTyped, TypeOK
<1>10. CASE VerificationFails
    <2>1. NoVerdict \in Verdicts
        BY VerdictType, NoVerdictType DEF States, Final, Unfinished, Claims, Stopped
    <2>2. JobTyped'
        BY <1>10, <2>1, Deciding DEF VerificationFails, Step, Steps, Idle
    <2> QED  BY <1>10, <2>2 DEF VerificationFails, books, JobTyped, TypeOK
<1>11. CASE PutBack
    <2> DEFINE failed == job.verdict.outcome = "failed"
               outcome == IF failed THEN "failed" ELSE Stopped
    <2>1. /\ Verdict(outcome, FALSE, {}, failed) \in Verdicts
          /\ Verdict(outcome, FALSE, {"staged"}, failed) \in Verdicts
        <3>1. outcome \in States /\ failed \in BOOLEAN /\ {"staged"} \subseteq Claims
            BY DEF States, Final, Stopped, Claims
        <3> HIDE DEF outcome, failed
        <3> QED  BY <3>1, VerdictType
    <2>2. JobTyped'
        BY <1>11, <2>1, Deciding DEF PutBack, Step, Steps, Idle
    <2>3. place' \in [Items -> [at : Places, by : Operations \cup {None}]]
       <3>1. At("origin", None) \in [at : Places, by : Operations \cup {None}]
            BY DEF At, Places
        <3> QED  BY <1>11, <3>1 DEF PutBack, TypeOK
    <2> QED  BY <1>11, <2>2, <2>3 DEF PutBack, books, JobTyped, TypeOK
<1>12. CASE NativeTrash
    <2>1. Verdict("trashed", TRUE, {"restorable"}, TRUE) \in Verdicts
        BY VerdictType, NoVerdictType DEF States, Final, Unfinished, Claims, Stopped
    <2>2. JobTyped'
        BY <1>12, <2>1, Deciding DEF NativeTrash, Step, Steps, Idle
    <2> QED  BY <1>12, <2>2, <1>j DEF NativeTrash, books, JobTyped, TypeOK, At, Places, Step, Idle
<1>13. CASE TrashFails
    <2>1. Verdict("failed", FALSE, {}, TRUE) \in Verdicts
        BY VerdictType, NoVerdictType DEF States, Final, Unfinished, Claims, Stopped
    <2>2. JobTyped'
        BY <1>13, <2>1, Deciding DEF TrashFails, Step, Steps, Idle
    <2> QED  BY <1>13, <2>2, <1>j DEF TrashFails, books, JobTyped, TypeOK, At, Places, Step, Idle
<1>14. CASE RecoveryFails
    <2>1. Verdict("failed", FALSE, {"staged"}, FALSE) \in Verdicts
        BY VerdictType, NoVerdictType DEF States, Final, Unfinished, Claims, Stopped
    <2>2. JobTyped'
        BY <1>14, <2>1, Deciding DEF RecoveryFails, Step, Steps, Idle
    <2> QED  BY <1>14, <2>2 DEF RecoveryFails, books, JobTyped, TypeOK
<1>15. CASE OpenWindow
    <2>1. JobTyped'
        BY <1>15, Going DEF OpenWindow, Step, Steps, Idle
    <2> QED  BY <1>15, <2>1 DEF OpenWindow, books, JobTyped, TypeOK, Step, Idle
<1>16. CASE RemoveLeaf
    BY <1>16, <1>j DEF RemoveLeaf, books, TypeOK, At, Places, Step, Idle
<1>17. CASE RemovalEnds
    <2>1. Verdict("removed", FALSE, {}, TRUE) \in Verdicts
        BY VerdictType, NoVerdictType DEF States, Final, Unfinished, Claims, Stopped
    <2>2. JobTyped'
        BY <1>17, <2>1, Deciding DEF RemovalEnds, Step, Steps, Idle, Accounted
    <2> QED  BY <1>17, <2>2, <1>j DEF RemovalEnds, books, JobTyped, TypeOK, At, Places, Step, Idle
<1>18. CASE RemovalStops
    <2>1. Verdict(IF cancel THEN "cancelled" ELSE "partial", FALSE, {"staged"}, TRUE) \in Verdicts
        BY VerdictType, NoVerdictType DEF States, Final, Unfinished, Claims, Stopped
    <2>2. JobTyped'
        BY <1>18, <2>1, Deciding DEF RemovalStops, Step, Steps, Idle, Accounted
    <2> QED  BY <1>18, <2>2, <1>j DEF RemovalStops, books, JobTyped, TypeOK, At, Places, Step, Idle
<1>19. ASSUME NEW known \in BOOLEAN, NEW growth \in 0..MaxGrowth, Allocate(known, growth)
      PROVE  TypeOK'
    <2> DEFINE credit == SupportedCredit(known, growth)
           row == Settled(op[job.op], job.verdict)
    <2>1. credit \in Nat /\ job.op \in Operations
        BY <1>19, CreditBounds DEF Allocate, Step, TypeOK, Idle
    <2>2. wallet.remainder \in Nat /\ wallet.credited \in Nat /\ wallet.collected \in Nat
        BY CoinsAssumption DEF TypeOK
    <2>3. row \in Receipts /\ row # None /\ row.item = job.item
        <3>1. op[job.op] \in Receipts /\ op[job.op].item = job.item
            BY <1>19, <2>1 DEF Allocate, Step, TypeOK, Idle
        <3> QED  BY <1>19, <3>1, <1>j, RowSettled DEF Allocate, Step
    <2>4. job' \in Jobs /\ job'.op = job.op /\ job'.item = job.item
        BY <1>19, <1>j, JobMoved DEF Allocate, Goto, Step, Steps
    <2>5. /\ op' = [op EXCEPT ![job.op] = row]
          /\ alloc' = [alloc EXCEPT ![job.op] = credit]
          /\ coins' = [coins EXCEPT ![job.op] = (wallet.remainder + credit) \div CoinBytes]
          /\ wallet' = [wallet EXCEPT !.remainder = (wallet.remainder + credit) % CoinBytes,
                                      !.credited = wallet.credited + credit]
        BY <1>19 DEF Allocate, Credited
    <2> HIDE DEF credit, row
    <2>6. wallet.remainder + credit \in Nat /\ wallet.credited + credit \in Nat
        BY <2>1, <2>2
    <2>7. /\ (wallet.remainder + credit) % CoinBytes \in 0..(CoinBytes - 1)
          /\ (wallet.remainder + credit) \div CoinBytes \in Nat
        BY <2>6, CarryType
    <2>8. wallet' \in [collected : Nat, remainder : 0..(CoinBytes - 1), credited : Nat]
        BY <2>5, <2>6, <2>7 DEF TypeOK
    <2>9. alloc' \in [Operations -> Nat] /\ coins' \in [Operations -> Nat]
        BY <2>1, <2>5, <2>7 DEF TypeOK
    <2> QED  BY <1>19, <2>1, <2>3, <2>4, <2>5, <2>8, <2>9 DEF Allocate, TypeOK, Idle
<1>20. CASE AllocationFails
    <2>1. JobTyped'
        BY <1>20, Going DEF AllocationFails, Step, Steps, Idle
    <2> QED  BY <1>20, <2>1 DEF AllocationFails, books, JobTyped, TypeOK
<1>21. CASE FinishOperation
    <2> DEFINE row == Settled(op[job.op], job.verdict)
    <2>1. job.op \in Operations /\ op[job.op] \in Receipts /\ op[job.op].item = job.item
        BY <1>21 DEF FinishOperation, Step, TypeOK, Idle
    <2>2. row \in Receipts /\ row # None /\ row.item = job.item
        BY <1>21, <2>1, <1>j, RowSettled DEF FinishOperation, Step
    <2>3. job' = None \/ (job' \in Jobs /\ job'.op = job.op /\ job'.item = job.item)
        BY <1>21, <1>j, JobMoved DEF FinishOperation, Step, Steps
    <2>4. op' = [op EXCEPT ![job.op] = row]
        BY <1>21 DEF FinishOperation
    <2> HIDE DEF row
    <2> QED  BY <1>21, <2>1, <2>2, <2>3, <2>4 DEF FinishOperation, books, TypeOK, Idle
<1>22. CASE FinishFails
    <2>1. job' = None \/ (job' \in Jobs /\ job'.pc = "error")
        BY <1>22, <1>j, JobMoved DEF FinishFails, Step, Steps
    <2> QED  BY <1>22, <2>1 DEF FinishFails, books, TypeOK, Idle
<1>23. CASE Tidy
    BY <1>23 DEF Tidy, Kept, books, TypeOK, Idle
<1>24. CASE TidyFails
    <2>1. JobTyped'
        BY <1>24, Going DEF TidyFails, Step, Steps, Idle
    <2> QED  BY <1>24, <2>1 DEF TidyFails, books, JobTyped, TypeOK
<1>25. ASSUME NEW o \in Operations, Excuse(o)
      PROVE  TypeOK'
    <2> DEFINE row == Prepared(job.item, job.mode, "skipped", {})
    <2>1. row \in Receipts /\ row # None /\ row.item = job.item
        <3>1. "skipped" \in States /\ {} \in SUBSET Claims
            BY DEF States, Final
        <3> QED  BY <1>25, <1>j, <3>1, NewRow DEF Prepared, Excuse, Step
    <2>2. job' \in Jobs /\ job'.op = o /\ job'.item = job.item
        BY <1>25, <1>j DEF Excuse, Step, Steps, Jobs
    <2>3. op' = [op EXCEPT ![o] = row]
        BY <1>25 DEF Excuse
    <2> HIDE DEF row
    <2> QED  BY <1>25, <2>1, <2>2, <2>3 DEF Excuse, books, TypeOK, Idle
<1>26. CASE FinishExcuse
    <2>1. job.op \in Operations /\ op[job.op] \in Receipts /\ op[job.op].item = job.item
        BY <1>26 DEF FinishExcuse, TypeOK, Step, Idle
    <2>2. "skipped" \in States
        BY DEF States, Unfinished, Final
    <2> DEFINE row == [op[job.op] EXCEPT !.state = "skipped"]
    <2>3. row \in Receipts /\ row # None /\ row.item = job.item
        BY <2>1, <2>2, RowMoved
    <2> HIDE DEF row
    <2>4. op' = [op EXCEPT ![job.op] = row]
        BY <1>26 DEF FinishExcuse, row
    <2> QED  BY <1>26, <2>1, <2>3, <2>4 DEF FinishExcuse, books, TypeOK, Idle
<1>27. CASE ExcuseFails
    BY <1>27 DEF ExcuseFails, books, TypeOK, Idle
<1>28. ASSUME NEW o \in Operations, MarkRestoring(o)
      PROVE  TypeOK'
    <2>1. op[o] \in Receipts /\ op[o].item \in Items /\ op[o].mode \in Modes
        <3>1. op[o] \in Receipts  BY <1>28 DEF MarkRestoring, TypeOK
        <3> QED  BY <3>1 DEF Receipts
    <2> DEFINE row == [op[o] EXCEPT !.state = "restoring"]
    <2>2. row \in Receipts /\ row # None /\ row.item = op[o].item
        <3>1. "restoring" \in States  BY DEF States, Unfinished
        <3> QED  BY <2>1, <3>1, RowMoved
    <2>3. job' \in Jobs /\ job'.op = o /\ job'.item = op[o].item
        BY <1>28, <2>1, NewJob, NoVerdictType DEF MarkRestoring, Steps
    <2>4. op' = [op EXCEPT ![o] = row]
        BY <1>28 DEF MarkRestoring
    <2> HIDE DEF row
    <2>5. op' \in [Operations -> Receipts \cup {None}] /\ op'[o] = row
        BY <2>2, <2>4 DEF TypeOK
    <2> QED  BY <1>28, <2>2, <2>3, <2>5 DEF MarkRestoring, books, TypeOK, Idle
<1>29. CASE MoveBack
    <2>1. Verdict("restored", FALSE, {}, FALSE) \in Verdicts
        BY VerdictType, NoVerdictType DEF States, Final, Unfinished, Claims, Stopped
    <2>2. JobTyped'
        BY <1>29, <2>1, Deciding DEF MoveBack, Step, Steps, Idle
    <2> QED  BY <1>29, <2>2, <1>j DEF MoveBack, books, JobTyped, TypeOK, At, Places, Step, Idle
<1>30. CASE RestoreRefused
    <2>1. job.op \in Operations /\ op[job.op] \in Receipts /\ op[job.op].item = job.item
        BY <1>30 DEF RestoreRefused, TypeOK, Step, Idle
    <2>2. "trashed" \in States
        BY DEF States, Unfinished, Final
    <2> DEFINE row == [op[job.op] EXCEPT !.state = "trashed"]
    <2>3. row \in Receipts /\ row # None /\ row.item = job.item
        BY <2>1, <2>2, RowMoved
    <2> HIDE DEF row
    <2>4. op' = op \/ op' = [op EXCEPT ![job.op] = row]
        BY <1>30 DEF RestoreRefused, row
    <2>5. op' \in [Operations -> Receipts \cup {None}]
        BY <2>1, <2>3, <2>4 DEF TypeOK
    <2> QED  BY <1>30, <2>5 DEF RestoreRefused, books, TypeOK, Idle
<1>31. CASE Collect
    <2>1. wallet' \in [collected : Nat, remainder : 0..(CoinBytes - 1), credited : Nat]
        <3>1. wallet' = [wallet EXCEPT !.collected = wallet.collected + PendingCoins]
              /\ PendingCoins \in Nat
            BY <1>31 DEF Collect
        <3> QED  BY <3>1 DEF TypeOK
    <2> QED  BY <1>31, <2>1 DEF Collect, Uncollected, TypeOK, Idle
<1>32. CASE Restart
    <2>1. op' \in [Operations -> Receipts \cup {None}]
        <3>1. \A o \in Operations : Reconciled(op[o]) \in Receipts \cup {None}
            BY RowReconciled DEF TypeOK
        <3> QED  BY <1>32, <3>1 DEF Restart
    <2> QED  BY <1>32, <2>1 DEF Restart, TypeOK, Idle
<1>33. CASE Cancel
    BY <1>33 DEF Cancel, books, TypeOK, Idle
<1>34. ASSUME NEW i \in Items, EmptyTrash(i)
      PROVE  TypeOK'
    BY <1>34 DEF EmptyTrash, books, TypeOK, Idle, Places
<1> QED
    BY <1>1, <1>2, <1>3, <1>4, <1>5, <1>6, <1>7, <1>8, <1>9, <1>10, <1>11, <1>12,
       <1>13, <1>14, <1>15, <1>16, <1>17, <1>18, <1>19, <1>20, <1>21, <1>22, <1>23,
       <1>24, <1>25, <1>26, <1>27, <1>28, <1>29, <1>30, <1>31, <1>32, <1>33, <1>34
       DEF Next, Staging, Mutating, Settling, Restoring, Outside

\* Every variable of the ledger keeps its shape, the wallet's remainder stays
\* below one coin, and a job works on the item of its operation.
THEOREM LedgerTypeCorrect == Spec => []TypeOK
<1> QED  BY TypeInit, TypeStep, PTL DEF Spec

-----------------------------------------------------------------------------
(* The safety invariant                                                    *)

\* An item that left its folder was moved by an operation on that very item.
Placed ==
    \A i \in Items : place[i].at # "origin" =>
        /\ place[i].by \in Operations
        /\ op[place[i].by] # None /\ op[place[i].by].item = i

\* An id that is not in use has no window and no credit.
FreshRows == \A o \in Operations : op[o] = None => window[o] = "none" /\ alloc[o] = 0

\* A receipt that says "trashed" belongs to a row that is trashed or restoring.
OfferedByTrashed ==
    \A o \in Operations : op[o] # None /\ op[o].outcome = "trashed" =>
        op[o].state \in {"trashed", "restoring"}

RowInv ==
    /\ Placed /\ FreshRows /\ OfferedByTrashed
    /\ LeftoversAreNamed /\ CreditIsEarned /\ RestorableIsInTrash

Early == {"prepared", "ready", "staged", "checking", "checked"}
Late == {"accounting", "settling", "tidying"}

\* Where the job's item is, step by step.
JobPlace ==
    ~Idle =>
        LET p == place[job.item] IN
        /\ job.pc \in {"prepared", "ready"} => p.at = "origin"
        /\ job.pc \in {"staged", "checking", "checked"} => p = At("staged", job.op)
        /\ job.pc = "removing" => p.by = job.op /\ p.at \in {"staged", "part"}
        /\ job.pc = "putback" => p.by = job.op /\ p.at \in {"staged", "trash", "emptied"}
        /\ job.pc = "restoring" => p.by = job.op /\ p.at \in {"trash", "emptied"}

\* What a verdict claims is so.
JobVerdict ==
    ~Idle /\ job.pc \in Late =>
        LET p == place[job.item]
            v == job.verdict IN
        /\ v.outcome = "removed" => p = At("gone", job.op)
        /\ v.outcome = "trashed" => p.by = job.op /\ p.at \in {"trash", "emptied"}
        /\ v.restorable => v.outcome = "trashed"
        /\ p.at \in {"staged", "part"} => "staged" \in v.says

\* The row of the job's operation, its window and its manifest.
JobRow ==
    ~Idle /\ job.pc # "error" =>
        /\ op[job.op].mode = job.mode
        /\ job.pc # "tidying" => op[job.op].state \in Unfinished
        /\ job.pc \in {"prepared", "ready"} => "staged" \in op[job.op].says
        /\ job.pc \in Early => op[job.op].outcome = "prepared"
        /\ job.pc = "excusing" => op[job.op].outcome = "skipped"
        /\ job.pc \in Early => window[job.op] = "none"
        /\ job.pc = "accounting" => window[job.op] = "open"
        /\ job.pc = "ready" => job.op \in manifest
        /\ job.pc = "restoring" => op[job.op].outcome = "trashed"

LedgerInv == TypeOK /\ RowInv /\ JobPlace /\ JobVerdict /\ JobRow

-----------------------------------------------------------------------------
(* What all the steps have in common                                       *)

\* A running job has a well-formed record and, but for an error, a row.
LEMMA JobKnown ==
    ASSUME TypeOK, ~Idle
    PROVE  /\ job \in Jobs /\ job.item \in Items /\ job.verdict \in Verdicts
           /\ place[job.item] \in [at : Places, by : Operations \cup {None}]
           /\ job.pc # "error" =>
                /\ job.op \in Operations /\ op[job.op] \in Receipts
                /\ op[job.op] # None /\ op[job.op].item = job.item
<1>1. job \in Jobs  BY DEF TypeOK, Idle
<1>2. job.item \in Items /\ job.verdict \in Verdicts  BY <1>1 DEF Jobs
<1> QED  BY <1>1, <1>2 DEF TypeOK

\* The job goes on, with or without a new verdict.
LEMMA Went ==
    ASSUME TypeOK, ~Idle, NEW pc \in Steps, Goto(pc)
    PROVE  /\ job'.pc = pc /\ job'.op = job.op /\ job'.item = job.item
           /\ job'.mode = job.mode /\ job'.verdict = job.verdict
<1>1. job \in Jobs  BY DEF TypeOK, Idle
<1> QED  BY <1>1, JobMoved DEF Goto

LEMMA Decided ==
    ASSUME TypeOK, ~Idle, NEW pc, NEW v, Decide(pc, v)
    PROVE  /\ job'.pc = pc /\ job'.op = job.op /\ job'.item = job.item
           /\ job'.mode = job.mode /\ job'.verdict = v
<1>1. job \in Jobs  BY DEF TypeOK, Idle
<1> QED  BY <1>1 DEF Jobs, Decide

\* With no job running there is nothing to know of it.
LEMMA NoJob == ASSUME job' = None PROVE JobPlace' /\ JobVerdict' /\ JobRow'
BY DEF JobPlace, JobVerdict, JobRow, Idle

\* Rows and items that a step leaves alone still agree.
LEMMA RowsKept ==
    ASSUME RowInv, UNCHANGED <<op, manifest, window, alloc, place>>
    PROVE  RowInv'
BY DEF RowInv, Placed, FreshRows, OfferedByTrashed, LeftoversAreNamed, CreditIsEarned,
       RestorableIsInTrash

\* The job's item moves, while the operation is neither settled nor credited.
LEMMA ItemMoved ==
    ASSUME TypeOK, RowInv, NEW i \in Items, NEW o \in Operations,
           NEW where \in Places, NEW by,
           place' = [place EXCEPT ![i] = At(where, by)],
           UNCHANGED <<op, manifest, window, alloc>>,
           op[o] # None, op[o].item = i, op[o].state \in Unfinished,
           place[i].at = "origin" \/ place[i].by = o,
           where = "origin" \/ by = o,
           where \in {"staged", "part"} => o \in manifest /\ "staged" \in op[o].says
    PROVE  RowInv'
<1>1. /\ place'[i].at = where /\ place'[i].by = by
      /\ \A k \in Items \ {i} : place'[k] = place[k]
    BY DEF TypeOK, At
<1>2. Placed'
    BY <1>1 DEF RowInv, Placed
<1>3. FreshRows' /\ OfferedByTrashed'
    BY DEF RowInv, FreshRows, OfferedByTrashed
<1>4. LeftoversAreNamed'
    BY <1>1 DEF RowInv, LeftoversAreNamed
<1>5. CreditIsEarned'
    <2> SUFFICES ASSUME NEW k \in Operations, alloc[k] > 0
                 PROVE  /\ op[k].state = "removed" /\ op[k].mode = "permanent"
                        /\ place'[op[k].item] = At("gone", k)
                        /\ alloc[k] <= Private[op[k].item]
                        /\ alloc[k] <= Allocated[op[k].item]
        BY DEF CreditIsEarned
    <2>1. /\ op[k].state = "removed" /\ op[k].mode = "permanent"
          /\ place[op[k].item] = At("gone", k)
          /\ alloc[k] <= Private[op[k].item] /\ alloc[k] <= Allocated[op[k].item]
        BY DEF RowInv, CreditIsEarned
    <2>2. op[k] # None  BY DEF RowInv, FreshRows, TypeOK
    <2>3. op[k].item \in Items  BY <2>2 DEF TypeOK, Receipts
    <2>4. op[k].item # i  BY <2>1, <2>2 DEF At, Unfinished
    <2> QED  BY <1>1, <2>1, <2>3, <2>4
<1>6. RestorableIsInTrash'
    BY <1>1 DEF RowInv, RestorableIsInTrash, TypeOK, Receipts, Unfinished
<1> QED  BY <1>2, <1>3, <1>4, <1>5, <1>6 DEF RowInv

\* The row of an unsettled operation changes.
LEMMA RowChanged ==
    ASSUME TypeOK, RowInv, NEW o \in Operations, NEW row \in Receipts, row # None,
           op' = [op EXCEPT ![o] = row],
           UNCHANGED <<manifest, place>>,
           \A k \in Operations : k # o => window'[k] = window[k],
           op[o] # None, op[o].state # "removed", op[o].item = row.item,
           \A k \in Operations : k # o => alloc'[k] = alloc[k],
           alloc'[o] > 0 =>
                /\ row.state = "removed" /\ row.mode = "permanent"
                /\ place[row.item] = At("gone", o)
                /\ alloc'[o] <= Private[row.item] /\ alloc'[o] <= Allocated[row.item],
           row.outcome = "trashed" => row.state \in {"trashed", "restoring"},
           row.state = "trashed" /\ row.restorable =>
                place[row.item].by = o /\ place[row.item].at \in {"trash", "emptied"},
           place[row.item].by = o /\ place[row.item].at \in {"staged", "part"} =>
                "staged" \in row.says
    PROVE  RowInv'
<1>1. op'[o] = row /\ \A k \in Operations : k # o => op'[k] = op[k]
    BY DEF TypeOK
<1>2. Placed'
    BY <1>1 DEF RowInv, Placed
<1>3. FreshRows'
    BY <1>1 DEF RowInv, FreshRows
<1>4. OfferedByTrashed'
    BY <1>1 DEF RowInv, OfferedByTrashed
<1>5. LeftoversAreNamed'
    BY <1>1 DEF RowInv, LeftoversAreNamed, Placed
<1>6. CreditIsEarned'
    BY <1>1 DEF RowInv, CreditIsEarned
<1>7. RestorableIsInTrash'
    BY <1>1 DEF RowInv, RestorableIsInTrash
<1> QED  BY <1>2, <1>3, <1>4, <1>5, <1>6, <1>7 DEF RowInv

\* A new row is added under an id that was not in use.
LEMMA RowAdded ==
    ASSUME TypeOK, RowInv, NEW o \in Operations, NEW row \in Receipts,
           op[o] = None, op' = [op EXCEPT ![o] = row],
           row.state = "prepared", row.outcome # "trashed",
           UNCHANGED <<manifest, window, alloc, place>>
    PROVE  RowInv'
<1>1. op'[o] = row /\ \A k \in Operations : k # o => op'[k] = op[k]
    BY DEF TypeOK
<1>2. Placed'
    BY <1>1 DEF RowInv, Placed, NoneAssumption
<1>3. FreshRows' /\ OfferedByTrashed'
    BY <1>1 DEF RowInv, FreshRows, OfferedByTrashed
<1>4. LeftoversAreNamed'
    BY <1>1 DEF RowInv, LeftoversAreNamed, Placed
<1>5. CreditIsEarned'
    BY <1>1 DEF RowInv, CreditIsEarned, FreshRows, TypeOK
<1>6. RestorableIsInTrash'
    BY <1>1 DEF RowInv, RestorableIsInTrash
<1> QED  BY <1>2, <1>3, <1>4, <1>5, <1>6 DEF RowInv

-----------------------------------------------------------------------------
(* The invariant                                                           *)

JobInv == JobPlace /\ JobVerdict /\ JobRow

LEMMA LedgerInit == Init => LedgerInv
<1> SUFFICES ASSUME Init PROVE LedgerInv
    OBVIOUS
<1>1. TypeOK  BY TypeInit
<1>2. RowInv
    BY DEF Init, RowInv, Placed, FreshRows, OfferedByTrashed, LeftoversAreNamed,
       CreditIsEarned, RestorableIsInTrash, At
<1>3. JobPlace /\ JobVerdict /\ JobRow
    BY DEF Init, JobPlace, JobVerdict, JobRow, Idle
<1> QED  BY <1>1, <1>2, <1>3 DEF LedgerInv

\* What reconcile makes of a row.
LEMMA RowInterrupted ==
    ASSUME NEW r \in Receipts, NEW s, s = Reconciled(r)
    PROVE  /\ s # None /\ s.item = r.item /\ r.says \subseteq s.says
           /\ s # r => s.state = "interrupted" /\ s.outcome = "interrupted"
           /\ r.state \in {"removed", "trashed"} => s = r
<1>1. r # None  BY NoneAssumption
<1>2. CASE r.state \in Unfinished
    <2>1. s = [r EXCEPT !.state = "interrupted", !.outcome = "interrupted",
                        !.restorable = FALSE, !.says = @ \cup {"staged"}]
        BY <1>1, <1>2 DEF Reconciled
    <2>2. s \in Receipts
        BY <2>1 DEF Receipts, States, Final, Claims
    <2> QED  BY <1>2, <2>1, <2>2, NoneAssumption DEF Receipts, Unfinished
<1>3. CASE ~(r.state \in Unfinished)
    <2>1. s = r  BY <1>3 DEF Reconciled
    <2> QED  BY <1>1, <2>1
<1> QED  BY <1>2, <1>3

LEMMA LedgerStep == LedgerInv /\ [Next]_vars => LedgerInv'
<1> SUFFICES ASSUME LedgerInv, [Next]_vars PROVE RowInv' /\ JobInv'
    BY TypeStep DEF LedgerInv, JobInv
<1>t. TypeOK /\ RowInv /\ JobPlace /\ JobVerdict /\ JobRow
    BY DEF LedgerInv
<1>k. ~Idle => /\ job \in Jobs /\ job.item \in Items
               /\ place[job.item] \in [at : Places, by : Operations \cup {None}]
               /\ job.pc # "error" =>
                    /\ job.op \in Operations /\ op[job.op] \in Receipts
                    /\ op[job.op] # None /\ op[job.op].item = job.item
    BY <1>t, JobKnown
<1>1. CASE UNCHANGED vars
    <2>1. RowInv'  BY <1>1, <1>t, RowsKept DEF vars, books
    <2> QED  BY <1>1, <1>t, <2>1
             DEF vars, books, JobInv, JobPlace, JobVerdict, JobRow, Idle
<1>2. ASSUME NEW o \in Operations, NEW i \in Items, NEW m \in Modes, Begin(o, i, m)
      PROVE  RowInv' /\ JobInv'
    <2> DEFINE row == Prepared(i, m, "prepared", {"staged"})
    <2>1. row \in Receipts /\ row # None
        <3>1. "prepared" \in States /\ {"staged"} \in SUBSET Claims
            BY DEF States, Unfinished, Claims
        <3> QED  BY <3>1, NewRow
    <2>2. RowInv'
        BY <1>2, <1>t, <2>1, RowAdded DEF Begin, books, Prepared
    <2>3. op'[o] = row
        BY <1>2, <1>t DEF Begin, TypeOK
    <2>4. window[o] = "none"
        BY <1>2, <1>t DEF Begin, RowInv, FreshRows
    <2>5. JobInv'
        BY <1>2, <2>3, <2>4
           DEF Begin, books, Prepared, Unfinished, Late, Early, NoVerdict, Verdict,
               JobInv, JobPlace, JobVerdict, JobRow
    <2> QED  BY <2>2, <2>5
<1>3. ASSUME NEW i \in Items, NEW m \in Modes, Refuse(i, m)
      PROVE  RowInv' /\ JobInv'
    <2>1. RowInv'  BY <1>3, <1>t, RowsKept DEF Refuse, books
    <2>2. JobInv'  BY <1>3 DEF Refuse, Late, JobInv, JobPlace, JobVerdict, JobRow
    <2> QED  BY <2>1, <2>2
<1>4. CASE Record
    <2>1. ~Idle /\ job.pc # "error"
        BY <1>4 DEF Record, Step
    <2>2. /\ job'.pc = "ready" /\ job'.op = job.op /\ job'.item = job.item
          /\ job'.mode = job.mode /\ job'.verdict = job.verdict
        BY <1>4, <1>t, <2>1, Went DEF Record, Steps
    <2>3. RowInv'
        BY <1>4, <1>t DEF Record, books, RowInv, Placed, FreshRows, OfferedByTrashed,
           LeftoversAreNamed, CreditIsEarned, RestorableIsInTrash
    <2>4. JobInv'
        BY <1>4, <1>t, <1>k, <2>1, <2>2
           DEF Record, books, Step, JobInv, JobPlace, JobVerdict, JobRow, Idle, Early, Late
    <2> QED  BY <2>3, <2>4
<1>5. CASE PreparationFails
    <2>1. ~Idle /\ job.pc # "error"
        BY <1>5 DEF PreparationFails, Step
    <2>2. /\ job'.op = job.op /\ job'.item = job.item /\ job'.mode = job.mode
          /\ job'.pc = "settling"
          /\ job'.verdict = Verdict(Stopped, FALSE, {}, FALSE)
        BY <1>5, <1>t, <2>1, Decided DEF PreparationFails
    <2>3. RowInv'
        BY <1>5, <1>t, RowsKept DEF PreparationFails, books
    <2>4. JobInv'
        BY <1>5, <1>t, <1>k, <2>1, <2>2
           DEF PreparationFails, books, Step, JobInv, JobPlace, JobVerdict,
               JobRow, Idle, Early, Late, Verdict, Stopped
    <2> QED  BY <2>3, <2>4
<1>6. CASE Stage
    <2>1. ~Idle /\ job.pc # "error"
        BY <1>6 DEF Stage, Step
    <2>2. /\ job'.pc = "staged" /\ job'.op = job.op /\ job'.item = job.item
          /\ job'.mode = job.mode /\ job'.verdict = job.verdict
        BY <1>6, <1>t, <2>1, Went DEF Stage, Steps
    <2>3. RowInv'
        BY <1>6, <1>t, <1>k, <2>1, ItemMoved
           DEF Stage, books, Step, JobPlace, JobRow, Places, Early
    <2>4. JobInv'
        BY <1>6, <1>t, <1>k, <2>1, <2>2
           DEF Stage, books, Step, JobInv, JobPlace, JobVerdict, JobRow,
               Idle, Early, Late, At, TypeOK
    <2> QED  BY <2>3, <2>4
<1>7. CASE StagingFails
    <2>1. ~Idle /\ job.pc # "error"
        BY <1>7 DEF StagingFails, Step
    <2>2. /\ job'.op = job.op /\ job'.item = job.item /\ job'.mode = job.mode
          /\ job'.pc = "settling"
          /\ job'.verdict = Verdict(Stopped, FALSE, {}, FALSE)
        BY <1>7, <1>t, <2>1, Decided DEF StagingFails
    <2>3. RowInv'
        BY <1>7, <1>t, RowsKept DEF StagingFails, books
    <2>4. JobInv'
        BY <1>7, <1>t, <1>k, <2>1, <2>2
           DEF StagingFails, books, Step, JobInv, JobPlace, JobVerdict,
               JobRow, Idle, Early, Late, Verdict, Stopped
    <2> QED  BY <2>3, <2>4
<1>8. CASE MarkMutating
    <2>1. ~Idle /\ job.pc # "error"
        BY <1>8 DEF MarkMutating, Step
    <2>2. /\ job'.pc = "checking" /\ job'.op = job.op /\ job'.item = job.item
          /\ job'.mode = job.mode /\ job'.verdict = job.verdict
        BY <1>8, <1>t, <2>1, Went DEF MarkMutating, Steps
    <2> DEFINE row == [op[job.op] EXCEPT !.state = "mutating"]
    <2>a. row \in Receipts /\ row # None /\ row.item = job.item
        <3>1. "mutating" \in States  BY DEF States, Unfinished
        <3> QED  BY <1>k, <2>1, <3>1, RowMoved
    <2>b. /\ row.state = "mutating" /\ row.outcome = op[job.op].outcome
          /\ row.says = op[job.op].says /\ row.mode = op[job.op].mode
        BY <1>k, <2>1 DEF Receipts
    <2>c. op[job.op].state \in Unfinished /\ op[job.op].outcome = "prepared"
        BY <1>8, <1>t, <2>1 DEF MarkMutating, Step, JobRow, Early
    <2>d. op' = [op EXCEPT ![job.op] = row]
        BY <1>8 DEF MarkMutating
    <2>e. op'[job.op] = row
        BY <1>t, <1>k, <2>1, <2>d DEF TypeOK
    <2>f. UNCHANGED <<manifest, window, alloc, place>>
        BY <1>8 DEF MarkMutating, books
    <2>g. place[job.item].by = job.op /\ place[job.item].at \in {"staged", "part"} =>
            "staged" \in op[job.op].says
        BY <1>t, <1>k, <2>1 DEF RowInv, LeftoversAreNamed
    <2>h. alloc[job.op] > 0 => op[job.op].state = "removed"
        BY <1>t, <1>k, <2>1 DEF RowInv, CreditIsEarned
    <2> HIDE DEF row
    <2>3. RowInv'
        BY <1>t, <1>k, <2>1, <2>a, <2>b, <2>c, <2>d, <2>f, <2>g, <2>h,
            RowChanged DEF Unfinished
    <2>4. JobInv'
        BY <1>8, <1>t, <1>k, <2>1, <2>2, <2>b, <2>c, <2>e, <2>f
           DEF MarkMutating, Step, JobInv, JobPlace, JobVerdict, JobRow,
               Idle, Early, Late, Unfinished
    <2> QED  BY <2>3, <2>4
<1>9. CASE Verify
    <2>1. ~Idle /\ job.pc # "error"
        BY <1>9 DEF Verify, Step
    <2>2. /\ job'.pc = "checked" /\ job'.op = job.op /\ job'.item = job.item
          /\ job'.mode = job.mode /\ job'.verdict = job.verdict
        BY <1>9, <1>t, <2>1, Went DEF Verify, Steps
    <2>3. RowInv'
        BY <1>9, <1>t, RowsKept DEF Verify, books
    <2>4. JobInv'
        BY <1>9, <1>t, <1>k, <2>1, <2>2
           DEF Verify, books, Step, JobInv, JobPlace, JobVerdict, JobRow, Idle, Early, Late
    <2> QED  BY <2>3, <2>4
<1>10. CASE VerificationFails
    <2>1. ~Idle /\ job.pc # "error"
        BY <1>10 DEF VerificationFails, Step
    <2>2. /\ job'.op = job.op /\ job'.item = job.item /\ job'.mode = job.mode
          /\ job'.pc = "putback"
          /\ job'.verdict = NoVerdict
        BY <1>10, <1>t, <2>1, Decided DEF VerificationFails
    <2>3. RowInv'
        BY <1>10, <1>t, RowsKept DEF VerificationFails, books
    <2>4. JobInv'
        BY <1>10, <1>t, <1>k, <2>1, <2>2
           DEF VerificationFails, books, Step, JobInv, JobPlace, JobVerdict,
               JobRow, Idle, Early, Late, At
    <2> QED  BY <2>3, <2>4
<1>11. CASE PutBack
    <2> DEFINE failed == job.verdict.outcome = "failed"
               outcome == IF failed THEN "failed" ELSE Stopped
    <2>1. ~Idle /\ job.pc = "putback"
        BY <1>11 DEF PutBack, Step
    <2>2. \E says \in SUBSET Claims :
            /\ Decide("settling", Verdict(outcome, FALSE, says, failed))
            /\ \/ /\ place[job.item] = At("staged", job.op)
                  /\ place' = [place EXCEPT ![job.item] = At("origin", None)]
               \/ "staged" \in says /\ UNCHANGED place
        <3>1. {} \in SUBSET Claims /\ {"staged"} \in SUBSET Claims
            BY DEF Claims
        <3> QED  BY <1>11, <3>1 DEF PutBack
    <2>3. PICK says \in SUBSET Claims :
            /\ Decide("settling", Verdict(outcome, FALSE, says, failed))
            /\ \/ /\ place[job.item] = At("staged", job.op)
                  /\ place' = [place EXCEPT ![job.item] = At("origin", None)]
               \/ "staged" \in says /\ UNCHANGED place
        BY <2>2
    <2>4. outcome # "removed" /\ outcome # "trashed"
        BY DEF Stopped
    <2>5. /\ job'.op = job.op /\ job'.item = job.item /\ job'.mode = job.mode
          /\ job'.pc = "settling" /\ job'.verdict = Verdict(outcome, FALSE, says, failed)
        BY <1>t, <2>1, <2>3, Decided
    <2> HIDE DEF failed, outcome
    <2>6. UNCHANGED <<op, manifest, window, alloc>>
        BY <1>11 DEF PutBack, books
    <2>7. RowInv'
        BY <1>t, <1>k, <2>1, <2>3, <2>6, ItemMoved, RowsKept
           DEF JobPlace, JobRow, Places, At
    <2>8. place'[job.item].at \in {"staged", "part"} => "staged" \in says
        BY <1>t, <1>k, <2>1, <2>3 DEF At, TypeOK
    <2>9. JobInv'
        BY <1>t, <1>k, <2>1, <2>4, <2>5, <2>6, <2>8
           DEF JobInv, JobPlace, JobVerdict, JobRow, Idle, Early, Late, Verdict
    <2> QED  BY <2>7, <2>9
<1>12. CASE NativeTrash
    <2>1. ~Idle /\ job.pc # "error"
        BY <1>12 DEF NativeTrash, Step
    <2>2. /\ job'.op = job.op /\ job'.item = job.item /\ job'.mode = job.mode
          /\ job'.pc = "settling"
          /\ job'.verdict = Verdict("trashed", TRUE, {"restorable"}, TRUE)
        BY <1>12, <1>t, <2>1, Decided DEF NativeTrash
    <2>a. place[job.item].by = job.op
        BY <1>12, <1>t, <2>1 DEF NativeTrash, Step, JobPlace, At
    <2>3. RowInv'
        BY <1>12, <1>t, <1>k, <2>1, <2>a, ItemMoved
           DEF NativeTrash, books, Step, JobRow, Places, Early
    <2>4. JobInv'
        BY <1>12, <1>t, <1>k, <2>1, <2>2
           DEF NativeTrash, books, Step, JobInv, JobPlace, JobVerdict,
               JobRow, Idle, Early, Late, At, TypeOK, Verdict
    <2> QED  BY <2>3, <2>4
<1>13. CASE TrashFails
    <2>1. ~Idle /\ job.pc # "error"
        BY <1>13 DEF TrashFails, Step
    <2>2. /\ job'.op = job.op /\ job'.item = job.item /\ job'.mode = job.mode
          /\ job'.pc = "putback"
          /\ job'.verdict = Verdict("failed", FALSE, {}, TRUE)
        BY <1>13, <1>t, <2>1, Decided DEF TrashFails
    <2>a. place[job.item].by = job.op
        BY <1>13, <1>t, <2>1 DEF TrashFails, Step, JobPlace, At
    <2>3. RowInv'
        BY <1>13, <1>t, <1>k, <2>1, <2>a, ItemMoved, RowsKept
           DEF TrashFails, books, Step, JobRow, Places, Early
    <2>4. JobInv'
        BY <1>13, <1>t, <1>k, <2>1, <2>2
           DEF TrashFails, books, Step, JobInv, JobPlace, JobVerdict, JobRow,
               Idle, Early, Late, At, TypeOK, Verdict
    <2> QED  BY <2>3, <2>4
<1>14. CASE RecoveryFails
    <2>1. ~Idle /\ job.pc # "error"
        BY <1>14 DEF RecoveryFails, Step
    <2>2. /\ job'.op = job.op /\ job'.item = job.item /\ job'.mode = job.mode
          /\ job'.pc = "settling"
          /\ job'.verdict = Verdict("failed", FALSE, {"staged"}, FALSE)
        BY <1>14, <1>t, <2>1, Decided DEF RecoveryFails
    <2>3. RowInv'
        BY <1>14, <1>t, RowsKept DEF RecoveryFails, books
    <2>4. JobInv'
        BY <1>14, <1>t, <1>k, <2>1, <2>2
           DEF RecoveryFails, books, Step, JobInv, JobPlace, JobVerdict,
               JobRow, Idle, Early, Late, Verdict
    <2> QED  BY <2>3, <2>4
<1>15. CASE OpenWindow
    <2>1. ~Idle /\ job.pc # "error"
        BY <1>15 DEF OpenWindow, Step
    <2>2. /\ job'.pc = "removing" /\ job'.op = job.op /\ job'.item = job.item
          /\ job'.mode = job.mode /\ job'.verdict = job.verdict
        BY <1>15, <1>t, <2>1, Went DEF OpenWindow, Steps
    <2>3. RowInv'
        BY <1>15, <1>t, <1>k, <2>1 DEF OpenWindow, books, RowInv, Placed,
            FreshRows, OfferedByTrashed,
           LeftoversAreNamed, CreditIsEarned, RestorableIsInTrash, TypeOK
    <2>4. JobInv'
        BY <1>15, <1>t, <1>k, <2>1, <2>2
           DEF OpenWindow, books, Step, JobInv, JobPlace, JobVerdict, JobRow,
               Idle, Early, Late, At
    <2> QED  BY <2>3, <2>4
<1>16. CASE RemoveLeaf
    <2>1. ~Idle /\ job.pc = "removing"
        BY <1>16 DEF RemoveLeaf, Step
    <2>2. job.op \in manifest /\ "staged" \in op[job.op].says
        BY <1>t, <1>k, <2>1 DEF RowInv, LeftoversAreNamed, JobPlace
    <2>3. RowInv'
        BY <1>16, <1>t, <1>k, <2>1, <2>2, ItemMoved DEF RemoveLeaf, books,
            JobPlace, JobRow, Places
    <2>4. JobInv'
        BY <1>16, <1>t, <1>k, <2>1 DEF RemoveLeaf, books, JobInv, JobPlace,
            JobVerdict, JobRow,
           Idle, Early, Late, At, TypeOK
    <2> QED  BY <2>3, <2>4
<1>17. CASE RemovalEnds
    <2>1. ~Idle /\ job.pc # "error"
        BY <1>17 DEF RemovalEnds, Step
    <2>2. /\ job'.op = job.op /\ job'.item = job.item /\ job'.mode = job.mode
          /\ job'.pc = Accounted
          /\ job'.verdict = Verdict("removed", FALSE, {}, TRUE)
        BY <1>17, <1>t, <2>1, Decided DEF RemovalEnds
    <2>3. RowInv'
        BY <1>17, <1>t, <1>k, <2>1, ItemMoved
           DEF RemovalEnds, books, Step, JobPlace, JobRow, Places, Early
    <2>4. JobInv'
        BY <1>17, <1>t, <1>k, <2>1, <2>2
           DEF RemovalEnds, books, Step, JobInv, JobPlace, JobVerdict,
               JobRow, Idle, Early, Late, At, TypeOK, Verdict, Accounted
    <2> QED  BY <2>3, <2>4
<1>18. CASE RemovalStops
    <2>1. ~Idle /\ job.pc # "error"
        BY <1>18 DEF RemovalStops, Step
    <2>2. /\ job'.op = job.op /\ job'.item = job.item /\ job'.mode = job.mode
          /\ job'.pc = Accounted
          /\ job'.verdict = Verdict(IF cancel THEN "cancelled" ELSE "partial", FALSE, {"staged"}, TRUE)
        BY <1>18, <1>t, <2>1, Decided DEF RemovalStops
    <2>3. RowInv'
        BY <1>18, <1>t, <1>k, <2>1, ItemMoved, RowsKept
           DEF RemovalStops, books, Step, JobPlace, JobRow, Places, Early
    <2>4. JobInv'
        BY <1>18, <1>t, <1>k, <2>1, <2>2
           DEF RemovalStops, books, Step, JobInv, JobPlace, JobVerdict,
               JobRow, Idle, Early, Late, At, TypeOK, Verdict, Accounted
    <2> QED  BY <2>3, <2>4
<1>19. ASSUME NEW known \in BOOLEAN, NEW growth \in 0..MaxGrowth, Allocate(known, growth)
      PROVE  RowInv' /\ JobInv'
    <2> DEFINE credit == SupportedCredit(known, growth)
               row == Settled(op[job.op], job.verdict)
    <2>1. ~Idle /\ job.pc = "accounting"
        BY <1>19 DEF Allocate, Step
    <2>2. /\ job'.pc = "tidying" /\ job'.op = job.op /\ job'.item = job.item
          /\ job'.mode = job.mode /\ job'.verdict = job.verdict
        BY <1>19, <1>t, <2>1, Went DEF Allocate, Steps
    <2>3. /\ row \in Receipts /\ row # None /\ row.item = job.item /\ row.mode = job.mode
          /\ row.state = job.verdict.outcome /\ row.outcome = job.verdict.outcome
          /\ row.restorable = job.verdict.restorable /\ row.says = job.verdict.says
        <3>1. job.verdict \in Verdicts /\ op[job.op].mode = job.mode
            BY <1>t, <1>k, <2>1 DEF Jobs, JobRow
        <3> QED  BY <1>k, <2>1, <3>1, RowSettled DEF Settled, Receipts
    <2>4. credit > 0 => /\ job.mode = "permanent" /\ job.verdict.outcome = "removed"
                        /\ credit <= Private[job.item] /\ credit <= Allocated[job.item]
        BY <1>t, <2>1, CreditBounds
    <2>5. op' = [op EXCEPT ![job.op] = row] /\ UNCHANGED <<manifest, place>>
        BY <1>19 DEF Allocate
    <2>6. /\ alloc'[job.op] = credit /\ op'[job.op] = row
          /\ \A k \in Operations : k # job.op => alloc'[k] = alloc[k] /\ window'[k] = window[k]
        BY <1>19, <1>t, <1>k, <2>1 DEF Allocate, TypeOK
    <2>7. op[job.op].state \in Unfinished
        BY <1>t, <2>1 DEF JobRow
    <2> HIDE DEF credit, row
    <2>8. RowInv'
        <3>1. /\ job.op \in Operations /\ op[job.op] # None
              /\ op[job.op].item = row.item /\ op[job.op].state # "removed"
            BY <1>k, <2>1, <2>3, <2>7 DEF Unfinished
        <3>2. alloc'[job.op] > 0 =>
                  /\ row.state = "removed" /\ row.mode = "permanent"
                  /\ place[row.item] = At("gone", job.op)
                  /\ alloc'[job.op] <= Private[row.item]
                  /\ alloc'[job.op] <= Allocated[row.item]
            BY <1>t, <2>1, <2>3, <2>4, <2>6 DEF JobVerdict, Late
        <3>3. /\ row.outcome = "trashed" => row.state \in {"trashed", "restoring"}
              /\ row.state = "trashed" /\ row.restorable =>
                    /\ place[row.item].by = job.op
                    /\ place[row.item].at \in {"trash", "emptied"}
              /\ place[row.item].by = job.op /\ place[row.item].at \in {"staged", "part"} =>
                    "staged" \in row.says
            BY <1>t, <2>1, <2>3 DEF JobVerdict, Late
        <3>4. /\ \A k \in Operations : k # job.op => window'[k] = window[k]
              /\ \A k \in Operations : k # job.op => alloc'[k] = alloc[k]
            BY <2>6
        <3> QED  BY <1>t, <2>3, <2>5, <3>1, <3>2, <3>3, <3>4, RowChanged
    <2>9. JobInv'
        BY <1>19, <1>t, <1>k, <2>1, <2>2, <2>3, <2>5, <2>6
           DEF JobInv, JobPlace, JobVerdict, JobRow, Idle, Early, Late
    <2> QED  BY <2>8, <2>9
<1>20. CASE AllocationFails
    <2>1. ~Idle /\ job.pc # "error"
        BY <1>20 DEF AllocationFails, Step
    <2>2. /\ job'.pc = "settling" /\ job'.op = job.op /\ job'.item = job.item
          /\ job'.mode = job.mode /\ job'.verdict = job.verdict
        BY <1>20, <1>t, <2>1, Went DEF AllocationFails, Steps
    <2>3. RowInv'
        BY <1>20, <1>t, RowsKept DEF AllocationFails, books
    <2>4. JobInv'
        BY <1>20, <1>t, <1>k, <2>1, <2>2
           DEF AllocationFails, books, Step, JobInv, JobPlace, JobVerdict,
               JobRow, Idle, Early, Late
    <2> QED  BY <2>3, <2>4
<1>21. CASE FinishOperation
    <2> DEFINE row == Settled(op[job.op], job.verdict)
    <2>1. ~Idle /\ job.pc = "settling"
        BY <1>21 DEF FinishOperation, Step
    <2>2. /\ job' # None => /\ job'.pc = "tidying" /\ job'.op = job.op /\ job'.item = job.item
                           /\ job'.mode = job.mode /\ job'.verdict = job.verdict
        BY <1>21, <1>k, <2>1, JobMoved DEF FinishOperation, Steps
    <2>3. /\ row \in Receipts /\ row # None /\ row.item = job.item /\ row.mode = job.mode
          /\ row.state = job.verdict.outcome /\ row.outcome = job.verdict.outcome
          /\ row.restorable = job.verdict.restorable /\ row.says = job.verdict.says
        <3>1. job.verdict \in Verdicts /\ op[job.op].mode = job.mode
            BY <1>t, <1>k, <2>1 DEF Jobs, JobRow
        <3> QED  BY <1>k, <2>1, <3>1, RowSettled DEF Settled, Receipts
    <2>4. op' = [op EXCEPT ![job.op] = row] /\ UNCHANGED <<manifest, place, alloc, window>>
        BY <1>21 DEF FinishOperation, books
    <2>5. op'[job.op] = row
        BY <1>t, <1>k, <2>1, <2>4 DEF TypeOK
    <2>6. op[job.op].state \in Unfinished
        BY <1>t, <2>1 DEF JobRow
    <2>7. ~(alloc[job.op] > 0)
        BY <1>t, <1>k, <2>1, <2>6 DEF RowInv, CreditIsEarned, Unfinished
    <2> HIDE DEF row
    <2>8. RowInv'
        BY <1>t, <1>k, <2>1, <2>3, <2>4, <2>6, <2>7, RowChanged
           DEF JobVerdict, Late, Unfinished
    <2>9. JobInv'
        BY <1>21, <1>t, <1>k, <2>1, <2>2, <2>3, <2>4, <2>5
           DEF JobInv, JobPlace, JobVerdict, JobRow, Idle, Early, Late
    <2> QED  BY <2>8, <2>9
<1>22. CASE FinishFails
    <2>1. ~Idle /\ job.pc = "settling"
        BY <1>22 DEF FinishFails, Step
    <2>2. job' # None => job'.pc = "error"
        BY <1>22, <1>k, <2>1, JobMoved DEF FinishFails, Steps
    <2>3. RowInv'
        BY <1>22, <1>t, RowsKept DEF FinishFails, books
    <2>4. JobInv'
        BY <2>2 DEF JobInv, JobPlace, JobVerdict, JobRow, Idle, Late
    <2> QED  BY <2>3, <2>4
<1>23. CASE Tidy
    <2>1. ~Idle /\ job.pc = "tidying"
        BY <1>23 DEF Tidy, Step
    <2>2. UNCHANGED <<op, window, alloc, place>> /\ job' = None
        BY <1>23 DEF Tidy, books
    <2>3. LeftoversAreNamed'
        <3> SUFFICES ASSUME NEW i \in Items, place[i].at \in {"staged", "part"}
                     PROVE  place[i].by \in manifest' /\ "staged" \in op[place[i].by].says
            BY <2>2 DEF LeftoversAreNamed
        <3>1. place[i].by \in manifest /\ "staged" \in op[place[i].by].says
            BY <1>t DEF RowInv, LeftoversAreNamed
        <3>2. CASE job.verdict.outcome \in {"removed", "trashed"}
            <4>1. i # job.item  BY <1>t, <2>1, <3>2 DEF JobVerdict, Late, At
            <4>2. place[i].by # job.op
                BY <1>t, <1>k, <2>1, <4>1 DEF RowInv, Placed
            <4> QED  BY <1>23, <3>1, <4>2 DEF Tidy, Kept
        <3>3. CASE job.verdict.outcome \notin {"removed", "trashed"}
            BY <1>23, <3>1, <3>3 DEF Tidy, Kept
        <3> QED  BY <3>2, <3>3
    <2>4. RowInv'
        BY <1>t, <2>2, <2>3 DEF RowInv, Placed, FreshRows, OfferedByTrashed, CreditIsEarned,
           RestorableIsInTrash
    <2> QED  BY <2>2, <2>4, NoJob DEF JobInv
<1>24. CASE TidyFails
    <2>1. ~Idle /\ job.pc # "error"
        BY <1>24 DEF TidyFails, Step
    <2>2. /\ job'.pc = "error" /\ job'.op = job.op /\ job'.item = job.item
          /\ job'.mode = job.mode /\ job'.verdict = job.verdict
        BY <1>24, <1>t, <2>1, Went DEF TidyFails, Steps
    <2>3. RowInv'
        BY <1>24, <1>t, RowsKept DEF TidyFails, books
    <2>4. JobInv'
        BY <1>24, <1>t, <1>k, <2>1, <2>2
           DEF TidyFails, books, Step, JobInv, JobPlace, JobVerdict, JobRow,
               Idle, Early, Late
    <2> QED  BY <2>3, <2>4
<1>25. ASSUME NEW o \in Operations, Excuse(o)
      PROVE  RowInv' /\ JobInv'
    <2> DEFINE row == Prepared(job.item, job.mode, "skipped", {})
    <2>1. ~Idle /\ job.pc = "error" /\ op[o] = None
        BY <1>25 DEF Excuse, Step
    <2>2. row \in Receipts /\ row # None
        <3>1. "skipped" \in States /\ {} \in SUBSET Claims /\ job.mode \in Modes
            BY <1>k, <2>1 DEF States, Final, Jobs
        <3> QED  BY <1>k, <2>1, <3>1, NewRow
    <2>3. RowInv'
        BY <1>25, <1>t, <2>1, <2>2, RowAdded DEF Excuse, books, Prepared
    <2>4. op'[o] = row
        BY <1>25, <1>t DEF Excuse, TypeOK
    <2>5. job'.pc = "excusing" /\ job'.op = o /\ job'.item = job.item /\ job'.mode = job.mode
        BY <1>25, <1>k, <2>1 DEF Excuse, Jobs
    <2>6. JobInv'
        BY <2>4, <2>5 DEF Prepared, Unfinished, Late, Early, JobInv, JobPlace,
            JobVerdict, JobRow
    <2> QED  BY <2>3, <2>6
<1>26. CASE FinishExcuse
    <2> DEFINE row == [op[job.op] EXCEPT !.state = "skipped"]
    <2>1. ~Idle /\ job.pc = "excusing"
        BY <1>26 DEF FinishExcuse, Step
    <2>2. row \in Receipts /\ row # None /\ row.item = job.item
        <3>1. "skipped" \in States  BY DEF States, Unfinished, Final
        <3> QED  BY <1>k, <2>1, <3>1, RowMoved
    <2>3. /\ row.state = "skipped" /\ row.outcome = op[job.op].outcome
          /\ row.says = op[job.op].says
        BY <1>k, <2>1 DEF Receipts
    <2>4. op[job.op].state \in Unfinished /\ op[job.op].outcome = "skipped"
        BY <1>t, <2>1 DEF JobRow
    <2>5. /\ op' = [op EXCEPT ![job.op] = row]
          /\ UNCHANGED <<manifest, window, alloc, place>> /\ job' = None
        BY <1>26 DEF FinishExcuse, books
    <2>6. place[job.item].by = job.op /\ place[job.item].at \in {"staged", "part"} =>
            "staged" \in op[job.op].says
        BY <1>t, <1>k, <2>1 DEF RowInv, LeftoversAreNamed
    <2>7. ~(alloc[job.op] > 0)
        BY <1>t, <1>k, <2>1, <2>4 DEF RowInv, CreditIsEarned, Unfinished
    <2> HIDE DEF row
    <2>8. RowInv'
        BY <1>t, <1>k, <2>1, <2>2, <2>3, <2>4, <2>5, <2>6, <2>7, RowChanged DEF Unfinished
    <2> QED  BY <2>5, <2>8, NoJob DEF JobInv
<1>27. CASE ExcuseFails
    <2>1. RowInv'
        BY <1>27, <1>t, RowsKept DEF ExcuseFails, books
    <2> QED  BY <1>27, <2>1, NoJob DEF ExcuseFails, JobInv
<1>28. ASSUME NEW o \in Operations, MarkRestoring(o)
      PROVE  RowInv' /\ JobInv'
    <2> DEFINE row == [op[o] EXCEPT !.state = "restoring"]
    <2>1. /\ op[o] # None /\ op[o] \in Receipts /\ op[o].outcome = "trashed"
          /\ op[o].state \in {"trashed", "restoring"} /\ place[op[o].item] = At("trash", o)
        BY <1>28, <1>t DEF MarkRestoring, TypeOK, RowInv, OfferedByTrashed
    <2>2. row \in Receipts /\ row # None /\ row.item = op[o].item
        <3>1. "restoring" \in States  BY DEF States, Unfinished
        <3> QED  BY <2>1, <3>1, RowMoved
    <2>3. /\ row.state = "restoring" /\ row.outcome = "trashed"
          /\ row.says = op[o].says /\ row.mode = op[o].mode
        BY <2>1 DEF Receipts
    <2>4. /\ op' = [op EXCEPT ![o] = row]
          /\ UNCHANGED <<manifest, window, alloc, place>>
          /\ job' = [pc |-> "restoring", op |-> o, item |-> op[o].item, mode |-> op[o].mode,
                     verdict |-> NoVerdict]
        BY <1>28 DEF MarkRestoring, books
    <2>5. op'[o] = row
        BY <1>t, <2>4 DEF TypeOK
    <2>6. ~(alloc[o] > 0)
        BY <1>t, <2>1 DEF RowInv, CreditIsEarned
    <2>7. place[op[o].item].by = o /\ place[op[o].item].at = "trash"
        BY <2>1 DEF At
    <2> HIDE DEF row
    <2>8. RowInv'
        BY <1>t, <2>1, <2>2, <2>3, <2>4, <2>6, <2>7, RowChanged
    <2>9. JobInv'
        BY <2>3, <2>4, <2>5, <2>7
           DEF JobInv, JobPlace, JobVerdict, JobRow, Early, Late, Unfinished
    <2> QED  BY <2>8, <2>9
<1>29. CASE MoveBack
    <2>1. ~Idle /\ job.pc # "error"
        BY <1>29 DEF MoveBack, Step
    <2>2. /\ job'.op = job.op /\ job'.item = job.item /\ job'.mode = job.mode
          /\ job'.pc = "settling"
          /\ job'.verdict = Verdict("restored", FALSE, {}, FALSE)
        BY <1>29, <1>t, <2>1, Decided DEF MoveBack
    <2>a. place[job.item].by = job.op
        BY <1>29 DEF MoveBack, At
    <2>3. RowInv'
        BY <1>29, <1>t, <1>k, <2>1, <2>a, ItemMoved
           DEF MoveBack, books, Step, JobRow, Places
    <2>4. JobInv'
        BY <1>29, <1>t, <1>k, <2>1, <2>2
           DEF MoveBack, books, Step, JobInv, JobPlace, JobVerdict, JobRow,
               Idle, Early, Late, At, TypeOK, Verdict
    <2> QED  BY <2>3, <2>4
<1>30. CASE RestoreRefused
    <2> DEFINE row == [op[job.op] EXCEPT !.state = "trashed"]
    <2>1. ~Idle /\ job.pc = "restoring"
        BY <1>30 DEF RestoreRefused, Step
    <2>2. row \in Receipts /\ row # None /\ row.item = job.item
        <3>1. "trashed" \in States  BY DEF States, Unfinished, Final
        <3> QED  BY <1>k, <2>1, <3>1, RowMoved
    <2>3. /\ row.state = "trashed" /\ row.outcome = op[job.op].outcome
          /\ row.says = op[job.op].says
        BY <1>k, <2>1 DEF Receipts
    <2>4. op[job.op].state \in Unfinished /\ op[job.op].outcome = "trashed"
        BY <1>t, <2>1 DEF JobRow
    <2>5. /\ (op' = [op EXCEPT ![job.op] = row] \/ UNCHANGED op)
          /\ UNCHANGED <<manifest, window, alloc, place>> /\ job' = None
        BY <1>30 DEF RestoreRefused, books
    <2>6. place[job.item].by = job.op /\ place[job.item].at \in {"staged", "part"} =>
            "staged" \in op[job.op].says
        BY <1>t, <1>k, <2>1 DEF RowInv, LeftoversAreNamed
    <2>7. ~(alloc[job.op] > 0)
        BY <1>t, <1>k, <2>1, <2>4 DEF RowInv, CreditIsEarned, Unfinished
    <2>8. place[job.item].by = job.op /\ place[job.item].at \in {"trash", "emptied"}
        BY <1>t, <2>1 DEF JobPlace
    <2> HIDE DEF row
    <2>9. RowInv'
        <3>1. CASE UNCHANGED op
            BY <1>t, <2>5, <3>1, RowsKept
        <3>2. CASE op' = [op EXCEPT ![job.op] = row]
            BY <1>t, <1>k, <2>1, <2>2, <2>3, <2>4, <2>5, <2>6, <2>7, <2>8, <3>2, RowChanged
               DEF Unfinished
        <3> QED  BY <2>5, <3>1, <3>2
    <2> QED  BY <2>5, <2>9, NoJob DEF JobInv
<1>31. CASE Collect
    <2>1. RowInv'
        BY <1>31, <1>t, RowsKept DEF Collect
    <2> QED  BY <1>31, <1>t, <2>1 DEF Collect, Idle, JobInv, JobPlace, JobVerdict, JobRow
<1>32. CASE Restart
    <2>1. \A o \in Operations :
            /\ op'[o] = Reconciled(op[o])
            /\ window[o] = "none" => window'[o] = "none"
        BY <1>32 DEF Restart
    <2>2. UNCHANGED <<manifest, alloc, place>> /\ job' = None
        BY <1>32 DEF Restart
    <2>3. \A o \in Operations :
            /\ op[o] = None <=> op'[o] = None
            /\ op[o] # None =>
                 /\ op'[o].item = op[o].item
                 /\ op[o].says \subseteq op'[o].says
                 /\ op'[o] # op[o] =>
                        op'[o].state = "interrupted" /\ op'[o].outcome = "interrupted"
                 /\ op[o].state \in {"removed", "trashed"} => op'[o] = op[o]
        <3>1. \A o \in Operations : op[o] = None => op'[o] = None
            BY <2>1 DEF Reconciled
        <3>2. \A o \in Operations : op[o] # None => op[o] \in Receipts
            BY <1>t DEF TypeOK
        <3> QED  BY <2>1, <3>1, <3>2, RowInterrupted
    <2>4. Placed'
        BY <1>t, <2>2, <2>3 DEF RowInv, Placed
    <2>5. FreshRows' /\ OfferedByTrashed'
        BY <1>t, <2>1, <2>2, <2>3 DEF RowInv, FreshRows, OfferedByTrashed
    <2>6. LeftoversAreNamed'
        BY <1>t, <2>2, <2>3 DEF RowInv, LeftoversAreNamed, Placed
    <2>7. CreditIsEarned'
        BY <1>t, <2>2, <2>3 DEF RowInv, CreditIsEarned, FreshRows, TypeOK
    <2>8. RestorableIsInTrash'
        BY <1>t, <2>2, <2>3 DEF RowInv, RestorableIsInTrash
    <2> QED  BY <2>2, <2>4, <2>5, <2>6, <2>7, <2>8, NoJob DEF RowInv, JobInv
<1>33. CASE Cancel
    <2>1. RowInv'
        BY <1>33, <1>t, RowsKept DEF Cancel, books
    <2> QED  BY <1>33, <1>t, <2>1 DEF Cancel, books, Idle, JobInv, JobPlace, JobVerdict, JobRow
<1>34. ASSUME NEW i \in Items, EmptyTrash(i)
      PROVE  RowInv' /\ JobInv'
    <2>1. /\ place[i].at = "trash" /\ place'[i].at = "emptied" /\ place'[i].by = place[i].by
          /\ \A k \in Items \ {i} : place'[k] = place[k]
          /\ UNCHANGED <<op, manifest, window, alloc, job>>
        BY <1>34, <1>t DEF EmptyTrash, books, TypeOK
    <2>2. Placed' /\ FreshRows' /\ OfferedByTrashed' /\ LeftoversAreNamed'
        BY <1>t, <2>1 DEF RowInv, Placed, FreshRows, OfferedByTrashed, LeftoversAreNamed
    <2>3. CreditIsEarned'
        BY <1>t, <2>1 DEF RowInv, CreditIsEarned, FreshRows, TypeOK, Receipts, At
    <2>4. RestorableIsInTrash'
        BY <1>t, <2>1 DEF RowInv, RestorableIsInTrash, TypeOK, Receipts
    <2>5. JobInv'
        BY <1>t, <1>k, <2>1 DEF JobInv, JobPlace, JobVerdict, JobRow, Idle, At, Late
    <2> QED  BY <2>2, <2>3, <2>4, <2>5 DEF RowInv
<1> QED
    BY <1>1, <1>2, <1>3, <1>4, <1>5, <1>6, <1>7, <1>8, <1>9, <1>10, <1>11, <1>12,
       <1>13, <1>14, <1>15, <1>16, <1>17, <1>18, <1>19, <1>20, <1>21, <1>22, <1>23,
       <1>24, <1>25, <1>26, <1>27, <1>28, <1>29, <1>30, <1>31, <1>32, <1>33, <1>34
       DEF Next, Staging, Mutating, Settling, Restoring, Outside

-----------------------------------------------------------------------------
(* Theorems                                                                *)

LEMMA LedgerInvariant == Spec => []LedgerInv
BY LedgerInit, LedgerStep, PTL DEF Spec

\* Whatever is cleaned up in whatever order, and wherever it crashes: bytes are
\* credited only to a permanent cleanup whose item is wholly gone, and never
\* more than were its own (accounting.rs supported_credit, allocate).
THEOREM CreditsAreEarned == Spec => []CreditIsEarned
<1>1. LedgerInv => CreditIsEarned  BY DEF LedgerInv, RowInv
<1> QED  BY <1>1, LedgerInvariant, PTL

\* A staged or half removed item always has its manifest and a receipt that
\* says where it is (cleanup.rs execute_inner, store.rs reconcile).
THEOREM LeftoversStayNamed == Spec => []LeftoversAreNamed
<1>1. LedgerInv => LeftoversAreNamed  BY DEF LedgerInv, RowInv
<1> QED  BY <1>1, LedgerInvariant, PTL

\* A receipt that offers Restore is about an item that this very operation
\* brought to Trash (cleanup.rs restore, store.rs reconcile).
THEOREM RestoreIsHonest == Spec => []RestorableIsInTrash
<1>1. LedgerInv => RestorableIsInTrash  BY DEF LedgerInv, RowInv
<1> QED  BY <1>1, LedgerInvariant, PTL

\* A step that moves no row and no book keeps the history.
LEMMA BooksKept ==
    ASSUME UNCHANGED <<op, window, alloc, coins, paid>>
    PROVE  \A o \in Operations : RowKept(o)
BY DEF RowKept, Final

\* A row that was free or unfinished may change.
LEMMA OpenRowKept ==
    ASSUME TypeOK, NEW k \in Operations, NEW row, op' = [op EXCEPT ![k] = row],
           op[k] = None \/ op[k].state \in Unfinished,
           \A o \in Operations : window[o] \in {"closed", "interrupted"} =>
                window'[o] = window[o] /\ alloc'[o] = alloc[o] /\ coins'[o] = coins[o],
           UNCHANGED paid
    PROVE  \A o \in Operations : RowKept(o)
BY DEF RowKept, Final, Unfinished, TypeOK

\* Every step keeps the history.
LEMMA HistoryStep == ASSUME LedgerInv, Next PROVE \A o \in Operations : RowKept(o)
<1>t. TypeOK /\ RowInv /\ JobRow
    BY DEF LedgerInv
<1>j. ~Idle /\ job.pc # "error" => job.op \in Operations
    BY <1>t DEF TypeOK
<1>1. CASE Staging
    <2>1. CASE MarkMutating
        BY <1>t, <1>j, <2>1, OpenRowKept DEF MarkMutating, Step, JobRow, books
    <2>2. ASSUME NEW o \in Operations, NEW i \in Items, NEW m \in Modes, Begin(o, i, m)
          PROVE  \A k \in Operations : RowKept(k)
        BY <1>t, <2>2, OpenRowKept DEF Begin, books
    <2>3. CASE UNCHANGED <<op, window, alloc, coins, paid>>
        BY <2>3, BooksKept
    <2> QED  BY <1>1, <2>1, <2>2, <2>3
             DEF Staging, Refuse, Record, PreparationFails, Stage, StagingFails, Verify,
                 VerificationFails, PutBack, books
<1>2. CASE Mutating
    <2>1. CASE OpenWindow
        <3>1. window[job.op] = "none"
            BY <1>t, <2>1 DEF OpenWindow, Step, JobRow, Early
        <3> QED  BY <1>t, <2>1, <3>1 DEF OpenWindow, RowKept, Final, TypeOK
    <2>2. CASE UNCHANGED <<op, window, alloc, coins, paid>>
        BY <2>2, BooksKept
    <2> QED  BY <1>2, <2>1, <2>2
             DEF Mutating, NativeTrash, TrashFails, RecoveryFails, RemoveLeaf, RemovalEnds,
                 RemovalStops, books
<1>3. CASE Settling
    <2>1. ASSUME NEW known \in BOOLEAN, NEW growth \in 0..MaxGrowth, Allocate(known, growth)
          PROVE  \A o \in Operations : RowKept(o)
        <3>1. /\ job.op \in Operations /\ window[job.op] = "open"
              /\ op[job.op].state \in Unfinished
            BY <1>t, <1>j, <2>1 DEF Allocate, Step, JobRow
        <3>2. \A o \in Operations : window[o] \in {"closed", "interrupted"} =>
                window'[o] = window[o] /\ alloc'[o] = alloc[o] /\ coins'[o] = coins[o]
            BY <1>t, <2>1, <3>1 DEF Allocate, TypeOK
        <3> QED  BY <1>t, <2>1, <3>1, <3>2, OpenRowKept DEF Allocate
    <2>2. CASE FinishOperation
        BY <1>t, <1>j, <2>2, OpenRowKept DEF FinishOperation, Step, JobRow, books
    <2>3. ASSUME NEW o \in Operations, Excuse(o)
          PROVE  \A k \in Operations : RowKept(k)
        BY <1>t, <2>3, OpenRowKept DEF Excuse, books
    <2>4. CASE FinishExcuse
        BY <1>t, <1>j, <2>4, OpenRowKept DEF FinishExcuse, Step, JobRow, books
    <2>5. CASE UNCHANGED <<op, window, alloc, coins, paid>>
        BY <2>5, BooksKept
    <2> QED  BY <1>3, <2>1, <2>2, <2>3, <2>4, <2>5
             DEF Settling, AllocationFails, FinishFails, Tidy, TidyFails, ExcuseFails, books
<1>4. CASE Restoring
    <2>1. ASSUME NEW o \in Operations, MarkRestoring(o)
          PROVE  \A k \in Operations : RowKept(k)
        <3>1. op[o] \in Receipts /\ op[o].state \in {"trashed", "restoring"}
            BY <1>t, <2>1 DEF MarkRestoring, TypeOK, RowInv, OfferedByTrashed
        <3>2. /\ op'[o].state = "restoring" /\ op'[o] # None
              /\ \A k \in Operations : k # o => op'[k] = op[k]
            <4>1. "restoring" \in States  BY DEF States, Unfinished
            <4>2. op' = [op EXCEPT ![o] = [op[o] EXCEPT !.state = "restoring"]]
                BY <2>1 DEF MarkRestoring
            <4>3. op'[o] = [op[o] EXCEPT !.state = "restoring"]
                BY <1>t, <4>2 DEF TypeOK
            <4>4. [op[o] EXCEPT !.state = "restoring"].state = "restoring"
                BY <3>1 DEF Receipts
            <4> QED  BY <1>t, <3>1, <4>1, <4>2, <4>3, <4>4, RowMoved DEF TypeOK
        <3> QED  BY <2>1, <3>1, <3>2 DEF MarkRestoring, RowKept, Final, books
    <2>2. CASE RestoreRefused
        <3>1. CASE UNCHANGED op
            BY <2>2, <3>1, BooksKept DEF RestoreRefused, books
        <3>2. CASE op' = [op EXCEPT ![job.op].state = "trashed"]
            BY <1>t, <1>j, <2>2, <3>2, OpenRowKept DEF RestoreRefused, Step, JobRow, books
        <3> QED  BY <2>2, <3>1, <3>2 DEF RestoreRefused
    <2>3. CASE MoveBack
        BY <2>3, BooksKept DEF MoveBack, books
    <2> QED  BY <1>4, <2>1, <2>2, <2>3 DEF Restoring
<1>5. CASE Outside \/ Cancel
    BY <1>5, BooksKept DEF Outside, EmptyTrash, Cancel, books
<1>6. CASE Collect
    BY <1>6 DEF Collect, RowKept, Final
<1>7. CASE Restart
    <2>1. \A o \in Operations :
            op[o] # None /\ op[o].state \in Final \cup {"trashed"} => op'[o] = op[o]
        BY <1>7 DEF Restart, Reconciled, Unfinished, Final
    <2> QED  BY <1>7, <2>1 DEF Restart, RowKept, TypeOK
<1> QED
    BY <1>1, <1>2, <1>3, <1>4, <1>5, <1>6, <1>7 DEF Next

\* Finished receipts, credits and collections are history: no cleanup, restore,
\* collection or restart rewrites them (store.rs reconcile, cleanup.rs restore).
THEOREM HistoryStaysFinal == Spec => HistoryIsFinal
<1>1. LedgerInv /\ [Next]_vars => [\A o \in Operations : RowKept(o)]_vars
    BY HistoryStep
<1> QED  BY <1>1, LedgerInvariant, PTL DEF Spec, HistoryIsFinal

-----------------------------------------------------------------------------
(* Sums                                                                    *)

LEMMA UnitOf ==
    ASSUME NEW f, NEW S, NEW u
    PROVE  u \in Units(f, S) <=> \E x \in S : \E k \in 1..f[x] : u = <<x, k>>
BY DEF Units

\* A number is the total of its one element.
LEMMA TotalOfOne ==
    ASSUME NEW f, NEW x, f[x] \in Nat
    PROVE  IsFiniteSet(Units(f, {x})) /\ Total(f, {x}) = f[x]
<1>1. Units(f, {x}) = {x} \X (1..f[x])
    BY DEF Units
<1>2. IsFiniteSet({x}) /\ Cardinality({x}) = 1
    BY FS_Singleton
<1>3. IsFiniteSet(1..f[x]) /\ Cardinality(1..f[x]) = f[x]
    BY FS_Interval
<1>4. IsFiniteSet({x} \X (1..f[x])) /\ Cardinality({x} \X (1..f[x])) = 1 * f[x]
    BY <1>2, <1>3, FS_Product
<1>5. 1 * f[x] = f[x]
    OBVIOUS
<1> QED  BY <1>1, <1>4, <1>5 DEF Total

\* The total of a part is a number.
LEMMA TotalOfPart ==
    ASSUME NEW f, NEW S, NEW T \in SUBSET S, IsFiniteSet(Units(f, S))
    PROVE  IsFiniteSet(Units(f, T)) /\ Total(f, T) \in Nat
<1>1. Units(f, T) \subseteq Units(f, S)
    BY DEF Units
<1> QED  BY <1>1, FS_Subset, FS_CardinalityType DEF Total

\* Totals of disjoint sets add up.
LEMMA TotalOfBoth ==
    ASSUME NEW f, NEW S, NEW T, S \cap T = {},
           IsFiniteSet(Units(f, S)), IsFiniteSet(Units(f, T))
    PROVE  /\ IsFiniteSet(Units(f, S \cup T))
           /\ Total(f, S \cup T) = Total(f, S) + Total(f, T)
<1>1. Units(f, S \cup T) = Units(f, S) \cup Units(f, T)
    BY DEF Units
<1>2. Units(f, S) \cap Units(f, T) = {}
    BY UnitOf
<1>3. Total(f, S) \in Nat /\ Total(f, T) \in Nat
    BY FS_CardinalityType DEF Total
<1> DEFINE A == Units(f, S)
           B == Units(f, T)
<1>4. /\ IsFiniteSet(A \cup B)
      /\ Cardinality(A \cup B) = Cardinality(A) + Cardinality(B) - Cardinality(A \cap B)
    BY FS_Union
<1>5. Cardinality(A \cap B) = 0
    BY <1>2, FS_EmptySet
<1>6. Cardinality(A \cup B) = Cardinality(A) + Cardinality(B)
    BY <1>3, <1>4, <1>5 DEF Total
<1> QED  BY <1>1, <1>4, <1>6 DEF Total

\* Elements that count for nothing do not matter, nor does how f is written.
LEMMA TotalOfZeros ==
    ASSUME NEW f, NEW S, \A x \in S : f[x] = 0
    PROVE  IsFiniteSet(Units(f, S)) /\ Total(f, S) = 0
<1>1. Units(f, S) = {}
    BY UnitOf
<1> QED  BY <1>1, FS_EmptySet DEF Total

LEMMA TotalOfSame ==
    ASSUME NEW f, NEW g, NEW S, \A x \in S : f[x] = g[x]
    PROVE  Units(f, S) = Units(g, S) /\ Total(f, S) = Total(g, S)
<1>1. \A u : u \in Units(f, S) <=> u \in Units(g, S)
    BY UnitOf
<1>2. Units(f, S) = Units(g, S)
    BY <1>1
<1> QED  BY <1>2 DEF Total

\* A row that is written for the first time is added to the total.
LEMMA TotalGrows ==
    ASSUME NEW f, NEW g, NEW S, NEW x \in S,
           f[x] = 0, g[x] \in Nat, \A y \in S \ {x} : f[y] = g[y],
           IsFiniteSet(Units(f, S))
    PROVE  IsFiniteSet(Units(g, S)) /\ Total(g, S) = Total(f, S) + g[x]
<1> DEFINE rest == S \ {x}
<1>1. S = rest \cup {x} /\ rest \cap {x} = {}
    OBVIOUS
<1>2. \A y \in rest : f[y] = g[y]
    OBVIOUS
<1>3. IsFiniteSet(Units(f, rest)) /\ Total(f, rest) \in Nat
    BY TotalOfPart
<1> HIDE DEF rest
<1>4. IsFiniteSet(Units(f, {x})) /\ Total(f, {x}) = 0
    BY TotalOfOne
<1>5. Total(f, S) = Total(f, rest) + 0
    BY <1>1, <1>3, <1>4, TotalOfBoth
<1>6. IsFiniteSet(Units(g, {x})) /\ Total(g, {x}) = g[x]
    BY TotalOfOne
<1>7. Units(f, rest) = Units(g, rest) /\ Total(f, rest) = Total(g, rest)
    BY <1>2, TotalOfSame, Zenon
<1>8. /\ IsFiniteSet(Units(g, rest \cup {x}))
      /\ Total(g, rest \cup {x}) = Total(g, rest) + Total(g, {x})
    <2> DEFINE own == {x}
    <2>1. IsFiniteSet(Units(g, rest))
        BY <1>3, <1>7
    <2>2. IsFiniteSet(Units(g, own)) /\ rest \cap own = {}
        BY <1>1, <1>6
    <2> HIDE DEF own
    <2>3. /\ IsFiniteSet(Units(g, rest \cup own))
          /\ Total(g, rest \cup own) = Total(g, rest) + Total(g, own)
        BY <2>1, <2>2, TotalOfBoth
    <2> QED  BY <2>3 DEF own
<1> QED  BY <1>1, <1>3, <1>5, <1>6, <1>7, <1>8

-----------------------------------------------------------------------------
(* Coins                                                                   *)

\* Whole coins and what is left over determine each other.
LEMMA Divided ==
    ASSUME NEW n \in Nat, NEW c \in Nat \ {0}
    PROVE  /\ n \div c \in Nat /\ n % c \in 0..(c - 1)
           /\ n = c * (n \div c) + (n % c)
OBVIOUS

LEMMA DividedOnce ==
    ASSUME NEW c \in Nat \ {0}, NEW p \in Nat, NEW q \in Nat,
           NEW r \in 0..(c - 1), NEW s \in 0..(c - 1), c * p + r = c * q + s
    PROVE  p = q /\ r = s
<1>1. ~(p < q)
    <2> SUFFICES ASSUME p < q PROVE FALSE
        OBVIOUS
    <2> DEFINE d == q - p - 1
    <2>1. d \in Nat /\ q = p + 1 + d
        OBVIOUS
    <2> HIDE DEF d
    <2>2. c * q = c * p + c + c * d /\ c * d \in Nat /\ c * p \in Nat
        BY <2>1
    <2> QED  BY <2>2
<1>2. ~(q < p)
    <2> SUFFICES ASSUME q < p PROVE FALSE
        OBVIOUS
    <2> DEFINE d == p - q - 1
    <2>1. d \in Nat /\ p = q + 1 + d
        OBVIOUS
    <2> HIDE DEF d
    <2>2. c * p = c * q + c + c * d /\ c * d \in Nat /\ c * q \in Nat
        BY <2>1
    <2> QED  BY <2>2
<1>3. p = q
    BY <1>1, <1>2
<1> QED  BY <1>3

\* allocate carries the remainder: the coins of the sum are the coins so far and
\* those of the remainder and the new credit.
LEMMA Carried ==
    ASSUME NEW n \in Nat, NEW m \in Nat, NEW c \in Nat \ {0}
    PROVE  /\ (n + m) \div c = n \div c + ((n % c) + m) \div c
           /\ (n + m) % c = ((n % c) + m) % c
<1> DEFINE q == n \div c
           r == n % c
           sum == n + m
           rest == r + m
<1>1. q \in Nat /\ r \in 0..(c - 1) /\ n = c * q + r
    BY Divided
<1> HIDE DEF q, r
<1>2. sum \in Nat /\ rest \in Nat /\ sum = (c * q + r) + m
    BY <1>1
<1> HIDE DEF sum, rest
<1>3. sum \div c \in Nat /\ sum % c \in 0..(c - 1) /\ sum = c * (sum \div c) + (sum % c)
    BY <1>2, Divided
<1>4. /\ rest \div c \in Nat /\ rest % c \in 0..(c - 1)
      /\ rest = c * (rest \div c) + (rest % c)
    BY <1>2, Divided
<1> DEFINE p == rest \div c
           s == rest % c
           u == sum \div c
           v == sum % c
<1>5. p \in Nat /\ s \in 0..(c - 1) /\ rest = c * p + s
    BY <1>4
<1>6. u \in Nat /\ v \in 0..(c - 1) /\ sum = c * u + v
    BY <1>3
<1> HIDE DEF p, s, u, v
<1>7. rest = r + m
    BY DEF rest
<1> DEFINE both == q + p
<1>8. both \in Nat /\ c * both = c * q + c * p
    BY <1>1, <1>5
<1> HIDE DEF both
<1>9. c * both + s = c * u + v
    <2>1. c * q \in Nat /\ c * p \in Nat /\ c * u \in Nat /\ c * both \in Nat
        BY <1>1, <1>5, <1>6, <1>8
    <2> QED  BY <1>1, <1>2, <1>5, <1>6, <1>7, <1>8, <2>1
<1>10. both = u /\ s = v
    BY <1>5, <1>6, <1>8, <1>9, DividedOnce
<1> QED  BY <1>10, Zenon DEF sum, rest, q, r, p, s, u, v, both

-----------------------------------------------------------------------------
(* The books                                                               *)

\* Only what accounting::finish closed has bytes and coins, or can be paid.
ClosedRows == \A o \in Operations : window[o] # "closed" => alloc[o] = 0 /\ coins[o] = 0
PaidRows == \A o \in paid : window[o] = "closed"

Gone == {i \in Items : place[i].at = "gone"}

\* A behaviour credits and removes finitely much, however many items and ids
\* there are.
Countable ==
    /\ IsFiniteSet(Units(alloc, Operations)) /\ IsFiniteSet(Units(coins, Operations))
    /\ IsFiniteSet(Units(Private, Gone))

\* The wallet's row is what the rows of allocations and earnings add up to.
WalletAddsUp ==
    /\ wallet.credited = Total(alloc, Operations)
    /\ wallet.remainder = wallet.credited % CoinBytes
    /\ Total(coins, Operations) = wallet.credited \div CoinBytes
    /\ wallet.collected = Total(coins, paid)

BooksInv == ClosedRows /\ PaidRows /\ Countable /\ WalletAddsUp

LEMMA BooksInit == Init => BooksInv
<1> SUFFICES ASSUME Init PROVE BooksInv
    OBVIOUS
<1>1. ClosedRows /\ PaidRows
    BY DEF Init, ClosedRows, PaidRows
<1>2. /\ IsFiniteSet(Units(alloc, Operations)) /\ Total(alloc, Operations) = 0
      /\ IsFiniteSet(Units(coins, Operations)) /\ Total(coins, Operations) = 0
      /\ Total(coins, paid) = 0
    BY TotalOfZeros DEF Init
<1>3. Gone = {}
    BY DEF Init, Gone, At
<1>4. IsFiniteSet(Units(Private, Gone))
    BY <1>3, TotalOfZeros
<1>5. 0 % CoinBytes = 0 /\ 0 \div CoinBytes = 0
    BY CoinsAssumption
<1>6. WalletAddsUp
    BY <1>2, <1>5 DEF Init, WalletAddsUp
<1> QED  BY <1>1, <1>2, <1>4, <1>6 DEF BooksInv, Countable

\* A step moves one item at most, so what is gone stays countable.
LEMMA OneItemMoves ==
    ASSUME TypeOK, [Next]_vars
    PROVE  place' = place \/ \E i \in Items : \A k \in Items \ {i} : place'[k] = place[k]
<1>1. ~Idle => job.item \in Items
    BY JobKnown
<1>2. CASE Staging
    BY <1>1, <1>2
       DEF Staging, Begin, Refuse, Record, PreparationFails, Stage, StagingFails,
           MarkMutating,
           Verify, VerificationFails, PutBack, Step, TypeOK
<1>3. CASE Mutating
    BY <1>1, <1>3
       DEF Mutating, NativeTrash, TrashFails, RecoveryFails, OpenWindow, RemoveLeaf,
           RemovalEnds, RemovalStops, Step, TypeOK
<1>4. CASE Settling \/ Collect \/ Cancel \/ Restart \/ UNCHANGED vars
    BY <1>4
       DEF Settling, Allocate, AllocationFails, FinishOperation, FinishFails, Tidy,
           TidyFails,
           Excuse, FinishExcuse, ExcuseFails, Collect, Cancel, Restart, vars
<1>5. CASE Restoring
    BY <1>1, <1>5 DEF Restoring, MarkRestoring, MoveBack, RestoreRefused, Step, TypeOK
<1>6. CASE Outside
    BY <1>6 DEF Outside, EmptyTrash, TypeOK
<1> QED  BY <1>2, <1>3, <1>4, <1>5, <1>6 DEF Next

LEMMA GoneStep ==
    ASSUME TypeOK, [Next]_vars, IsFiniteSet(Units(Private, Gone))
    PROVE  IsFiniteSet(Units(Private, Gone'))
<1>1. CASE place' = place
    BY <1>1 DEF Gone
<1>2. ASSUME NEW i \in Items, \A k \in Items \ {i} : place'[k] = place[k]
      PROVE  IsFiniteSet(Units(Private, Gone'))
    <2>1. Gone' \subseteq (Gone \ {i}) \cup {i}
        BY <1>2 DEF Gone
    <2>2. IsFiniteSet(Units(Private, {i}))
        BY ItemsAssumption, TotalOfOne
    <2>3. IsFiniteSet(Units(Private, Gone \ {i}))
        BY TotalOfPart
    <2>4. IsFiniteSet(Units(Private, (Gone \ {i}) \cup {i}))
        BY <2>2, <2>3, TotalOfBoth
    <2> QED  BY <2>1, <2>4, TotalOfPart
<1> QED  BY <1>1, <1>2, OneItemMoves

\* A step that leaves the books alone, and closes no window.
LEMMA BooksLeft ==
    ASSUME BooksInv, UNCHANGED <<alloc, coins, paid, wallet>>,
           IsFiniteSet(Units(Private, Gone')),
           \A o \in Operations : window[o] = "closed" <=> window'[o] = "closed",
           paid \subseteq Operations
    PROVE  BooksInv'
<1>1. ClosedRows' /\ PaidRows'
    BY DEF BooksInv, ClosedRows, PaidRows
<1>2. Countable' /\ WalletAddsUp'
    BY DEF BooksInv, Countable, WalletAddsUp
<1> QED  BY <1>1, <1>2 DEF BooksInv

\* What is pending is what was earned and not yet collected.
LEMMA PendingIsRest ==
    ASSUME TypeOK, BooksInv
    PROVE  /\ PendingCoins \in Nat
           /\ PendingCoins = (wallet.credited \div CoinBytes) - wallet.collected
<1> DEFINE rest == Operations \ paid
<1>1. paid \subseteq Operations /\ Operations = paid \cup rest /\ paid \cap rest = {}
    BY DEF TypeOK
<1>2. PendingCoins = Total(coins, rest)
    BY DEF PendingCoins
<1> HIDE DEF rest
<1>3. /\ IsFiniteSet(Units(coins, paid)) /\ Total(coins, paid) \in Nat
      /\ IsFiniteSet(Units(coins, rest)) /\ Total(coins, rest) \in Nat
    BY <1>1, TotalOfPart DEF BooksInv, Countable
<1>4. Total(coins, paid \cup rest) = Total(coins, paid) + Total(coins, rest)
    BY <1>1, <1>3, TotalOfBoth
<1> QED  BY <1>1, <1>2, <1>3, <1>4 DEF BooksInv, WalletAddsUp

\* collect: afterwards everything that was earned is paid.
LEMMA CollectStep ==
    ASSUME TypeOK, BooksInv, Collect
    PROVE  BooksInv' /\ wallet'.collected = wallet.credited \div CoinBytes
<1>1. /\ paid' = paid \cup Uncollected /\ UNCHANGED <<window, alloc, coins, place>>
      /\ wallet' = [wallet EXCEPT !.collected = wallet.collected + PendingCoins]
    BY DEF Collect
<1>2. /\ wallet'.collected = wallet.collected + PendingCoins
      /\ wallet'.credited = wallet.credited /\ wallet'.remainder = wallet.remainder
    BY <1>1 DEF TypeOK
<1>3. wallet.collected \in Nat /\ wallet.credited \in Nat
    BY DEF TypeOK
<1>4. wallet.credited \div CoinBytes \in Nat
    BY <1>3, CoinsAssumption
<1>5. wallet'.collected = wallet.credited \div CoinBytes
    BY <1>2, <1>3, <1>4, PendingIsRest
<1>6. ClosedRows' /\ PaidRows'
    BY <1>1 DEF BooksInv, ClosedRows, PaidRows, Uncollected
<1>7. Countable'
    BY <1>1 DEF BooksInv, Countable, Gone
<1>8. Total(coins, paid') = Total(coins, Operations)
    <2> DEFINE rest == Operations \ paid'
    <2>1. Operations = paid' \cup rest /\ paid' \cap rest = {}
        BY <1>1 DEF TypeOK, Uncollected
    <2>2. \A o \in rest : coins[o] = 0
        BY <1>1 DEF BooksInv, ClosedRows, Uncollected
    <2> HIDE DEF rest
    <2>3. IsFiniteSet(Units(coins, rest)) /\ Total(coins, rest) = 0
        BY <2>2, TotalOfZeros
    <2>4. IsFiniteSet(Units(coins, paid')) /\ Total(coins, paid') \in Nat
        BY <2>1, TotalOfPart DEF BooksInv, Countable
    <2>5. Total(coins, paid' \cup rest) = Total(coins, paid') + 0
        BY <2>1, <2>3, <2>4, TotalOfBoth
    <2> QED  BY <2>1, <2>4, <2>5
<1>9. WalletAddsUp'
    BY <1>1, <1>2, <1>5, <1>8 DEF BooksInv, WalletAddsUp
<1> QED  BY <1>5, <1>6, <1>7, <1>9 DEF BooksInv

\* accounting::finish: the credit goes to a row that had none, the wallet, and
\* the coins that it completes.
LEMMA AllocateStep ==
    ASSUME LedgerInv, BooksInv, NEW known \in BOOLEAN, NEW growth \in 0..MaxGrowth,
           Allocate(known, growth)
    PROVE  /\ BooksInv'
           /\ wallet'.credited \in Nat /\ wallet'.credited >= wallet.credited
           /\ wallet'.collected = wallet.collected
<1> DEFINE credit == SupportedCredit(known, growth)
           earned == (wallet.remainder + credit) \div CoinBytes
<1>t. TypeOK
    BY DEF LedgerInv
<1>1. ~Idle /\ job.pc = "accounting"
    BY DEF Allocate, Step
<1>2. job.op \in Operations /\ window[job.op] = "open"
    BY <1>1 DEF LedgerInv, JobRow, TypeOK
<1>3. credit \in Nat
    BY <1>t, <1>1, CreditBounds
<1>4. wallet.credited \in Nat /\ wallet.remainder = wallet.credited % CoinBytes
      /\ wallet.remainder \in Nat
    BY CoinsAssumption DEF LedgerInv, TypeOK, BooksInv, WalletAddsUp
<1>5. alloc[job.op] = 0 /\ coins[job.op] = 0 /\ job.op \notin paid
    BY <1>2 DEF BooksInv, ClosedRows, PaidRows
<1>6. /\ alloc' = [alloc EXCEPT ![job.op] = credit]
      /\ coins' = [coins EXCEPT ![job.op] = earned]
      /\ wallet' = [wallet EXCEPT !.remainder = (wallet.remainder + credit) % CoinBytes,
                                  !.credited = wallet.credited + credit]
      /\ window' = [window EXCEPT ![job.op] = "closed"] /\ UNCHANGED <<paid, place>>
    BY DEF Allocate, Credited
<1> HIDE DEF credit
<1>7. earned \in Nat
    BY <1>3, <1>4, CoinsAssumption
<1>8. /\ wallet'.credited = wallet.credited + credit
      /\ wallet'.remainder = (wallet.remainder + credit) % CoinBytes
      /\ wallet'.collected = wallet.collected
    BY <1>t, <1>6 DEF TypeOK
<1>9. ClosedRows' /\ PaidRows'
    BY <1>t, <1>2, <1>6 DEF BooksInv, ClosedRows, PaidRows, TypeOK
<1>10. /\ IsFiniteSet(Units(alloc', Operations))
       /\ Total(alloc', Operations) = Total(alloc, Operations) + credit
    <2> HIDE DEF earned
    <2>1. alloc \in [Operations -> Nat] /\ IsFiniteSet(Units(alloc, Operations))
        BY <1>t DEF BooksInv, Countable, TypeOK
    <2>2. alloc'[job.op] = credit /\ \A o \in Operations \ {job.op} : alloc[o] = alloc'[o]
        BY <1>2, <1>6, <2>1
    <2>3. alloc[job.op] = 0 /\ alloc'[job.op] \in Nat
        BY <1>3, <1>5, <2>2
    <2>4. /\ IsFiniteSet(Units(alloc', Operations))
          /\ Total(alloc', Operations) = Total(alloc, Operations) + alloc'[job.op]
        <3> DEFINE was == alloc
                   now == alloc'
                   row == job.op
        <3>1. /\ row \in Operations /\ IsFiniteSet(Units(was, Operations))
              /\ was[row] = 0 /\ now[row] \in Nat
              /\ \A o \in Operations \ {row} : was[o] = now[o]
            BY <1>2, <2>1, <2>2, <2>3
        <3> HIDE DEF was, now, row
        <3>2. /\ IsFiniteSet(Units(now, Operations))
              /\ Total(now, Operations) = Total(was, Operations) + now[row]
            BY <3>1, TotalGrows
        <3> QED  BY <3>2 DEF was, now, row
    <2> QED  BY <2>2, <2>4
<1>11. /\ IsFiniteSet(Units(coins', Operations))
       /\ Total(coins', Operations) = Total(coins, Operations) + earned
    <2> HIDE DEF earned
    <2>1. coins \in [Operations -> Nat] /\ IsFiniteSet(Units(coins, Operations))
        BY <1>t DEF BooksInv, Countable, TypeOK
    <2>2. coins'[job.op] = earned /\ \A o \in Operations \ {job.op} : coins[o] = coins'[o]
        BY <1>2, <1>6, <2>1
    <2>3. coins[job.op] = 0 /\ coins'[job.op] \in Nat
        BY <1>5, <1>7, <2>2
    <2>4. /\ IsFiniteSet(Units(coins', Operations))
          /\ Total(coins', Operations) = Total(coins, Operations) + coins'[job.op]
        <3> DEFINE was == coins
                   now == coins'
                   row == job.op
        <3>1. /\ row \in Operations /\ IsFiniteSet(Units(was, Operations))
              /\ was[row] = 0 /\ now[row] \in Nat
              /\ \A o \in Operations \ {row} : was[o] = now[o]
            BY <1>2, <2>1, <2>2, <2>3
        <3> HIDE DEF was, now, row
        <3>2. /\ IsFiniteSet(Units(now, Operations))
              /\ Total(now, Operations) = Total(was, Operations) + now[row]
            BY <3>1, TotalGrows
        <3> QED  BY <3>2 DEF was, now, row
    <2> QED  BY <2>2, <2>4
<1>12. Countable'
    BY <1>6, <1>10, <1>11 DEF BooksInv, Countable, Gone
<1>13. Total(coins', paid') = Total(coins, paid)
    <2>1. \A o \in paid : coins'[o] = coins[o]
        BY <1>t, <1>5, <1>6 DEF TypeOK
    <2>2. Total(coins', paid) = Total(coins, paid)
        BY <2>1, TotalOfSame, Zenon
    <2> QED  BY <1>6, <2>2
<1>14. /\ (wallet.credited + credit) \div CoinBytes
            = wallet.credited \div CoinBytes + earned
       /\ (wallet.credited + credit) % CoinBytes = (wallet.remainder + credit) % CoinBytes
    BY <1>3, <1>4, CoinsAssumption, Carried
<1>15. WalletAddsUp'
    <2> HIDE DEF earned
    <2> QED  BY <1>8, <1>10, <1>11, <1>13, <1>14 DEF BooksInv, WalletAddsUp
<1> QED  BY <1>3, <1>4, <1>8, <1>9, <1>12, <1>15 DEF BooksInv

\* The other steps.
LEMMA BooksStep ==
    ASSUME LedgerInv, BooksInv, [Next]_vars
    PROVE  BooksInv'
<1>t. TypeOK
    BY DEF LedgerInv
<1>1. IsFiniteSet(Units(Private, Gone'))
    BY <1>t, GoneStep DEF BooksInv, Countable
<1>2. paid \subseteq Operations
    BY <1>t DEF TypeOK
<1>3. ASSUME NEW known \in BOOLEAN, NEW growth \in 0..MaxGrowth, Allocate(known, growth)
      PROVE  BooksInv'
    BY <1>3, AllocateStep
<1>4. CASE Collect
    BY <1>t, <1>4, CollectStep
<1>5. CASE OpenWindow
    <2>1. window[job.op] = "none"
        BY <1>5 DEF LedgerInv, OpenWindow, Step, JobRow, Early
    <2>2. \A o \in Operations : window[o] = "closed" <=> window'[o] = "closed"
        BY <1>t, <1>5, <2>1 DEF OpenWindow, TypeOK
    <2> QED  BY <1>1, <1>2, <1>5, <2>2, BooksLeft DEF OpenWindow
<1>6. CASE Restart
    <2>1. \A o \in Operations : window[o] = "closed" <=> window'[o] = "closed"
        BY <1>6 DEF Restart
    <2> QED  BY <1>1, <1>2, <1>6, <2>1, BooksLeft DEF Restart
<1>7. CASE UNCHANGED books
    BY <1>1, <1>2, <1>7, BooksLeft DEF books
<1>8. CASE Staging \/ Restoring \/ Outside \/ Cancel \/ UNCHANGED vars
    BY <1>7, <1>8
       DEF Staging, Begin, Refuse, Record, PreparationFails, Stage, StagingFails,
           MarkMutating,
           Verify, VerificationFails, PutBack, Restoring, MarkRestoring, MoveBack,
           RestoreRefused, Outside, EmptyTrash, Cancel, vars
<1>9. CASE Mutating
    BY <1>5, <1>7, <1>9
       DEF Mutating, NativeTrash, TrashFails, RecoveryFails, RemoveLeaf, RemovalEnds,
           RemovalStops
<1>10. CASE Settling
    BY <1>3, <1>7, <1>10
       DEF Settling, AllocationFails, FinishOperation, FinishFails, Tidy, TidyFails, Excuse,
           FinishExcuse, ExcuseFails
<1> QED  BY <1>4, <1>6, <1>8, <1>9, <1>10 DEF Next

LEMMA BooksInvariant == Spec => [](LedgerInv /\ BooksInv)
<1>1. Init => LedgerInv /\ BooksInv
    BY LedgerInit, BooksInit
<1>2. LedgerInv /\ BooksInv /\ [Next]_vars => (LedgerInv /\ BooksInv)'
    BY LedgerStep, BooksStep
<1> QED  BY <1>1, <1>2, PTL DEF Spec

-----------------------------------------------------------------------------
(* Theorems                                                                *)

\* Every byte credited is a byte of one item that is gone: the operation that
\* was credited says which.
LEMMA CreditHasBacking ==
    ASSUME LedgerInv, BooksInv
    PROVE  CreditIsBacked
<1> DEFINE S == Units(alloc, Operations)
           T == Units(Private, Gone)
           f == [u \in S |-> <<op[u[1]].item, u[2]>>]
<1>1. ASSUME NEW o \in Operations, NEW k \in 1..alloc[o]
      PROVE  /\ op[o].item \in Gone /\ place[op[o].item].by = o
             /\ k \in 1..Private[op[o].item]
    <2>1. alloc[o] \in Nat /\ alloc[o] > 0
        BY DEF LedgerInv, TypeOK
    <2>2. op[o] # None
        BY <2>1 DEF LedgerInv, RowInv, FreshRows
    <2>3. op[o].item \in Items
        BY <2>2 DEF LedgerInv, TypeOK, Receipts
    <2>4. place[op[o].item] = At("gone", o) /\ alloc[o] <= Private[op[o].item]
        BY <2>1 DEF LedgerInv, RowInv, CreditIsEarned
    <2>5. Private[op[o].item] \in Nat
        BY <2>3, ItemsAssumption
    <2> QED  BY <2>1, <2>3, <2>4, <2>5 DEF Gone, At
<1>2. \A u \in S : \E o \in Operations : \E k \in 1..alloc[o] : u = <<o, k>>
    BY UnitOf
<1>3. ASSUME NEW u \in S
      PROVE  f[u] \in T /\ u[1] = place[f[u][1]].by /\ u[2] = f[u][2]
             /\ u = <<u[1], u[2]>>
    <2>1. PICK o \in Operations : \E k \in 1..alloc[o] : u = <<o, k>>
        BY <1>2
    <2>0. PICK k \in 1..alloc[o] : u = <<o, k>>
        BY <2>1
    <2>2. f[u] = <<op[o].item, k>>
        BY <2>0
    <2>3. /\ op[o].item \in Gone /\ place[op[o].item].by = o
          /\ k \in 1..Private[op[o].item]
        BY <1>1
    <2>4. f[u] \in T
        BY <2>2, <2>3, UnitOf
    <2> QED  BY <2>0, <2>2, <2>3, <2>4
<1>4. f \in [S -> T]
    BY <1>3
<1>5. \A a, b \in S : f[a] = f[b] => a = b
    <2> SUFFICES ASSUME NEW a \in S, NEW b \in S, f[a] = f[b] PROVE a = b
        OBVIOUS
    <2> HIDE DEF f, S
    <2>1. a = <<a[1], a[2]>> /\ b = <<b[1], b[2]>> /\ a[1] = b[1] /\ a[2] = b[2]
        BY <1>3
    <2> QED  BY <2>1
<1>6. f \in Injection(S, T)
    <2> HIDE DEF f, S, T
    <2> QED  BY <1>4, <1>5 DEF Injection, IsInjective
<1>7. Cardinality(S) <= Cardinality(T)
    <2> HIDE DEF f
    <2> QED  BY <1>6, FS_Injection DEF BooksInv, Countable
<1> QED  BY <1>7 DEF BooksInv, WalletAddsUp, CreditIsBacked, Total, Gone

\* The rows of allocations and earnings, the wallet and the disk agree, however
\* many cleanups, crashes, lost accountings and collections there were
\* (accounting.rs allocate, store.rs wallet and collect).
THEOREM BooksAgreeAlways == Spec => []BooksAgree
<1>1. LedgerInv /\ BooksInv => BooksAgree
    <2> SUFFICES ASSUME LedgerInv, BooksInv PROVE BooksAgree
        OBVIOUS
    <2>1. TypeOK
        BY DEF LedgerInv
    <2> QED  BY <2>1, CreditHasBacking, PendingIsRest
             DEF BooksAgree, BooksInv, WalletAddsUp, Counter!Earned
<1> QED  BY <1>1, BooksInvariant, PTL

\* What a step does to the counter.
LEMMA CounterStep ==
    ASSUME LedgerInv, BooksInv, [Next]_vars
    PROVE  [Counter!Next]_(<<wallet.credited, wallet.collected>>)
<1>t. TypeOK
    BY DEF LedgerInv
<1>1. ASSUME NEW known \in BOOLEAN, NEW growth \in 0..MaxGrowth, Allocate(known, growth)
      PROVE  [Counter!Next]_(<<wallet.credited, wallet.collected>>)
    <2>1. wallet.credited \in Nat
        BY <1>t DEF TypeOK
    <2>2. /\ wallet'.credited \in Nat /\ wallet'.credited >= wallet.credited
          /\ wallet'.collected = wallet.collected
        BY <1>1, AllocateStep
    <2> QED  BY <2>1, <2>2 DEF Counter!Next, Counter!Credit
<1>2. CASE Collect
    <2>1. wallet'.collected = wallet.credited \div CoinBytes
        BY <1>t, <1>2, CollectStep
    <2>2. wallet.collected \in Nat /\ wallet.credited \in Nat
        BY <1>t DEF TypeOK
    <2>3. wallet.credited \div CoinBytes \in Nat
        BY <2>2, CoinsAssumption
    <2>4. PendingCoins > 0 /\ wallet'.credited = wallet.credited
        BY <1>t, <1>2 DEF Collect, TypeOK
    <2>5. wallet.collected < wallet.credited \div CoinBytes
        BY <1>t, <2>2, <2>3, <2>4, PendingIsRest
    <2> QED  BY <2>1, <2>4, <2>5 DEF Counter!Next, Counter!Collect, Counter!Earned
<1>3. CASE UNCHANGED wallet
    BY <1>3
<1>4. CASE Staging \/ Restoring \/ Outside \/ Cancel \/ Restart \/ UNCHANGED vars
    BY <1>3, <1>4
       DEF Staging, Begin, Refuse, Record, PreparationFails, Stage, StagingFails,
           MarkMutating,
           Verify, VerificationFails, PutBack, Restoring, MarkRestoring, MoveBack,
           RestoreRefused, Outside, EmptyTrash, Cancel, Restart, vars, books
<1>5. CASE Mutating
    BY <1>3, <1>5
       DEF Mutating, NativeTrash, TrashFails, RecoveryFails, OpenWindow, RemoveLeaf,
           RemovalEnds, RemovalStops, books
<1>6. CASE Settling
    BY <1>1, <1>3, <1>6
       DEF Settling, AllocationFails, FinishOperation, FinishFails, Tidy, TidyFails, Excuse,
           FinishExcuse, ExcuseFails, books
<1> QED  BY <1>2, <1>4, <1>5, <1>6 DEF Next

\* The ledger implements the counter of RewardWallet: one chip for every
\* CoinBytes credited, remainders carried, every chip collected once.
THEOREM LedgerImplementsCounter == Spec => CounterSpec
<1>1. Init => Counter!Init
    BY DEF Init, Counter!Init
<1> QED  BY <1>1, CounterStep, BooksInvariant, PTL DEF Spec, CounterSpec, Counter!Spec

-----------------------------------------------------------------------------
(* The last look                                                           *)

CONSTANTS Levels, Grant, Uses, MaxChanges
VARIABLES content, config, busy, repo, changes, pc, round, todo, level, saved, entry, child, pipe,
          pending, tracked, free, rested

\* The check of an item before it is removed, beside the ledger; the two share only None.
LastLook == INSTANCE Revalidation

\* What a repository may be.
RepositoryRows == [marker : Nat, index : Nat, tracks : BOOLEAN, supported : BOOLEAN]
\* What is captured of one.
CapturedRows == [level : Levels, marker : Nat, index : Nat \cup {None}]
\* The places of the check.
LookPlaces == {"review", "find", "capture", "captured", "spawn", "read", "wait", "asked", "work", "look",
               "measure", "nearer", "again", "approved", "refused"}
\* External: what has become of the git process.
GitStates == {"none", "started", "closing", "failing", "succeeded", "failed", "reaped"}

\* The types; what another program wrote has a version that was never there before.
LookTypeOK ==
    /\ changes \in Nat /\ tracked \in BOOLEAN /\ round \in {1, 2}
    /\ repo \in [Levels -> {None} \cup RepositoryRows]
    /\ \A l \in Levels : repo[l] # None => repo[l].index <= changes
    /\ saved \in {None} \cup CapturedRows
    /\ saved # None /\ saved.index # None => saved.index <= changes
    /\ level \in Nat /\ level > 0
    /\ pipe \in [bytes : BOOLEAN, closed : BOOLEAN]
    /\ pc \in LookPlaces /\ child \in GitStates /\ entry \in {"none", "marker", "index"}

\* What the check has at each place.
PlacesAreMet ==
    /\ pc \notin {"read", "wait"} => child \in {"none", "reaped"}
    /\ pc \in {"captured", "asked", "again"} => entry # "none"
    /\ pc = "find" \/ (pc = "review" /\ round = 1) => saved = None
    /\ pc = "capture" => level \in Levels /\ (saved # None => saved.index = None)
    /\ pc \in {"captured", "spawn", "read", "wait", "asked", "nearer", "again"} => saved # None
    /\ saved # None /\ pc \notin {"capture", "refused"} => saved.index # None
    /\ pc \in {"nearer", "again", "approved"} => round = 2

\* As long as the index is the one that was captured, so is what it tracks.
IndexIsKept == repo[saved.level] # None /\ repo[saved.level].index = saved.index
\* What is known of what it tracks: from the capture, from the output, from the answer.
AnswerIsKept ==
    /\ saved # None /\ pc \notin {"capture", "refused"} /\ IndexIsKept =>
          /\ tracked <=> repo[saved.level].tracks
          /\ child \in {"closing", "succeeded"} => (pipe.bytes <=> repo[saved.level].tracks)
          /\ pc \notin {"captured", "spawn", "read", "wait"} => ~repo[saved.level].tracks
    /\ pc = "approved" /\ saved # None => ~tracked

\* What the last look has seen there was.
LastLookSaw ==
    /\ round = 2 => LastLook!Free(repo) \subseteq free /\ \A u \in Uses : u \in busy \/ u \in rested
    /\ round = 2 /\ pc = "look" => \A u \in Uses : u \in todo \/ u \in rested
    /\ round = 2 /\ pc \in {"nearer", "find", "again", "approved"} => \A u \in Uses : u \in rested
    /\ round = 2 /\ pc \in {"nearer", "find"} => \A l \in Levels : l < level => l \in free
    /\ pc = "nearer" => level <= saved.level
    /\ pc = "again" => \A l \in Levels : l < saved.level => l \in free
    /\ pc = "approved" => \A l \in Levels : (saved # None => l < saved.level) => l \in free

\* The inductive invariant.
LookInv == LookTypeOK /\ PlacesAreMet /\ AnswerIsKept /\ LastLookSaw

\* The levels are counted from the project, and None is nothing else.
LookAssumption ==
    /\ \E n \in Nat : Levels = 1..n
    /\ None \notin Nat /\ None \notin RepositoryRows /\ None \notin CapturedRows

\* What a captured row has.
LEMMA CapturedHas ==
    ASSUME LookAssumption, NEW s \in CapturedRows
    PROVE  s.level \in Levels /\ s.marker \in Nat /\ s.index \in Nat \cup {None} /\ s # None
           /\ Levels \subseteq Nat \ {0}
BY DEF CapturedRows, LookAssumption

\* Nothing has been looked at.
LEMMA LookStart ==
    ASSUME LookAssumption, LastLook!Init PROVE LookInv
<1>1. \A l \in Levels : repo[l] \in {None} \cup {r \in LastLook!Repositories : r.marker = 0 /\ r.index = 0}
  BY DEF LastLook!Init
<1>2. \A r \in LastLook!Repositories : r.marker = 0 /\ r.index = 0 => r \in RepositoryRows
  <2> SUFFICES ASSUME NEW r \in LastLook!Repositories, r.marker = 0, r.index = 0
               PROVE  r \in RepositoryRows
    OBVIOUS
  <2>1. r = [marker |-> r.marker, index |-> r.index, tracks |-> r.tracks, supported |-> r.supported]
        /\ r.tracks \in BOOLEAN /\ r.supported \in BOOLEAN
    BY DEF LastLook!Repositories
  <2> QED  BY <2>1 DEF RepositoryRows
<1>3. repo \in [Levels -> {None} \cup RepositoryRows]
  BY <1>1, <1>2 DEF LastLook!Init
<1>4. \A l \in Levels : repo[l] # None => repo[l].index <= 0
  BY <1>1
<1>5. LookTypeOK
  <2>1. /\ changes = 0 /\ tracked = FALSE /\ round = 1 /\ saved = None /\ level = 1
        /\ pipe = [bytes |-> FALSE, closed |-> FALSE]
        /\ pc = "review" /\ child = "none" /\ entry = "none"
    BY DEF LastLook!Init
  <2>2. pipe \in [bytes : BOOLEAN, closed : BOOLEAN]  BY <2>1
  <2>3. \A l \in Levels : repo[l] # None => repo[l].index <= changes  BY <1>4, <2>1
  <2>4. tracked \in BOOLEAN  BY <2>1
  <2>5. pc \in LookPlaces /\ child \in GitStates /\ entry \in {"none", "marker", "index"}
    BY <2>1 DEF LookPlaces, GitStates
  <2>6. changes \in Nat /\ round \in {1, 2} /\ level \in Nat /\ level > 0
    BY <2>1
  <2>7. saved \in {None} \cup CapturedRows /\ ~(saved # None)
    BY <2>1
  <2> HIDE <2>1
  <2> QED  BY <1>3, <2>2, <2>3, <2>4, <2>5, <2>6, <2>7 DEF LookTypeOK
<1> QED  BY <1>5 DEF LookInv, PlacesAreMet, AnswerIsKept, LastLookSaw, LastLook!Init

\* What a change of another program leaves of the repositories.
RepositoriesMove ==
    /\ \E c, g, b, r : LastLook!Change(c, g, b, r)
    /\ \A l \in Levels : \/ repo'[l] = repo[l] \/ repo'[l] = None
                         \/ repo'[l] \in RepositoryRows /\ repo'[l].index = changes + 1
    /\ repo' \in [Levels -> {None} \cup RepositoryRows]

\* Whatever they do, it is such a change.
LEMMA OthersWrite ==
    ASSUME LookAssumption, LookTypeOK,
           \/ LastLook!Write \/ LastLook!Configure \/ LastLook!WorkInIt
           \/ \E l \in Levels : LastLook!Stage(l) \/ LastLook!Unclone(l)
                                \/ \E tracks \in BOOLEAN : LastLook!Clone(l, tracks)
    PROVE  RepositoriesMove
<1>1. CASE LastLook!Write \/ LastLook!Configure \/ LastLook!WorkInIt
  <2>1. repo' = repo
    BY <1>1 DEF LastLook!Write, LastLook!Configure, LastLook!WorkInIt, LastLook!Change
  <2>2. \E c, g, b, r : LastLook!Change(c, g, b, r)
    BY <1>1 DEF LastLook!Write, LastLook!Configure, LastLook!WorkInIt
  <2> QED  BY <2>1, <2>2 DEF RepositoriesMove, LookTypeOK
<1>2. ASSUME NEW l \in Levels, LastLook!Stage(l) PROVE RepositoriesMove
  <2> DEFINE r == [repo EXCEPT ![l].index = changes + 1, ![l].tracks = ~@]
  <2>1. repo[l] # None /\ LastLook!Change(content, config, busy, r)
    BY <1>2 DEF LastLook!Stage
  <2>2. repo' = r  BY <2>1 DEF LastLook!Change
  <2>3. repo[l] \in RepositoryRows  BY <2>1 DEF LookTypeOK
  <2>4. changes + 1 \in Nat  BY DEF LookTypeOK
  <2>5. r[l] = [[repo[l] EXCEPT !.index = changes + 1] EXCEPT !.tracks = ~repo[l].tracks]
    BY DEF LookTypeOK, RepositoryRows
  <2>6. r[l] \in RepositoryRows /\ r[l].index = changes + 1
    <3>1. (~repo[l].tracks) \in BOOLEAN  OBVIOUS
    <3> QED  BY <2>3, <2>4, <2>5, <3>1 DEF RepositoryRows
  <2>7. \A k \in Levels \ {l} : r[k] = repo[k]  BY DEF LookTypeOK
  <2>8. DOMAIN r = Levels  BY DEF LookTypeOK
  <2>9. r \in [Levels -> {None} \cup RepositoryRows]
    <3> r = [k \in Levels |-> r[k]]  BY DEF LookTypeOK
    <3> HIDE DEF r
    <3>1. \A k \in Levels : repo[k] \in {None} \cup RepositoryRows  BY DEF LookTypeOK
    <3>2. \A k \in Levels : r[k] \in {None} \cup RepositoryRows  BY <2>6, <2>7, <3>1
    <3> QED  BY <3>2
  <2> HIDE DEF r
  <2> QED  BY <2>1, <2>2, <2>6, <2>7, <2>9 DEF RepositoriesMove
<1>3. ASSUME NEW l \in Levels, NEW tracks \in BOOLEAN, LastLook!Clone(l, tracks) PROVE RepositoriesMove
  <2> DEFINE new == [marker |-> changes + 1, index |-> changes + 1, tracks |-> tracks, supported |-> TRUE]
             r == [repo EXCEPT ![l] = new]
  <2>1. LastLook!Change(content, config, busy, r)  BY <1>3 DEF LastLook!Clone
  <2>2. repo' = r  BY <2>1 DEF LastLook!Change
  <2>3. new \in RepositoryRows /\ new.index = changes + 1
    BY DEF LookTypeOK, RepositoryRows
  <2> HIDE DEF new
  <2>4. r[l] = new /\ \A k \in Levels \ {l} : r[k] = repo[k]  BY DEF LookTypeOK
  <2>5. r \in [Levels -> {None} \cup RepositoryRows]  BY <2>3 DEF LookTypeOK
  <2> HIDE DEF r
  <2> QED  BY <2>1, <2>2, <2>3, <2>4, <2>5 DEF RepositoriesMove
<1>4. ASSUME NEW l \in Levels, LastLook!Unclone(l) PROVE RepositoriesMove
  <2> DEFINE r == [repo EXCEPT ![l] = None]
  <2>1. LastLook!Change(content, config, busy, r)  BY <1>4 DEF LastLook!Unclone
  <2>2. repo' = r  BY <2>1 DEF LastLook!Change
  <2>3. r[l] = None /\ \A k \in Levels \ {l} : r[k] = repo[k]  BY DEF LookTypeOK
  <2>4. r \in [Levels -> {None} \cup RepositoryRows]  BY DEF LookTypeOK
  <2> HIDE DEF r
  <2> QED  BY <2>1, <2>2, <2>3, <2>4 DEF RepositoriesMove
<1> QED  BY <1>1, <1>2, <1>3, <1>4

\* Such a change is not of what was captured, or it shows in its version.
LEMMA OthersKeep ==
    ASSUME LookAssumption, LookInv, RepositoriesMove PROVE LookInv'
<1>1. PICK c, g, b, r : LastLook!Change(c, g, b, r)  BY DEF RepositoriesMove
<1>2. /\ changes' = changes + 1 /\ pc \notin {"approved", "refused"}
      /\ UNCHANGED <<pc, round, todo, level, saved, entry, child, pipe, pending>>
  BY <1>1 DEF LastLook!Change, LastLook!Ended
<1>3. /\ free' = (IF round = 2 THEN free \cup LastLook!Free(repo') ELSE {})
      /\ rested' = (IF round = 2 THEN rested \cup (Uses \ busy') ELSE {})
      /\ tracked' = (tracked \/ (saved # None /\ repo'[saved.level] # None
                                 /\ repo'[saved.level].tracks))
  BY <1>1 DEF LastLook!Change, LastLook!Note
<1>4. changes \in Nat /\ LookTypeOK  BY DEF LookInv, LookTypeOK
<1>5. \A l \in Levels : repo'[l] # None => repo'[l].index <= changes + 1
  <2>1. \A l \in Levels : repo[l] # None => repo[l] \in RepositoryRows /\ repo[l].index <= changes
    BY DEF LookInv, LookTypeOK
  <2>2. \A l \in Levels : repo[l] # None => repo[l].index \in Nat
    BY <2>1 DEF RepositoryRows
  <2>3. \A l \in Levels : repo[l] # None => repo[l].index <= changes + 1
    BY <1>4, <2>1, <2>2
  <2> QED  BY <1>4, <2>3 DEF RepositoriesMove
<1>6. saved # None => saved \in CapturedRows /\ saved.level \in Levels /\ saved.index \in Nat \cup {None}
  BY <1>4, CapturedHas DEF LookTypeOK
<1>7. LookTypeOK'
  <2>1. tracked' \in BOOLEAN  BY <1>3
  <2>2. saved # None /\ saved.index # None => saved.index <= changes + 1
    BY <1>4, <1>6 DEF LookTypeOK
  <2> QED  BY <1>2, <1>4, <1>5, <2>1, <2>2 DEF LookTypeOK, RepositoriesMove
<1>8. PlacesAreMet'
  BY <1>2 DEF LookInv, PlacesAreMet
<1>9. saved # None /\ saved.index # None /\ IndexIsKept' => repo'[saved.level] = repo[saved.level] /\ IndexIsKept
  <2> SUFFICES ASSUME saved # None, saved.index # None, IndexIsKept'
               PROVE  repo'[saved.level] = repo[saved.level] /\ IndexIsKept
    OBVIOUS
  <2>1. saved.level \in Levels /\ saved.index \in Nat /\ saved.index <= changes
    BY <1>4, <1>6 DEF LookTypeOK
  <2>2. repo'[saved.level] # None /\ repo'[saved.level].index = saved.index
    BY <1>2 DEF IndexIsKept
  <2>3. repo'[saved.level] = repo[saved.level]
    BY <1>4, <2>1, <2>2 DEF RepositoriesMove
  <2> QED  BY <2>2, <2>3 DEF IndexIsKept
<1>10. AnswerIsKept'
  <2> SUFFICES ASSUME saved # None, pc \notin {"capture", "refused"}, IndexIsKept'
               PROVE  /\ tracked' <=> repo'[saved.level].tracks
                      /\ child \in {"closing", "succeeded"} => (pipe.bytes <=> repo'[saved.level].tracks)
                      /\ pc \notin {"captured", "spawn", "read", "wait"} => ~repo'[saved.level].tracks
    BY <1>2 DEF AnswerIsKept
  <2>1. saved.index # None  BY DEF LookInv, PlacesAreMet
  <2>2. repo'[saved.level] = repo[saved.level] /\ IndexIsKept  BY <1>9, <2>1
  <2>3. /\ tracked <=> repo[saved.level].tracks
        /\ child \in {"closing", "succeeded"} => (pipe.bytes <=> repo[saved.level].tracks)
        /\ pc \notin {"captured", "spawn", "read", "wait"} => ~repo[saved.level].tracks
    BY <2>2 DEF LookInv, AnswerIsKept
  <2>4. tracked' <=> repo'[saved.level].tracks
    BY <1>3, <2>2, <2>3
  <2> QED  BY <2>2, <2>3, <2>4
<1>11. LastLookSaw'
  <2>1. free' = IF round = 2 THEN free \cup LastLook!Free(repo') ELSE {}  BY <1>3
  <2>2. LastLook!Free(repo)' = LastLook!Free(repo')  BY DEF LastLook!Free
  <2>3. round = 2 => free \subseteq free' /\ LastLook!Free(repo)' \subseteq free'
    BY <2>1, <2>2
  <2>4. round = 2 => \A u \in Uses : (u \in busy' \/ u \in rested') /\ (u \in rested => u \in rested')
    BY <1>3
  <2>5. pc = "again" => round = 2  BY DEF LookInv, PlacesAreMet
  <2> QED  BY <1>2, <2>3, <2>4, <2>5 DEF LookInv, LastLookSaw
<1> QED  BY <1>7, <1>8, <1>10, <1>11 DEF LookInv

\* A refusal, and what git does.
LEMMA CheckRefuses ==
    ASSUME LookAssumption, LookInv, LastLook!Refuse PROVE LookInv'
<1>1. /\ pc' = "refused" /\ child' \in {"none", "reaped"}
      /\ UNCHANGED <<content, config, busy, repo, changes, tracked, free, rested, round, todo, level, saved, entry,
                     pipe, pending>>
  BY DEF LastLook!Refuse, LastLook!world, LastLook!history
<1>2. LookTypeOK'
  BY <1>1 DEF LookInv, LookTypeOK, LookPlaces, GitStates
<1>3. LastLookSaw'
  BY <1>1 DEF LookInv, LastLookSaw, LastLook!Free
<1> QED  BY <1>1, <1>2, <1>3 DEF LookInv, PlacesAreMet, AnswerIsKept

\* What git does while the check reads its output.
LEMMA GitActs ==
    ASSUME LookAssumption, LookInv, LastLook!GitReads \/ LastLook!GitEnds PROVE LookInv'
<1>1. UNCHANGED <<content, config, busy, repo, changes, tracked, free, rested, pc, round, todo, level, saved, entry,
                  pending>>
  BY DEF LastLook!GitReads, LastLook!GitEnds, LastLook!world, LastLook!history
<1>2. pc \in {"read", "wait"} /\ saved # None
  <2>1. child \notin {"none", "reaped"}  BY DEF LastLook!GitReads, LastLook!GitEnds
  <2> QED  BY <2>1 DEF LookInv, PlacesAreMet
<1>3. saved.level \in Levels /\ (repo[saved.level] # None => repo[saved.level].tracks \in BOOLEAN)
  <2>1. saved \in CapturedRows /\ saved.level \in Levels  BY <1>2, CapturedHas DEF LookInv, LookTypeOK
  <2>2. repo[saved.level] # None => repo[saved.level] \in RepositoryRows
    BY <2>1 DEF LookInv, LookTypeOK
  <2> QED  BY <2>1, <2>2 DEF RepositoryRows
<1>4. pipe \in [bytes : BOOLEAN, closed : BOOLEAN]  BY DEF LookInv, LookTypeOK
<1>5. /\ child' \in {"closing", "failing", "succeeded", "failed"}
      /\ pipe' \in [bytes : BOOLEAN, closed : BOOLEAN]
      /\ child' \in {"closing", "succeeded"} /\ IndexIsKept => (pipe'.bytes <=> repo[saved.level].tracks)
  <2>1. CASE LastLook!GitReads
    <3>1. CASE child' = "failing" /\ pipe' = pipe  BY <1>4, <3>1
    <3>2. CASE child' = "closing" /\ pipe' = [pipe EXCEPT !.bytes = repo[saved.level].tracks]
               /\ repo[saved.level] # None
      <4>1. pipe'.bytes = repo[saved.level].tracks  BY <1>4, <3>2
      <4>2. pipe' \in [bytes : BOOLEAN, closed : BOOLEAN]  BY <1>3, <1>4, <3>2
      <4> QED  BY <3>2, <4>1, <4>2
    <3> QED  BY <2>1, <3>1, <3>2 DEF LastLook!GitReads
  <2>2. CASE LastLook!GitEnds
    <3>1. pipe' = [pipe EXCEPT !.closed = TRUE] /\ child \in {"closing", "failing"}
      BY <2>2 DEF LastLook!GitEnds
    <3>2. /\ child' \in {"closing", "failing", "succeeded", "failed"}
          /\ child' \in {"closing", "succeeded"} => child = "closing"
      BY <2>2, <3>1 DEF LastLook!GitEnds
    <3>3. pipe'.bytes = pipe.bytes /\ pipe' \in [bytes : BOOLEAN, closed : BOOLEAN]
      BY <1>4, <3>1
    <3>4. child = "closing" /\ IndexIsKept => (pipe.bytes <=> repo[saved.level].tracks)
      BY <1>2 DEF LookInv, AnswerIsKept
    <3> QED  BY <3>2, <3>3, <3>4
  <2> QED  BY <2>1, <2>2
<1>6. LookTypeOK'
  BY <1>1, <1>5 DEF LookInv, LookTypeOK, GitStates
<1>7. PlacesAreMet'
  BY <1>1, <1>2 DEF LookInv, PlacesAreMet
<1>8. LastLookSaw'
  BY <1>1 DEF LookInv, LastLookSaw, LastLook!Free
<1>9. AnswerIsKept'
  <2>1. IndexIsKept' <=> IndexIsKept  BY <1>1 DEF IndexIsKept
  <2>2. AnswerIsKept  BY DEF LookInv
  <2> QED  BY <1>1, <1>2, <1>5, <2>1, <2>2 DEF AnswerIsKept
<1> QED  BY <1>6, <1>7, <1>8, <1>9 DEF LookInv

\* The steps of the check that only look: what was known stays known.
LEMMA CheckGoesOn ==
    ASSUME LookAssumption, LookInv,
           UNCHANGED <<busy, repo, changes, tracked, free, rested, round>>,
           level' \in Nat \ {0}, pc' \in LookPlaces, child' \in GitStates,
           pipe' \in [bytes : BOOLEAN, closed : BOOLEAN], entry' \in {"none", "marker", "index"},
           saved' = saved,
           PlacesAreMet', AnswerIsKept',
           round = 2 /\ pc' = "look" => \A u \in Uses : u \in todo' \/ u \in rested,
           round = 2 /\ pc' \in {"nearer", "find", "again", "approved"} => \A u \in Uses : u \in rested,
           round = 2 /\ pc' \in {"nearer", "find"} => \A l \in Levels : l < level' => l \in free,
           pc' = "nearer" => level' <= saved.level,
           pc' = "again" => \A l \in Levels : l < saved.level => l \in free,
           pc' = "approved" => \A l \in Levels : (saved # None => l < saved.level) => l \in free
    PROVE  LookInv'
<1>1. LookTypeOK'  BY DEF LookInv, LookTypeOK
<1>2. LastLookSaw'
  <2>1. round = 2 => LastLook!Free(repo) \subseteq free /\ \A u \in Uses : u \in busy \/ u \in rested
    BY DEF LookInv, LastLookSaw
  <2>2. LastLook!Free(repo)' = LastLook!Free(repo)  BY DEF LastLook!Free
  <2> QED  BY <2>1, <2>2 DEF LastLookSaw
<1> QED  BY <1>1, <1>2 DEF LookInv

\* Each step of the check.
LEMMA CheckSteps ==
    ASSUME LookAssumption, LookInv, LastLook!Check PROVE LookInv'
<1>1. CASE LastLook!Refuse  BY <1>1, CheckRefuses
<1>2. /\ LookTypeOK /\ PlacesAreMet /\ AnswerIsKept /\ LastLookSaw
  BY DEF LookInv
<1>3. /\ level \in Nat /\ level > 0 /\ pc \in LookPlaces /\ child \in GitStates
      /\ pipe \in [bytes : BOOLEAN, closed : BOOLEAN] /\ entry \in {"none", "marker", "index"}
  BY <1>2 DEF LookTypeOK
<1>4. PICK n \in Nat : Levels = 1..n  BY DEF LookAssumption
<1>5. saved # None => saved \in CapturedRows /\ saved.level \in Levels /\ saved.index \in Nat \cup {None}
  BY <1>2, CapturedHas DEF LookTypeOK
<1>6. ASSUME UNCHANGED <<busy, repo, changes, tracked, free, rested, round, saved, child, pipe>>,
             pc \notin {"capture", "refused", "captured", "spawn", "read", "wait"}, pc' # "approved"
      PROVE  AnswerIsKept'
  <2>1. IndexIsKept' <=> IndexIsKept  BY <1>6 DEF IndexIsKept
  <2> QED  BY <1>2, <1>6, <2>1 DEF AnswerIsKept
<1> USE <1>3 DEF LookPlaces
<1>7. ASSUME LastLook!Review, ~LastLook!Refuse PROVE LookInv'
  <2>1. /\ UNCHANGED <<busy, repo, changes, tracked, free, rested, round, todo, saved, entry, child, pipe>>
        /\ pc = "review" /\ level' = 1 /\ pc' = IF round = 1 THEN "find" ELSE "work"
    BY <1>7 DEF LastLook!Review, LastLook!Go, LastLook!world, LastLook!history
  <2>2. AnswerIsKept'  BY <1>6, <2>1
  <2>3. PlacesAreMet'  BY <1>2, <2>1 DEF PlacesAreMet
  <2> QED  BY <1>2, <2>1, <2>2, <2>3, CheckGoesOn
<1>8. ASSUME LastLook!Looked, ~LastLook!Refuse PROVE LookInv'
  <2>1. /\ UNCHANGED <<busy, repo, changes, tracked, free, rested, round, todo, saved, entry, child, pipe>>
        /\ pc = "look" /\ todo = {} /\ level' = 1
        /\ pc' = IF round = 1 THEN "measure" ELSE IF saved # None THEN "nearer" ELSE "find"
    BY <1>8 DEF LastLook!Looked, LastLook!Go, LastLook!world, LastLook!history
  <2>2. AnswerIsKept'  BY <1>6, <2>1
  <2>3. PlacesAreMet'  BY <1>2, <2>1 DEF PlacesAreMet, LookTypeOK
  <2>4. round = 2 => \A u \in Uses : u \in rested  BY <1>2, <2>1 DEF LastLookSaw
  <2>5. saved # None => 1 <= saved.level  BY <1>4, <1>5
  <2>6. \A l \in Levels : ~(l < 1)  BY <1>4
  <2>7. pc' \in {"measure", "nearer", "find"} /\ (pc' = "nearer" => saved # None)  BY <2>1
  <2> QED  BY <2>1, <2>2, <2>3, <2>4, <2>5, <2>6, <2>7, CheckGoesOn
<1>20. ASSUME LastLook!Work, ~LastLook!Refuse PROVE LookInv'
  <2>1. /\ UNCHANGED <<busy, repo, changes, tracked, free, rested, round, level, saved, entry, child, pipe>>
        /\ pc = "work" /\ pc' = "look" /\ busy \subseteq todo'
    BY <1>20 DEF LastLook!Work, LastLook!world, LastLook!history, LastLook!git
  <2>2. AnswerIsKept'  BY <1>6, <2>1
  <2>3. PlacesAreMet'  BY <1>2, <2>1 DEF PlacesAreMet
  <2>4. round = 2 => \A u \in Uses : u \in todo' \/ u \in rested
    BY <1>2, <2>1 DEF LastLookSaw
  <2> QED  BY <2>1, <2>2, <2>3, <2>4, CheckGoesOn
<1>21. ASSUME NEW u \in Uses, LastLook!LookAt(u), ~LastLook!Refuse PROVE LookInv'
  <2>1. /\ UNCHANGED <<busy, repo, changes, tracked, free, rested, round, level, saved, entry, child, pipe>>
        /\ pc = "look" /\ pc' = "look" /\ u \notin busy /\ todo' = todo \ {u}
    BY <1>21 DEF LastLook!LookAt, LastLook!world, LastLook!history, LastLook!git
  <2>2. AnswerIsKept'  BY <1>6, <2>1
  <2>3. PlacesAreMet'  BY <1>2, <2>1 DEF PlacesAreMet
  <2>4. round = 2 => \A v \in Uses : v \in todo' \/ v \in rested
    BY <1>2, <2>1 DEF LastLookSaw
  <2> QED  BY <2>1, <2>2, <2>3, <2>4, CheckGoesOn
<1>9. ASSUME LastLook!Measure, ~LastLook!Refuse PROVE LookInv'
  <2>1. /\ UNCHANGED <<busy, repo, changes, tracked, level, saved, entry, child, pipe>>
        /\ pc = "measure" /\ pc' = "review" /\ round' = 2
        /\ free' = LastLook!Free(repo) /\ rested' = Uses \ busy
    BY <1>9 DEF LastLook!Measure, LastLook!world, LastLook!git
  <2>2. LookTypeOK'  BY <1>2, <2>1 DEF LookTypeOK
  <2>3. PlacesAreMet'  BY <1>2, <2>1 DEF PlacesAreMet
  <2>4. AnswerIsKept'
    <3>1. IndexIsKept' <=> IndexIsKept  BY <2>1 DEF IndexIsKept
    <3> QED  BY <1>2, <2>1, <3>1 DEF AnswerIsKept
  <2>5. LastLookSaw'
    <3>1. LastLook!Free(repo)' = LastLook!Free(repo)  BY <2>1 DEF LastLook!Free
    <3> QED  BY <2>1, <3>1 DEF LastLookSaw
  <2> QED  BY <2>2, <2>3, <2>4, <2>5 DEF LookInv
<1>10. ASSUME LastLook!FindRepository, ~LastLook!Refuse PROVE LookInv'
  <2>1. /\ UNCHANGED <<busy, repo, changes, tracked, free, rested, round, todo, saved, entry, child, pipe>>
        /\ pc = "find"
        /\ \/ level \notin Levels /\ pc' = (IF round = 1 THEN "work" ELSE "approved") /\ level' = level
           \/ level \in Levels /\ repo[level] = None /\ pc' = "find" /\ level' = level + 1
           \/ level \in Levels /\ repo[level] # None /\ round # 2 /\ pc' = "capture" /\ level' = level
    BY <1>10 DEF LastLook!FindRepository, LastLook!Go, LastLook!world, LastLook!history, LastLook!git
  <2>2. saved = None /\ child \in {"none", "reaped"}  BY <1>2, <2>1 DEF PlacesAreMet
  <2>3. AnswerIsKept'  BY <2>1, <2>2 DEF AnswerIsKept
  <2>4. PlacesAreMet'  BY <1>2, <2>1, <2>2 DEF PlacesAreMet, LookTypeOK
  <2>5. round = 2 => (\A u \in Uses : u \in rested) /\ \A l \in Levels : l < level => l \in free
    BY <1>2, <2>1 DEF LastLookSaw
  <2>6. round = 2 /\ level \in Levels /\ repo[level] = None => level \in free
    BY <1>2 DEF LastLookSaw, LastLook!Free
  <2>7. round \in {1, 2}  BY <1>2 DEF LookTypeOK
  <2>8. CASE level \notin Levels
    <3>1. \A l \in Levels : l < level  BY <1>4, <2>8
    <3> QED  BY <2>1, <2>2, <2>3, <2>4, <2>5, <2>7, <2>8, <3>1, CheckGoesOn
  <2>9. CASE level \in Levels /\ pc' = "find"
    <3>1. level' = level + 1 /\ repo[level] = None  BY <2>1, <2>9
    <3>2. \A l \in Levels : l < level + 1 => l < level \/ l = level  BY <1>4
    <3> QED  BY <2>1, <2>2, <2>3, <2>4, <2>5, <2>6, <2>9, <3>1, <3>2, CheckGoesOn
  <2>10. CASE pc' = "capture"
    BY <2>1, <2>2, <2>3, <2>4, <2>10, CheckGoesOn
  <2> QED  BY <2>1, <2>8, <2>9, <2>10
<1>11. ASSUME LastLook!CaptureMarker, ~LastLook!Refuse PROVE LookInv'
  <2>1. /\ UNCHANGED <<busy, repo, changes, free, rested, round, todo, level, entry, child, pipe>>
        /\ pc = "capture" /\ pc' = "capture" /\ saved = None /\ repo[level] # None /\ tracked' = FALSE
        /\ saved' = [level |-> level, marker |-> repo[level].marker, index |-> None]
    BY <1>11 DEF LastLook!CaptureMarker, LastLook!world
  <2>2. level \in Levels /\ repo[level] \in RepositoryRows
    BY <1>2, <2>1 DEF PlacesAreMet, LookTypeOK
  <2>3. saved' \in CapturedRows /\ saved'.index = None
    BY <2>1, <2>2 DEF CapturedRows, RepositoryRows
  <2>4. LookTypeOK'
    <3>1. tracked' \in BOOLEAN  BY <2>1
    <3> QED  BY <1>2, <2>1, <2>3, <3>1 DEF LookTypeOK
  <2>5. PlacesAreMet'  BY <1>2, <2>1, <2>3 DEF PlacesAreMet
  <2>6. AnswerIsKept'  BY <2>1 DEF AnswerIsKept
  <2>7. LastLookSaw'
    <3>1. LastLook!Free(repo)' = LastLook!Free(repo)  BY <2>1 DEF LastLook!Free
    <3> QED  BY <1>2, <2>1, <3>1 DEF LastLookSaw
  <2> QED  BY <2>4, <2>5, <2>6, <2>7 DEF LookInv
<1>12. ASSUME LastLook!CaptureIndex, ~LastLook!Refuse PROVE LookInv'
  <2>1. /\ UNCHANGED <<busy, repo, changes, free, rested, round, todo, level, child, pipe>>
        /\ pc = "capture" /\ pc' = "captured" /\ saved # None /\ repo[saved.level] # None
        /\ tracked' = repo[saved.level].tracks /\ entry' = "marker"
        /\ saved' = [saved EXCEPT !.index = repo[saved.level].index]
    BY <1>12 DEF LastLook!CaptureIndex, LastLook!world
  <2>2. repo[saved.level] \in RepositoryRows /\ repo[saved.level].index <= changes
    BY <1>2, <1>5, <2>1 DEF LookTypeOK
  <2>3. /\ repo[saved.level].index \in Nat /\ repo[saved.level].tracks \in BOOLEAN
    BY <2>2 DEF RepositoryRows
  <2>4. /\ saved' \in CapturedRows /\ saved'.level = saved.level
        /\ saved'.index = repo[saved.level].index
    BY <1>5, <2>1, <2>3 DEF CapturedRows
  <2>5. saved' # None /\ saved'.index # None
    BY <2>3, <2>4 DEF LookAssumption
  <2>6. LookTypeOK'
    <3>1. tracked' \in BOOLEAN  BY <2>1, <2>3
    <3> QED  BY <1>2, <2>1, <2>2, <2>4, <3>1 DEF LookTypeOK
  <2>7. child \in {"none", "reaped"}  BY <1>2, <2>1 DEF PlacesAreMet
  <2>8. PlacesAreMet'  BY <2>1, <2>5, <2>7 DEF PlacesAreMet
  <2>9. AnswerIsKept'  BY <2>1, <2>4, <2>7 DEF AnswerIsKept
  <2>10. LastLookSaw'
    <3>1. LastLook!Free(repo)' = LastLook!Free(repo)  BY <2>1 DEF LastLook!Free
    <3> QED  BY <1>2, <2>1, <3>1 DEF LastLookSaw
  <2> QED  BY <2>6, <2>8, <2>9, <2>10 DEF LookInv
<1>13. ASSUME LastLook!Captured, ~LastLook!Refuse PROVE LookInv'
  <2>1. /\ UNCHANGED <<busy, repo, changes, tracked, free, rested, round, todo, level, saved, child, pipe>>
        /\ pc = "captured" /\ pc' \in {"captured", "spawn"} /\ entry' \in {"marker", "index"}
    BY <1>13 DEF LastLook!Captured, LastLook!Unchanged, LastLook!Go, LastLook!world, LastLook!history
  <2>2. PlacesAreMet'  BY <1>2, <2>1 DEF PlacesAreMet
  <2>3. IndexIsKept' <=> IndexIsKept  BY <2>1 DEF IndexIsKept
  <2>4. AnswerIsKept'  BY <1>2, <2>1, <2>3 DEF AnswerIsKept
  <2> QED  BY <2>1, <2>2, <2>4, CheckGoesOn
<1>14. ASSUME LastLook!Spawn, ~LastLook!Refuse PROVE LookInv'
  <2>1. /\ UNCHANGED <<busy, repo, changes, tracked, free, rested, round, todo, level, saved, entry>>
        /\ pc = "spawn" /\ pc' = "read" /\ child' = "started"
        /\ pipe' = [bytes |-> FALSE, closed |-> FALSE]
    BY <1>14 DEF LastLook!Spawn, LastLook!Go, LastLook!world, LastLook!history
  <2>2. PlacesAreMet'  BY <1>2, <2>1 DEF PlacesAreMet
  <2>3. IndexIsKept' <=> IndexIsKept  BY <2>1 DEF IndexIsKept
  <2>4. AnswerIsKept'  BY <1>2, <2>1, <2>3 DEF AnswerIsKept
  <2>5. pipe' \in [bytes : BOOLEAN, closed : BOOLEAN]  BY <2>1
  <2>6. child' \in GitStates  BY <2>1 DEF GitStates
  <2> QED  BY <2>1, <2>2, <2>4, <2>5, <2>6, CheckGoesOn
<1>15. ASSUME LastLook!Read, ~LastLook!Refuse PROVE LookInv'
  <2>1. /\ UNCHANGED <<busy, repo, changes, tracked, free, rested, round, todo, level, saved, entry, child, pipe>>
        /\ pc = "read" /\ pc' = "wait"
    BY <1>15 DEF LastLook!Read, LastLook!Go, LastLook!world, LastLook!history
  <2>2. PlacesAreMet'  BY <1>2, <2>1 DEF PlacesAreMet
  <2>3. IndexIsKept' <=> IndexIsKept  BY <2>1 DEF IndexIsKept
  <2>4. AnswerIsKept'  BY <1>2, <2>1, <2>3 DEF AnswerIsKept
  <2> QED  BY <2>1, <2>2, <2>4, CheckGoesOn
<1>16. ASSUME LastLook!Wait, ~LastLook!Refuse PROVE LookInv'
  <2>1. /\ UNCHANGED <<busy, repo, changes, tracked, free, rested, round, todo, level, saved, pipe>>
        /\ pc = "wait"
    BY <1>16 DEF LastLook!Wait, LastLook!Go, LastLook!world, LastLook!history
  <2>2. IndexIsKept' <=> IndexIsKept  BY <2>1 DEF IndexIsKept
  <2>3. CASE child = "succeeded"
    <3>1. pc' = "asked" /\ entry' = "marker" /\ child' = "reaped" /\ ~pipe.bytes
      BY <1>16, <2>3 DEF LastLook!Wait, LastLook!Go
    <3>2. PlacesAreMet'  BY <1>2, <2>1, <3>1 DEF PlacesAreMet
    <3>3. saved # None /\ IndexIsKept => ~repo[saved.level].tracks
      BY <1>2, <2>1, <2>3, <3>1 DEF AnswerIsKept
    <3>4. AnswerIsKept'  BY <1>2, <2>1, <2>2, <3>1, <3>3 DEF AnswerIsKept
    <3>5. child' \in GitStates  BY <3>1 DEF GitStates
    <3> QED  BY <2>1, <3>1, <3>2, <3>4, <3>5, CheckGoesOn
  <2>4. CASE child # "succeeded"
    <3>1. pc' = "read" /\ UNCHANGED <<entry, child>>
      BY <1>16, <2>4 DEF LastLook!Wait, LastLook!Go
    <3>2. PlacesAreMet'  BY <1>2, <2>1, <3>1 DEF PlacesAreMet
    <3>3. AnswerIsKept'  BY <1>2, <2>1, <2>2, <3>1 DEF AnswerIsKept
    <3> QED  BY <2>1, <3>1, <3>2, <3>3, CheckGoesOn
  <2> QED  BY <2>3, <2>4
<1>17. ASSUME LastLook!Asked, ~LastLook!Refuse PROVE LookInv'
  <2>1. /\ UNCHANGED <<busy, repo, changes, tracked, free, rested, round, todo, level, saved, child, pipe>>
        /\ pc = "asked" /\ pc' \in {"asked", "work"} /\ entry' \in {"marker", "index"}
    BY <1>17 DEF LastLook!Asked, LastLook!Unchanged, LastLook!Go, LastLook!world, LastLook!history
  <2>2. PlacesAreMet'  BY <1>2, <2>1 DEF PlacesAreMet
  <2>3. AnswerIsKept'  BY <1>6, <2>1
  <2> QED  BY <2>1, <2>2, <2>3, CheckGoesOn
<1>18. ASSUME LastLook!Nearer, ~LastLook!Refuse PROVE LookInv'
  <2>1. /\ UNCHANGED <<busy, repo, changes, tracked, free, rested, round, todo, saved, child, pipe>>
        /\ pc = "nearer"
        /\ \/ level = saved.level /\ pc' = "again" /\ entry' = "marker" /\ level' = level
           \/ level # saved.level /\ repo[level] = None /\ pc' = "nearer" /\ level' = level + 1
              /\ entry' = entry
    BY <1>18 DEF LastLook!Nearer, LastLook!Go, LastLook!world, LastLook!history
  <2>2. PlacesAreMet'  BY <1>2, <2>1 DEF PlacesAreMet
  <2>3. AnswerIsKept'  BY <1>6, <2>1
  <2>4. round = 2 /\ saved # None  BY <1>2, <2>1 DEF PlacesAreMet
  <2>5. (\A u \in Uses : u \in rested) /\ level <= saved.level /\ \A l \in Levels : l < level => l \in free
    BY <1>2, <2>1, <2>4 DEF LastLookSaw
  <2>6. CASE level = saved.level /\ pc' = "again"
    BY <2>1, <2>2, <2>3, <2>5, <2>6, CheckGoesOn
  <2>7. CASE level # saved.level /\ pc' = "nearer"
    <3>1. level' = level + 1 /\ repo[level] = None  BY <2>1, <2>7
    <3>2. level \in Levels /\ level + 1 <= saved.level  BY <1>4, <1>5, <2>4, <2>5, <2>7
    <3>3. level \in free  BY <1>2, <2>4, <3>1, <3>2 DEF LastLookSaw, LastLook!Free
    <3>4. \A l \in Levels : l < level + 1 => l < level \/ l = level  BY <1>4
    <3>5. \A l \in Levels : l < level + 1 => l \in free  BY <2>5, <3>3, <3>4
    <3>6. entry' = entry  BY <2>1, <2>7
    <3>7. level' \in Nat \ {0} /\ level' <= saved.level /\ \A l \in Levels : l < level' => l \in free
      BY <3>1, <3>2, <3>5
    <3> QED  BY <2>1, <2>2, <2>3, <2>5, <2>7, <3>6, <3>7, CheckGoesOn
  <2> QED  BY <2>1, <2>6, <2>7
<1>19. ASSUME LastLook!Again, ~LastLook!Refuse PROVE LookInv'
  <2>1. /\ UNCHANGED <<busy, repo, changes, tracked, free, rested, round, todo, level, saved, child, pipe>>
        /\ pc = "again" /\ pc' \in {"again", "approved"} /\ entry' \in {"marker", "index"}
        /\ pc' = "approved" => repo[saved.level] # None /\ (entry = "index" => repo[saved.level].index = saved.index)
        /\ pc' = "approved" => entry # "marker"
    BY <1>19 DEF LastLook!Again, LastLook!Unchanged, LastLook!Go, LastLook!world, LastLook!history
  <2>2. entry # "none" /\ saved # None /\ round = 2  BY <1>2, <2>1 DEF PlacesAreMet
  <2>3. PlacesAreMet'  BY <1>2, <2>1, <2>2 DEF PlacesAreMet
  <2>4. IndexIsKept' <=> IndexIsKept  BY <2>1 DEF IndexIsKept
  <2>5. pc' = "approved" => IndexIsKept  BY <2>1, <2>2 DEF IndexIsKept
  <2>6. IndexIsKept => ~repo[saved.level].tracks /\ ~tracked
    BY <1>2, <2>1, <2>2 DEF AnswerIsKept
  <2>7. AnswerIsKept'  BY <1>2, <2>1, <2>4, <2>5, <2>6 DEF AnswerIsKept
  <2>8. (\A u \in Uses : u \in rested) /\ \A l \in Levels : l < saved.level => l \in free
    BY <1>2, <2>1, <2>2 DEF LastLookSaw
  <2> QED  BY <2>1, <2>2, <2>3, <2>7, <2>8, CheckGoesOn
<1> QED
  <2>1. LastLook!TimesOut \/ LastLook!Cancel => LastLook!Refuse
    BY DEF LastLook!TimesOut, LastLook!Cancel
  <2> QED  BY <1>1, <1>7, <1>8, <1>9, <1>10, <1>11, <1>12, <1>13, <1>14, <1>15, <1>16, <1>17, <1>18, <1>19,
              <1>20, <1>21, <2>1 DEF LastLook!Check

\* The invariant holds for any levels, and however many changes.
LEMMA LookHolds ==
    ASSUME LookAssumption PROVE LastLook!Spec => []LookInv
<1>1. LastLook!Init => LookInv  BY LookStart
<1>2. LookInv /\ [LastLook!Next]_(LastLook!vars) => LookInv'
  <2>1. ASSUME LookInv, UNCHANGED LastLook!vars PROVE LookInv'
    <3>1. UNCHANGED <<content, config, busy, repo, changes, pc, round, todo, level, saved, entry, child, pipe, pending,
                      tracked, free, rested>>
      BY <2>1 DEF LastLook!vars
    <3> QED  BY <2>1, <3>1 DEF LookInv, LookTypeOK, PlacesAreMet, AnswerIsKept, LastLookSaw, IndexIsKept, LastLook!Free
  <2>2. ASSUME LookInv, LastLook!Others PROVE LookInv'
    <3>1. CASE LastLook!GitReads \/ LastLook!GitEnds  BY <2>2, <3>1, GitActs
    <3>2. CASE ~(LastLook!GitReads \/ LastLook!GitEnds)
      <4>1. LookTypeOK  BY <2>2 DEF LookInv
      <4>2. RepositoriesMove  BY <2>2, <3>2, <4>1, OthersWrite DEF LastLook!Others
      <4> QED  BY <2>2, <4>2, OthersKeep
    <3> QED  BY <3>1, <3>2
  <2> QED  BY <2>1, <2>2, CheckSteps DEF LastLook!Next
<1> QED  BY <1>1, <1>2, PTL DEF LastLook!Spec

\* An item is approved by revalidate_observing (scanner.rs) only if, after its measurement,
\* each use a process may make of it was not made at some moment, one moment for each; each
\* folder up to its repository or to "/" was no repository at some moment; and its
\* repository tracked nothing in it from the capture of the index to the last look; for any
\* number of uses, levels and changes.
THEOREM ApprovedStaysSafe ==
    ASSUME LookAssumption PROVE LastLook!Spec => []LastLook!ApprovedIsSafe
<1>1. LookInv => LastLook!ApprovedIsSafe
  <2> SUFFICES ASSUME LookInv, pc = "approved"
               PROVE  Uses \subseteq rested /\ {l \in Levels : saved # None => l < saved.level} \subseteq free
                      /\ (saved # None => ~tracked)
    BY DEF LastLook!ApprovedIsSafe
  <2>1. round = 2  BY DEF LookInv, PlacesAreMet
  <2> QED  BY <2>1 DEF LookInv, AnswerIsKept, LastLookSaw
<1> QED  BY <1>1, LookHolds, PTL

\* Whatever ends the last look (git_untracked, scanner.rs), no git is left running.
THEOREM GitIsNeverLeft ==
    ASSUME LookAssumption PROVE LastLook!Spec => []LastLook!NoGitIsLeft
<1>1. LookInv => LastLook!NoGitIsLeft
  BY DEF LookInv, PlacesAreMet, LastLook!NoGitIsLeft, LastLook!Ended
<1> QED  BY <1>1, LookHolds, PTL

=============================================================================
