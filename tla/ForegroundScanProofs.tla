------------------------ MODULE ForegroundScanProofs ------------------------
(***************************************************************************)
(* The scan a user watches, proved for any folders, requests and events:    *)
(* its summary is saved once and as it ended, somebody is there to end it,  *)
(* and only the readers admitted for it complete its folders.  The last     *)
(* part is about what such a reader takes from a path that other programs   *)
(* change (PinnedRead), however long the files and however many changes.    *)
(***************************************************************************)
EXTENDS ForegroundScan, Sequences, TLAPS

-----------------------------------------------------------------------------
(* The invariant, and what an operation may make of a request              *)

\* S is what has been saved when q is the request of generation g: one summary of
\* a generation, and of q only how it ended, once that has been attempted.
SavedOf(S, q, g) ==
    /\ \A s \in S : s.generation \in Nat /\ s.generation <= g
    /\ \A s, t \in S : s.generation = t.generation => s = t
    /\ q # None =>
         /\ q.generation = g
         /\ q.attempted => ~q.active
         /\ \A s \in S : s.generation = g => q.attempted /\ s = Outcome(q)
SavedAsEnded == SavedOf(saved, fg, generation)

\* Only a reader of a whole folder has a ticket.
TicketsAreFull ==
    \A r \in Roots : active[r] # None /\ active[r].kind = "part" => active[r].ticket = 0

\* An active request without a worker has queued scopes, and if discovery is
\* paused somebody is about to stop it.
WaitingIsQueued ==
    fg # None /\ fg.active =>
        /\ ~Scanning => pending # {}
        /\ paused => cancelling

ScanInv == TypeOK /\ SavedAsEnded /\ TicketsAreFull /\ WaitingIsQueued /\ ActiveIsServed

-----------------------------------------------------------------------------
(* What each operation makes of a request                                  *)

\* p is what became of the request q: the same request, and the same as before
\* once it is over.
Develops(q, p) ==
    IF q = None THEN p = None
    ELSE /\ p \in Request /\ p.generation = q.generation /\ p.attempted = q.attempted
         /\ p.active => q.active
         /\ ~q.active => p = q
         /\ DOMAIN p.roots = DOMAIN q.roots

\* None of the folders of q has been completed in p.
NoneCompleted(q, p) ==
    q # None => \A r \in DOMAIN q.roots : p.roots[r].complete => q.roots[r].complete

\* The request becomes p, and may be saved if it is over.
Settles(p) == (fg' = p /\ saved' = saved) \/ Persist(p)

\* What can be written into the folders of a request.
RootsOf == UNION {[R -> Part] : R \in SUBSET Roots}

\* One folder of a request is written.
LEMMA RootsUpdate ==
    ASSUME NEW f \in RootsOf, NEW r \in DOMAIN f, NEW x \in Part, NEW y,
           y = [f EXCEPT ![r] = x]
    PROVE  y \in RootsOf /\ DOMAIN y = DOMAIN f /\ y[r] = x
            /\ \A t \in DOMAIN f \ {r} : y[t] = f[t]
    BY DEF RootsOf

\* rebuild keeps the request and its folders; it is active while one is open.
LEMMA RebuiltRequest ==
    ASSUME NEW q \in Request
    PROVE  /\ Rebuilt(q) \in Request
           /\ Rebuilt(q).generation = q.generation /\ Rebuilt(q).attempted = q.attempted
           /\ Rebuilt(q).roots = q.roots
           /\ Rebuilt(q).active <=> \E r \in DOMAIN q.roots : ~q.roots[r].terminal
<1> DEFINE a == \E r \in DOMAIN q.roots : ~q.roots[r].terminal
           x == \E r \in DOMAIN q.roots : q.roots[r].cancelled
           f == \E r \in DOMAIN q.roots : q.roots[r].failed
           k == /\ \A r \in DOMAIN q.roots : q.roots[r].terminal /\ q.roots[r].complete
                /\ ~x /\ ~f
<1>1. a \in BOOLEAN /\ x \in BOOLEAN /\ f \in BOOLEAN /\ k \in BOOLEAN
    OBVIOUS
<1>2. Rebuilt(q) = [q EXCEPT !.active = a, !.cancelled = x, !.failed = f, !.complete = k]
    BY Zenon DEF Rebuilt
<1> DEFINE p == Rebuilt(q)
<1> HIDE DEF a, x, f, k, p
<1>3. p = [q EXCEPT !.active = a, !.cancelled = x, !.failed = f, !.complete = k]
    BY <1>2 DEF p
<1>4. /\ p \in Request /\ p.generation = q.generation /\ p.attempted = q.attempted
      /\ p.roots = q.roots /\ p.active = a
    BY <1>1, <1>3 DEF Request
<1> QED  BY <1>4 DEF p, a

\* A stopped request is over, and completes nothing.
LEMMA StoppedRequest ==
    ASSUME NEW q \in Request \cup {None}, NEW x \in BOOLEAN
    PROVE  /\ Develops(q, Stopped(q, x)) /\ NoneCompleted(q, Stopped(q, x))
           /\ q # None => ~Stopped(q, x).active
<1>1. CASE q = None \/ ~q.active
    BY <1>1 DEF Stopped, Develops, NoneCompleted
<1>2. CASE q # None /\ q.active
    <2> DEFINE b == Rebuilt(q)
               c == b.cancelled \/ x
               f == b.failed \/ ~x
    <2>1. b \in Request /\ b.generation = q.generation /\ b.attempted = q.attempted
            /\ b.roots = q.roots
        BY <1>2, RebuiltRequest
    <2>2. Stopped(q, x) = [b EXCEPT !.active = FALSE, !.complete = FALSE, !.cancelled = c,
                                    !.failed = f]
        BY <1>2 DEF Stopped
    <2>3. c \in BOOLEAN /\ f \in BOOLEAN
        OBVIOUS
    <2> DEFINE p == Stopped(q, x)
    <2> HIDE DEF b, c, f, p
    <2>4. p = [b EXCEPT !.active = FALSE, !.cancelled = c, !.failed = f, !.complete = FALSE]
        BY <2>1, <2>2 DEF Request, p
    <2>5. /\ p \in Request /\ p.generation = b.generation /\ p.attempted = b.attempted
          /\ p.roots = b.roots /\ p.active = FALSE
        BY <2>1, <2>3, <2>4 DEF Request
    <2> QED  BY <1>2, <2>1, <2>5 DEF Develops, NoneCompleted, p
<1> QED  BY <1>1, <1>2

\* How a folder ends.
LEMMA EndedPart ==
    ASSUME NEW result
    PROVE  Ended(result) \in Part /\ Ended(result).complete = (result = "complete")
    BY DEF Ended, Part

\* A folder that waits for its first reader.
LEMMA FreshPart == Fresh \in Part /\ Fresh.complete = FALSE /\ Fresh.terminal = FALSE
    BY DEF Fresh, Part

\* The folders of a request are granted ones.
LEMMA PartOf ==
    ASSUME NEW q \in Request, NEW r \in DOMAIN q.roots
    PROVE  q.roots[r] \in Part /\ r \in Roots /\ q.active \in BOOLEAN
    BY DEF Request

\* A ticket only marks its folder as started.
LEMMA ClaimedRequest ==
    ASSUME NEW q \in Request \cup {None}, NEW s \in Roots \X Kinds
    PROVE  /\ Develops(q, Claimed(q, s)) /\ NoneCompleted(q, Claimed(q, s))
           /\ q # None => Claimed(q, s).active = q.active
<1>1. CASE ~Claims(q, s)
    BY <1>1 DEF Claimed, Develops, NoneCompleted
<1>2. CASE Claims(q, s)
    <2> DEFINE r == s[1]
               x == [q.roots[r] EXCEPT !.started = TRUE]
    <2>1. q \in Request /\ q # None /\ q.active /\ r \in DOMAIN q.roots
        BY <1>2 DEF Claims
    <2>2. q.roots[r] \in Part
        BY <2>1, PartOf
    <2>3. x \in Part /\ x.complete = q.roots[r].complete
        BY <2>2 DEF Part
    <2> DEFINE f == q.roots
               y == [f EXCEPT ![r] = x]
               p == Claimed(q, s)
    <2>4. p = [q EXCEPT !.roots = y]
        BY <1>2, <2>1 DEF Claimed, Request
    <2>5. f \in RootsOf /\ r \in DOMAIN f
        BY <2>1 DEF Request, RootsOf
    <2> HIDE DEF r, x, p, f
    <2>6. y \in RootsOf /\ DOMAIN y = DOMAIN f /\ y[r] = x
            /\ \A t \in DOMAIN f \ {r} : y[t] = f[t]
        BY <2>3, <2>5, RootsUpdate
    <2> HIDE DEF y
    <2>7. /\ p \in Request /\ p.generation = q.generation /\ p.attempted = q.attempted
          /\ p.active = q.active /\ p.roots = y
        BY <2>1, <2>4, <2>6 DEF Request, RootsOf
    <2>8. \A t \in DOMAIN f : y[t].complete = f[t].complete
        BY <2>3, <2>6 DEF f
    <2> QED  BY <2>1, <2>6, <2>7, <2>8 DEF Develops, NoneCompleted, p, f
<1> QED  BY <1>1, <1>2

\* A finished reader completes at most the folder it was accepted for.
LEMMA FinishedRequest ==
    ASSUME NEW q \in Request \cup {None}, NEW r \in Roots, NEW ticket, NEW result
    PROVE  /\ Develops(q, Finished(q, r, ticket, result))
           /\ q # None =>
                \A t \in DOMAIN q.roots : Finished(q, r, ticket, result).roots[t].complete =>
                    \/ q.roots[t].complete
                    \/ t = r /\ result = "complete" /\ Accepts(q, r, ticket)
<1>1. CASE ~Accepts(q, r, ticket)
    BY <1>1 DEF Finished, Develops
<1>2. CASE Accepts(q, r, ticket)
    <2> DEFINE f == q.roots
               x == Ended(result)
               y == [f EXCEPT ![r] = x]
               n == [q EXCEPT !.roots[r] = x]
               p == Finished(q, r, ticket, result)
    <2>1. q \in Request /\ q # None /\ q.active /\ r \in DOMAIN f
        BY <1>2 DEF Accepts
    <2>2. p = Rebuilt(n)
        BY <1>2 DEF Finished
    <2>3. f \in RootsOf
        BY <2>1 DEF Request, RootsOf
    <2>4. n = [q EXCEPT !.roots = y]
        BY <2>1 DEF Request
    <2>5. x \in Part /\ x.complete = (result = "complete")
        BY EndedPart
    <2> HIDE DEF f, x, n, p
    <2>6. y \in RootsOf /\ DOMAIN y = DOMAIN f /\ y[r] = x
            /\ \A t \in DOMAIN f \ {r} : y[t] = f[t]
        BY <2>1, <2>3, <2>5, RootsUpdate
    <2> HIDE DEF y
    <2>7. /\ n \in Request /\ n.generation = q.generation /\ n.attempted = q.attempted
          /\ n.roots = y
        BY <2>1, <2>4, <2>6 DEF Request, RootsOf
    <2>8. /\ p \in Request /\ p.generation = q.generation /\ p.attempted = q.attempted
          /\ p.roots = y
        BY <2>2, <2>7, RebuiltRequest
    <2>9. Develops(q, p)
        BY <2>1, <2>6, <2>8 DEF Develops, f
    <2>10. ASSUME NEW t \in DOMAIN f, y[t].complete
           PROVE  f[t].complete \/ (t = r /\ result = "complete")
        <3>1. CASE t = r
            <4>1. x.complete
                BY <2>6, <2>10, <3>1
            <4> QED  BY <2>5, <3>1, <4>1
        <3>2. CASE t # r
            <4>1. y[t] = f[t]
                BY <2>6, <3>2
            <4> QED  BY <2>10, <4>1
        <3> QED  BY <3>1, <3>2
    <2> QED  BY <1>2, <2>6, <2>8, <2>9, <2>10 DEF f, p
<1> QED  BY <1>1, <1>2

\* Readers that are retired complete nothing.
LEMMA RetiredRequest ==
    ASSUME NEW q \in Request \cup {None}, NEW x \in Part, ~x.complete
    PROVE  Develops(q, RetireEach(q, x)) /\ NoneCompleted(q, RetireEach(q, x))
<1>1. CASE Watching(q) = {}
    BY <1>1 DEF RetireEach, Develops, NoneCompleted
<1>2. CASE Watching(q) # {}
    <2> DEFINE f == q.roots
               W == Watching(q)
               y == [r \in DOMAIN f |-> IF r \in W THEN x ELSE f[r]]
               n == [q EXCEPT !.roots = y]
               p == RetireEach(q, x)
    <2>1. q \in Request /\ q # None /\ q.active
        BY <1>2 DEF Watching, Accepts
    <2>2. p = Rebuilt(n)
        BY <1>2 DEF RetireEach
    <2>3. f \in RootsOf
        BY <2>1 DEF Request, RootsOf
    <2> HIDE DEF f, p, W
    <2>4. y \in RootsOf /\ DOMAIN y = DOMAIN f
        BY <2>3 DEF RootsOf
    <2>5. \A t \in DOMAIN f : y[t].complete => f[t].complete
        OBVIOUS
    <2> HIDE DEF y
    <2>6. /\ n \in Request /\ n.generation = q.generation /\ n.attempted = q.attempted
          /\ n.roots = y
        BY <2>1, <2>4 DEF Request, RootsOf
    <2> HIDE DEF n
    <2>7. /\ p \in Request /\ p.generation = q.generation /\ p.attempted = q.attempted
          /\ p.roots = y
        BY <2>2, <2>6, RebuiltRequest
    <2>8. Develops(q, p)
        BY <2>1, <2>4, <2>7 DEF Develops, f
    <2> QED  BY <2>1, <2>4, <2>5, <2>7, <2>8 DEF NoneCompleted, f, p
<1> QED  BY <1>1, <1>2

\* A new request has nothing completed, and is active unless it has no folders.
LEMMA NewRequest ==
    ASSUME ScanAssumption, generation \in 0..MaxGenerations, generation < MaxGenerations,
           NEW R \in SUBSET Roots
    PROVE  /\ New(R) \in Request /\ New(R).generation = generation + 1
           /\ ~New(R).attempted /\ DOMAIN New(R).roots = R
           /\ \A r \in R : ~New(R).roots[r].complete
           /\ New(R).active <=> R # {}
<1> DEFINE y == [r \in R |-> Fresh]
           n == [generation |-> generation + 1, roots |-> y, active |-> TRUE,
                 attempted |-> FALSE, complete |-> FALSE, cancelled |-> FALSE,
                 failed |-> FALSE]
           p == New(R)
<1>1. p = Rebuilt(n)
    BY DEF New
<1>2. y \in RootsOf /\ DOMAIN y = R /\ \A r \in R : ~y[r].complete /\ ~y[r].terminal
    BY FreshPart DEF RootsOf
<1>3. generation + 1 \in 1..MaxGenerations
    BY DEF ScanAssumption
<1> HIDE DEF y, p
<1>4. n \in Request /\ n.generation = generation + 1 /\ n.attempted = FALSE /\ n.roots = y
    BY <1>2, <1>3 DEF Request, RootsOf
<1> HIDE DEF n
<1>5. /\ p \in Request /\ p.generation = n.generation /\ p.attempted = n.attempted
      /\ p.roots = y
      /\ p.active <=> \E r \in DOMAIN y : ~y[r].terminal
    BY <1>1, <1>4, RebuiltRequest
<1> QED  BY <1>2, <1>4, <1>5 DEF p


-----------------------------------------------------------------------------
(* What is saved                                                           *)

\* What has been saved fits what became of the request.
LEMMA SavedOfDeveloped ==
    ASSUME NEW S, NEW q, NEW p, NEW g, SavedOf(S, q, g), Develops(q, p)
    PROVE  SavedOf(S, p, g)
<1>1. CASE q = None
    BY <1>1 DEF Develops, SavedOf
<1>2. CASE q # None
    BY <1>2 DEF Develops, SavedOf
<1> QED  BY <1>1, <1>2

\* A request that is over may be saved, once.
LEMMA SavedOfAttempted ==
    ASSUME NEW S, NEW q \in Request, NEW g \in Nat, q # None, SavedOf(S, q, g),
           ~q.active, ~q.attempted,
           NEW T \in {S, S \cup {Outcome(q)}}, NEW a, a = [q EXCEPT !.attempted = TRUE]
    PROVE  SavedOf(T, a, g)
<1>1. /\ a.generation = q.generation /\ a.active = q.active /\ a.attempted = TRUE
      /\ a.complete = q.complete /\ a.cancelled = q.cancelled /\ a.failed = q.failed
    BY DEF Request
<1>2. Outcome(a) = Outcome(q) /\ Outcome(q).generation = g
    BY <1>1 DEF Outcome, SavedOf
<1>3. \A s \in S : s.generation # g
    BY DEF SavedOf
<1>4. \A s \in T : s \in S \/ s = Outcome(q)
    OBVIOUS
<1>5. \A s \in T : s.generation \in Nat /\ s.generation <= g
    BY <1>2, <1>4 DEF SavedOf
<1>6. \A s, t \in T : s.generation = t.generation => s = t
    BY <1>2, <1>3, <1>4 DEF SavedOf
<1>7. \A s \in T : s.generation = g => s = Outcome(a)
    BY <1>2, <1>3, <1>4
<1> QED  BY <1>1, <1>2, <1>5, <1>6, <1>7 DEF SavedOf, Outcome

\* Nothing has been saved of a request that is new.
LEMMA SavedOfNew ==
    ASSUME NEW S, NEW q, NEW g \in Nat, SavedOf(S, q, g), NEW n \in Request,
           n.generation = g + 1, ~n.attempted
    PROVE  SavedOf(S, n, g + 1)
<1>1. \A s \in S : s.generation \in Nat /\ s.generation <= g
    BY DEF SavedOf
<1>2. \A s \in S : s.generation <= g + 1 /\ s.generation # g + 1
    BY <1>1
<1>3. \A s, t \in S : s.generation = t.generation => s = t
    BY DEF SavedOf
<1> QED  BY <1>1, <1>2, <1>3 DEF SavedOf

\* What persist_foreground_summary leaves in the store fits the request.
LEMMA SavedOfSettled ==
    ASSUME ScanAssumption, NEW p \in Request \cup {None}, NEW g \in Nat,
           SavedOf(saved, p, g), Settles(p)
    PROVE  SavedOf(saved', fg', g)
<1>1. CASE fg' = p /\ saved' = saved
    BY <1>1
<1>2. CASE p # None /\ ~p.active /\ ~p.attempted /\ Persist(p)
    <2>1. fg' = [p EXCEPT !.attempted = TRUE] /\ saved' \in {saved, saved \cup {Outcome(p)}}
        BY <1>2 DEF Persist
    <2> QED  BY <1>2, <2>1, SavedOfAttempted
<1> QED  BY <1>1, <1>2 DEF Settles, Persist

\* Saving changes nothing of the request but that it was attempted.
LEMMA SettledRequest ==
    ASSUME ScanAssumption, NEW p \in Request \cup {None}, Settles(p)
    PROVE  /\ fg' \in Request \cup {None}
           /\ fg' = None <=> p = None
           /\ p # None => /\ fg'.active = p.active /\ fg'.roots = p.roots
                          /\ fg'.generation = p.generation
<1>1. CASE fg' = p
    BY <1>1
<1>2. CASE p # None /\ fg' = [p EXCEPT !.attempted = TRUE]
    <2>1. p \in Request
        BY <1>2
    <2>2. /\ fg' \in Request /\ fg'.active = p.active /\ fg'.roots = p.roots
          /\ fg'.generation = p.generation
        BY <1>2, <2>1 DEF Request
    <2>3. None \notin Request
        BY DEF ScanAssumption
    <2> QED  BY <1>2, <2>2, <2>3
<1> QED  BY <1>1, <1>2 DEF Settles, Persist

-----------------------------------------------------------------------------
(* What a step makes of the request                                        *)

\* A step that leaves the request alone.
LEMMA SameRequest ==
    ASSUME NEW q \in Request \cup {None}
    PROVE  Develops(q, q) /\ NoneCompleted(q, q)
BY DEF Develops, NoneCompleted

\* Two changes of the request in one step.
LEMMA DevelopsOn ==
    ASSUME ScanAssumption, NEW q \in Request \cup {None}, NEW p, NEW x,
           Develops(q, p), NoneCompleted(q, p), Develops(p, x), NoneCompleted(p, x)
    PROVE  Develops(q, x) /\ NoneCompleted(q, x)
<1>1. CASE q = None
    BY <1>1 DEF Develops, NoneCompleted
<1>2. CASE q # None
    <2>1. p \in Request /\ p # None
        BY <1>2 DEF Develops, ScanAssumption
    <2>2. Develops(q, x)
        BY <1>2, <2>1 DEF Develops
    <2>3. DOMAIN p.roots = DOMAIN q.roots
        BY <1>2 DEF Develops
    <2>4. NoneCompleted(q, x)
        BY <1>2, <2>1, <2>3, Zenon DEF NoneCompleted
    <2> QED  BY <2>2, <2>4
<1> QED  BY <1>1, <1>2

\* A request stays a request.
LEMMA DevelopedRequest ==
    ASSUME ScanAssumption, NEW q \in Request \cup {None}, NEW p, Develops(q, p)
    PROVE  /\ p \in Request \cup {None}
           /\ p = None <=> q = None
BY DEF Develops, ScanAssumption

\* The steps of the worker, of the cancel and of the cleanup, and events.
Quietly ==
    \/ Settle \/ FailWorker \/ \E s \in Roots \X Kinds : Admit(s)
    \/ Resume \/ Cancel \/ CancelLocked \/ BeginCleaning \/ EndCleaning
    \/ \E s \in Dirtied : Dirty(s)
    \/ UNCHANGED vars

\* They make of the request what it becomes anyhow, and complete none of it.
LEMMA QuietStep ==
    ASSUME ScanAssumption, TypeOK, Quietly
    PROVE  /\ generation' = generation
           /\ \E p : Develops(fg, p) /\ NoneCompleted(fg, p) /\ Settles(p)
<1> DEFINE Kept(p) == Develops(fg, p) /\ NoneCompleted(fg, p) /\ Settles(p)
<1>0. fg \in Request \cup {None}
    BY DEF TypeOK
<1>1. ASSUME fg' = fg, saved' = saved PROVE Kept(fg)
    BY <1>0, <1>1, SameRequest DEF Settles
<1>2. ASSUME NEW x \in BOOLEAN, Settles(Stopped(fg, x)) PROVE Kept(Stopped(fg, x))
    BY <1>0, <1>2, StoppedRequest
<1>3. ASSUME NEW x \in Part, ~x.complete, fg' = RetireEach(fg, x), saved' = saved
      PROVE  Kept(RetireEach(fg, x))
    BY <1>0, <1>3, RetiredRequest DEF Settles
<1> HIDE DEF Kept
<1>4. CASE RetireCancelled
    <2>1. Ended("cancelled") \in Part /\ ~Ended("cancelled").complete
        BY EndedPart
    <2>2. Kept(RetireEach(fg, Ended("cancelled")))
        BY <1>3, <1>4, <2>1 DEF RetireCancelled
    <2> QED  BY <1>4, <2>2 DEF RetireCancelled, Kept
<1>5. CASE RetireForCleaning
    <2>1. Kept(RetireEach(fg, Fresh))
        BY <1>3, <1>5, FreshPart DEF RetireForCleaning
    <2> QED  BY <1>5, <2>1 DEF RetireForCleaning, Kept
<1>6. CASE Drained
    <2>1. (fg' = fg /\ saved' = saved) \/ Settles(Stopped(fg, TRUE))
        BY <1>6, Zenon DEF Drained, Settles
    <2>2. Kept(fg) \/ Kept(Stopped(fg, TRUE))
        BY <1>1, <1>2, <2>1
    <2> QED  BY <1>6, <2>2 DEF Drained, Kept
<1>7. CASE Empty \/ FailWorker
    <2>1. Settles(Stopped(fg, FALSE)) /\ generation' = generation
        BY <1>7, Zenon DEF Empty, FailWorker, Settles
    <2>2. Kept(Stopped(fg, FALSE))
        BY <1>2, <2>1
    <2> QED  BY <2>1, <2>2 DEF Kept
<1>8. CASE CancelLocked
    <2>1. Kept(Stopped(fg, TRUE))
        BY <1>2, <1>8 DEF CancelLocked, Settles
    <2> QED  BY <1>8, <2>1 DEF CancelLocked, Kept
<1>9. ASSUME NEW s \in Roots \X Kinds, Admit(s)
      PROVE  generation' = generation /\ \E p : Kept(p)
    <2> DEFINE q == Claimed(fg, s)
               ticket == IF Claims(fg, s) THEN fg.generation ELSE 0
               p == Finished(q, s[1], ticket, "failed")
    <2>1. saved' = saved /\ generation' = generation /\ (fg' = q \/ fg' = p)
        BY <1>9, Zenon DEF Admit
    <2>2. Develops(fg, q) /\ NoneCompleted(fg, q)
        BY <1>0, ClaimedRequest
    <2> HIDE DEF ticket, q
    <2>3. q \in Request \cup {None}
        BY <1>0, <2>2, DevelopedRequest
    <2>4. Develops(q, p) /\ NoneCompleted(q, p)
        BY <2>3, FinishedRequest DEF NoneCompleted
    <2>5. Develops(fg, p) /\ NoneCompleted(fg, p)
        BY <1>0, <2>2, <2>4, DevelopsOn
    <2>6. Kept(q) \/ Kept(p)
        BY <2>1, <2>2, <2>5 DEF Kept, Settles
    <2> QED  BY <2>1, <2>6
<1>10. CASE \/ Resume \/ Cancel \/ BeginCleaning \/ EndCleaning
            \/ (\E s \in Dirtied : Dirty(s)) \/ UNCHANGED vars
    <2>1. fg' = fg /\ saved' = saved /\ generation' = generation
        BY <1>10 DEF Resume, Cancel, BeginCleaning, EndCleaning, Dirty, vars
    <2> QED  BY <1>1, <2>1 DEF Kept
<1> QED  BY <1>4, <1>5, <1>6, <1>7, <1>8, <1>9, <1>10 DEF Quietly, Settle, Kept

\* A launch first makes a request of what is queued, when there is none to serve.
LEMMA LaunchStep ==
    ASSUME ScanAssumption, TypeOK, NEW how \in launches, Launch(how)
    PROVE  \E q, p :
            /\ \/ q = fg /\ generation' = generation
               \/ \E R \in SUBSET Roots :
                    /\ R # {} /\ \A r \in R : <<r, "full">> \in pending
                    /\ ~paused /\ (fg # None => ~fg.active)
                    /\ generation < MaxGenerations /\ generation' = generation + 1
                    /\ q = New(R)
            /\ Develops(q, p) /\ NoneCompleted(q, p) /\ Settles(p)
            /\ \/ p = q /\ (worker' = "running" \/ (worker' = worker /\
                    (paused \/ Scanning \/ cleaning \/ pending = {})))
               \/ p # None => ~p.active
<1> DEFINE full == {r \in Roots : <<r, "full">> \in pending}
           retry == how = "explicit" /\ ~Scanning /\ fg # None /\ ~fg.active
           promotes == ~paused /\ (fg = None \/ retry) /\ full # {}
                       /\ generation < MaxGenerations
           q == IF promotes THEN New(full) ELSE fg
<1>1. /\ generation' = IF promotes THEN generation + 1 ELSE generation
      /\ \/ fg' = q /\ saved' = saved /\ worker' = "running"
         \/ fg' = q /\ saved' = saved /\ worker' = worker
              /\ (paused \/ Scanning \/ cleaning \/ pending = {})
         \/ Persist(Stopped(q, FALSE))
    BY Zenon DEF Launch
<1>2. q \in Request \cup {None}
    <2>1. CASE promotes
        BY <2>1, NewRequest DEF TypeOK
    <2>2. CASE ~promotes
        BY <2>2 DEF TypeOK
    <2> QED  BY <2>1, <2>2
<1>3. \/ q = fg /\ generation' = generation
      \/ \E R \in SUBSET Roots :
            /\ R # {} /\ \A r \in R : <<r, "full">> \in pending
            /\ ~paused /\ (fg # None => ~fg.active)
            /\ generation < MaxGenerations /\ generation' = generation + 1
            /\ q = New(R)
    <2>1. CASE promotes
        <3>1. full \in SUBSET Roots /\ full # {} /\ \A r \in full : <<r, "full">> \in pending
            BY <2>1
        <3>2. ~paused /\ (fg # None => ~fg.active) /\ generation < MaxGenerations
            BY <2>1
        <3>3. generation' = generation + 1 /\ q = New(full)
            BY <1>1, <2>1
        <3> HIDE DEF full, q
        <3> QED  BY <3>1, <3>2, <3>3
    <2>2. CASE ~promotes
        BY <1>1, <2>2
    <2> QED  BY <2>1, <2>2
<1> HIDE DEF q, promotes
<1>4. Develops(q, q) /\ NoneCompleted(q, q)
    BY <1>2, SameRequest
<1>5. /\ Develops(q, Stopped(q, FALSE)) /\ NoneCompleted(q, Stopped(q, FALSE))
      /\ Stopped(q, FALSE) # None => ~Stopped(q, FALSE).active
    BY <1>2, StoppedRequest DEF Develops
<1> DEFINE Way(x, p) ==
            /\ Develops(x, p) /\ NoneCompleted(x, p) /\ Settles(p)
            /\ \/ p = x /\ (worker' = "running" \/ (worker' = worker /\
                    (paused \/ Scanning \/ cleaning \/ pending = {})))
               \/ p # None => ~p.active
<1>6. Way(q, q) \/ Way(q, Stopped(q, FALSE))
    BY <1>1, <1>4, <1>5 DEF Settles
<1> HIDE DEF Way
<1>7. \E p : Way(q, p)
    BY <1>6
<1> QED  BY <1>3, <1>7, Zenon DEF Way

\* A helper's last event completes at most the folder it read.
LEMMA EndStep ==
    ASSUME ScanAssumption, TypeOK, NEW r \in Roots, NEW result, ScopeEnds(r, result)
    PROVE  /\ generation' = generation
           /\ \E p :
                /\ Develops(fg, p) /\ Settles(p)
                /\ fg # None => \A t \in DOMAIN fg.roots : p.roots[t].complete =>
                    \/ fg.roots[t].complete
                    \/ t = r /\ result = "complete" /\ Accepts(fg, r, active[r].ticket)
<1> DEFINE again == IF result = "changed" THEN "failed" ELSE result
           p == Finished(fg, r, active[r].ticket, again)
<1>1. Settles(p) /\ generation' = generation
    BY Zenon DEF ScopeEnds, Settles
<1>2. again = "complete" => result = "complete"
    OBVIOUS
<1> HIDE DEF again
<1>3. /\ Develops(fg, p)
      /\ fg # None => \A t \in DOMAIN fg.roots : p.roots[t].complete =>
            \/ fg.roots[t].complete
            \/ t = r /\ again = "complete" /\ Accepts(fg, r, active[r].ticket)
    BY FinishedRequest DEF TypeOK
<1> HIDE DEF p
<1> QED  BY <1>1, <1>2, <1>3

\* A new request replaces one that is over; if it stays active its folders are
\* queued and a launch follows.
LEMMA ScanStep ==
    ASSUME ScanAssumption, TypeOK, SavedAsEnded, NEW R \in Requests, Scan(R)
    PROVE  /\ generation' = generation + 1 /\ generation' \in 1..MaxGenerations
           /\ fg' \in Request /\ SavedAsEnded'
           /\ DOMAIN fg'.roots = R /\ \A r \in R : ~fg'.roots[r].complete
           /\ fg'.active => /\ pending' # {} /\ ~paused' /\ launches' # {}
<1> DEFINE g == generation + 1
           q == New(R)
           p == Stopped(q, FALSE)
           before == IF fg # None /\ ~fg.attempted THEN {saved, saved \cup {Outcome(fg)}}
                     ELSE {saved}
<1>0. /\ generation \in Nat /\ g \in Nat /\ g \in 1..MaxGenerations /\ R \in SUBSET Roots
      /\ fg \in Request \cup {None} /\ generation' = g /\ (fg # None => ~fg.active)
    BY DEF ScanAssumption, TypeOK, Scan
<1>1. /\ q \in Request /\ q.generation = g /\ ~q.attempted /\ DOMAIN q.roots = R
      /\ \A r \in R : ~q.roots[r].complete
      /\ q.active <=> R # {}
    BY <1>0, NewRequest DEF TypeOK, Scan
<1>2. \/ /\ pending' = pending \cup (R \X {"full"})
         /\ fg' = [q EXCEPT !.attempted = ~q.active]
         /\ saved' \in IF q.active THEN before
                       ELSE before \cup {b \cup {Outcome(q)} : b \in before}
         /\ paused' = FALSE /\ launches' = launches \cup {"explicit"}
      \/ /\ fg' = [p EXCEPT !.attempted = TRUE]
         /\ saved' \in before \cup {b \cup {Outcome(p)} : b \in before}
    BY Zenon DEF Scan
<1> HIDE DEF q
<1>3. /\ Develops(q, p) /\ NoneCompleted(q, p) /\ p \in Request /\ ~p.active
      /\ p.generation = g /\ ~p.attempted /\ DOMAIN p.roots = R
      /\ \A r \in R : ~p.roots[r].complete
    <2>1. Develops(q, p) /\ NoneCompleted(q, p) /\ (q # None => ~p.active)
        BY <1>1, StoppedRequest
    <2>2. q # None
        BY <1>1 DEF ScanAssumption
    <2> HIDE DEF p
    <2> QED  BY <1>1, <2>1, <2>2 DEF Develops, NoneCompleted
<1> HIDE DEF p, g
<1>4. ASSUME NEW b \in before PROVE SavedOf(b, q, g) /\ SavedOf(b, p, g)
    <2>1. SavedOf(saved, fg, generation)
        BY DEF SavedAsEnded
    <2>2. \E x : SavedOf(b, x, generation)
        <3>1. CASE b = saved
            BY <2>1, <3>1
        <3>2. CASE fg # None /\ ~fg.attempted /\ b = saved \cup {Outcome(fg)}
            BY <1>0, <2>1, <3>2, SavedOfAttempted
        <3> QED  BY <1>4, <3>1, <3>2
    <2>3. SavedOf(b, q, g)
        BY <1>0, <1>1, <2>2, SavedOfNew DEF g
    <2> QED  BY <1>3, <2>3, SavedOfDeveloped
<1>5. ASSUME NEW x \in Request, x # None, ~x.active, ~x.attempted, NEW b \in before,
             SavedOf(b, x, g), NEW T \in {b, b \cup {Outcome(x)}},
             NEW a, a = [x EXCEPT !.attempted = TRUE]
      PROVE  SavedOf(T, a, g)
    BY <1>0, <1>5, SavedOfAttempted
<1> HIDE DEF before
<1>6. q # None /\ p # None
    BY <1>1, <1>3 DEF ScanAssumption
<1>7. CASE /\ fg' = [q EXCEPT !.attempted = ~q.active] /\ q.active /\ saved' \in before
           /\ pending' = pending \cup (R \X {"full"})
           /\ paused' = FALSE /\ launches' = launches \cup {"explicit"}
    <2>1. /\ fg' \in Request /\ fg'.roots = q.roots /\ fg'.generation = q.generation
          /\ ~fg'.attempted /\ fg'.active = q.active
        BY <1>1, <1>7 DEF Request
    <2>2. SavedOf(saved', q, g)
        BY <1>4, <1>7
    <2>3. SavedOf(saved', fg', g)
        BY <1>1, <1>6, <2>1, <2>2 DEF SavedOf
    <2>4. PICK r \in R : TRUE
        BY <1>1, <1>7
    <2>5. <<r, "full">> \in pending'
        BY <1>7, <2>4
    <2> QED  BY <1>0, <1>1, <1>7, <2>1, <2>3, <2>5 DEF SavedAsEnded, g
<1>8. CASE /\ fg' = [q EXCEPT !.attempted = ~q.active] /\ ~q.active
           /\ saved' \in before \cup {b \cup {Outcome(q)} : b \in before}
    <2>1. fg' = [q EXCEPT !.attempted = TRUE]
        BY <1>8
    <2>2. /\ fg' \in Request /\ fg'.roots = q.roots /\ ~fg'.active
        BY <1>1, <1>8, <2>1 DEF Request
    <2>3. PICK b \in before : saved' \in {b, b \cup {Outcome(q)}}
        BY <1>8
    <2>4. SavedOf(saved', fg', g)
        BY <1>1, <1>4, <1>5, <1>6, <1>8, <2>1, <2>3
    <2> QED  BY <1>0, <1>1, <2>2, <2>4 DEF SavedAsEnded, g
<1>9. CASE /\ fg' = [p EXCEPT !.attempted = TRUE]
           /\ saved' \in before \cup {b \cup {Outcome(p)} : b \in before}
    <2>1. /\ fg' \in Request /\ fg'.roots = p.roots /\ ~fg'.active
        BY <1>3, <1>9 DEF Request
    <2>2. PICK b \in before : saved' \in {b, b \cup {Outcome(p)}}
        BY <1>9
    <2>3. SavedOf(saved', fg', g)
        BY <1>3, <1>4, <1>5, <1>6, <1>9, <2>2
    <2> QED  BY <1>0, <1>3, <2>1, <2>3 DEF SavedAsEnded, g
<1> QED  BY <1>2, <1>7, <1>8, <1>9, Zenon

-----------------------------------------------------------------------------
(* The invariant                                                           *)

\* A step continues the request of before, or makes a new one.
LEMMA Steps ==
    ASSUME [Next]_vars
    PROVE  \/ Quietly
           \/ \E r \in Roots : \E result \in {"complete", "partial", "failed", "changed"} :
                ScopeEnds(r, result)
           \/ \E how \in launches : Launch(how)
           \/ \E R \in Requests : Scan(R)
BY Zenon DEF Next, Quietly, Ends

\* Every step keeps the type of the request and what has been saved of it.
LEMMA RequestStep ==
    ASSUME ScanAssumption, TypeOK, SavedAsEnded, [Next]_vars
    PROVE  fg' \in Request \cup {None} /\ generation' \in 0..MaxGenerations /\ SavedAsEnded'
<1>0. fg \in Request \cup {None} /\ generation \in Nat /\ generation \in 0..MaxGenerations
    BY DEF TypeOK
<1>1. ASSUME NEW q \in Request \cup {None}, NEW p, NEW g \in 0..MaxGenerations,
             SavedOf(saved, q, g), Develops(q, p), Settles(p), generation' = g
      PROVE  fg' \in Request \cup {None} /\ generation' \in 0..MaxGenerations /\ SavedAsEnded'
    <2>1. p \in Request \cup {None} /\ g \in Nat
        BY <1>1, DevelopedRequest
    <2>2. SavedOf(saved, p, g)
        BY <1>1, SavedOfDeveloped
    <2>3. SavedOf(saved', fg', g)
        BY <1>1, <2>1, <2>2, SavedOfSettled
    <2>4. fg' \in Request \cup {None}
        BY <1>1, <2>1, SettledRequest
    <2> QED  BY <1>1, <2>3, <2>4 DEF SavedAsEnded
<1>2. CASE Quietly
    <2>1. generation' = generation /\ \E p : Develops(fg, p) /\ Settles(p)
        BY <1>2, QuietStep
    <2> QED  BY <1>0, <1>1, <2>1 DEF SavedAsEnded
<1>3. ASSUME NEW r \in Roots, NEW result, ScopeEnds(r, result)
      PROVE  fg' \in Request \cup {None} /\ generation' \in 0..MaxGenerations /\ SavedAsEnded'
    <2>1. generation' = generation /\ \E p : Develops(fg, p) /\ Settles(p)
        BY <1>3, EndStep
    <2> QED  BY <1>0, <1>1, <2>1 DEF SavedAsEnded
<1>4. ASSUME NEW how \in launches, Launch(how)
      PROVE  fg' \in Request \cup {None} /\ generation' \in 0..MaxGenerations /\ SavedAsEnded'
    <2>1. PICK q, p :
            /\ \/ q = fg /\ generation' = generation
               \/ \E R \in SUBSET Roots :
                    /\ generation < MaxGenerations /\ generation' = generation + 1
                    /\ q = New(R)
            /\ Develops(q, p) /\ Settles(p)
        BY <1>4, LaunchStep
    <2>2. CASE q = fg /\ generation' = generation
        BY <1>0, <1>1, <2>1, <2>2 DEF SavedAsEnded
    <2>3. CASE \E R \in SUBSET Roots :
                    /\ generation < MaxGenerations /\ generation' = generation + 1
                    /\ q = New(R)
        <3>1. q \in Request /\ q.generation = generation + 1 /\ ~q.attempted
            BY <1>0, <2>3, NewRequest
        <3>2. SavedOf(saved, q, generation + 1)
            BY <1>0, <3>1, SavedOfNew DEF SavedAsEnded
        <3>3. generation + 1 \in 0..MaxGenerations
            BY <1>0, <2>3 DEF ScanAssumption
        <3> QED  BY <1>1, <2>1, <2>3, <3>1, <3>2, <3>3
    <2> QED  BY <2>1, <2>2, <2>3
<1>5. ASSUME NEW R \in Requests, Scan(R)
      PROVE  fg' \in Request \cup {None} /\ generation' \in 0..MaxGenerations /\ SavedAsEnded'
    BY <1>5, ScanStep
<1> QED  BY <1>2, <1>3, <1>4, <1>5, Steps

\* The rest of the state: what is read, what is queued, and the flags.
LEMMA TypeStep ==
    ASSUME ScanAssumption, TypeOK, SavedAsEnded, [Next]_vars
    PROVE  TypeOK'
<1> DEFINE Rest == /\ worker \in {"none", "running", "draining"}
                   /\ active \in [Roots -> Reader \cup {None}]
                   /\ pending \subseteq Roots \X Kinds
                   /\ stop \in {"no", "changed", "failed"}
                   /\ cancel \in BOOLEAN /\ paused \in BOOLEAN
                   /\ resumeCancelled \in BOOLEAN
                   /\ cancelling \in BOOLEAN /\ cleaning \in BOOLEAN
                   /\ launches \subseteq {"explicit", "background"}
<1>0. Rest
    BY DEF TypeOK
<1>1. /\ RetiredScopes \subseteq Roots \X Kinds
      /\ [r \in Roots |-> None] \in [Roots -> Reader \cup {None}]
    BY <1>0 DEF RetiredScopes, Reading, Reader
<1>2. ASSUME RetireCancelled PROVE Rest'
    BY <1>0, <1>1, <1>2 DEF RetireCancelled, flags
<1>3. ASSUME Drained PROVE Rest'
    BY <1>0, <1>3 DEF Drained, work
<1>4. ASSUME RetireForCleaning PROVE Rest'
    BY <1>0, <1>1, <1>4 DEF RetireForCleaning, flags
<1>5. ASSUME Empty PROVE Rest'
    BY <1>0, <1>5 DEF Empty, flags
<1>6. ASSUME FailWorker PROVE Rest'
    BY <1>0, <1>1, <1>6 DEF FailWorker
<1>7. ASSUME NEW s \in Roots \X Kinds, Admit(s) PROVE Rest'
    <2> DEFINE ticket == IF Claims(fg, s) THEN fg.generation ELSE 0
    <2>1. ticket \in 0..MaxGenerations
        BY DEF TypeOK, Request, Claims, ScanAssumption
    <2> DEFINE x == [kind |-> s[2], ticket |-> ticket]
    <2>2. x \in Reader
        BY <2>1 DEF Reader
    <2>3. /\ pending' \subseteq pending
          /\ active' = active \/ active' = [active EXCEPT ![s[1]] = x]
          /\ stop' = stop \/ stop' = "failed"
          /\ UNCHANGED <<worker, flags, launches>>
        BY <1>7, Zenon DEF Admit
    <2> HIDE DEF x
    <2> QED  BY <1>0, <2>2, <2>3 DEF flags
<1>8. ASSUME NEW r \in Roots, NEW result, ScopeEnds(r, result) PROVE Rest'
    <2>1. /\ pending' = pending \/ pending' = pending \cup {<<r, active[r].kind>>}
          /\ stop' \in {stop, "changed", "failed"}
          /\ active' = [active EXCEPT ![r] = None]
          /\ active[r] # None
          /\ UNCHANGED <<worker, flags, launches>>
        BY <1>8 DEF ScopeEnds
    <2>2. active[r].kind \in Kinds
        BY <1>0, <2>1 DEF Reader
    <2> QED  BY <1>0, <2>1, <2>2 DEF flags
<1>9. ASSUME NEW R \in Requests, Scan(R) PROVE Rest'
    <2>1. /\ pending' = pending \/ pending' = pending \cup (R \X {"full"})
          /\ resumeCancelled' \in BOOLEAN \/ resumeCancelled' = resumeCancelled
          /\ paused' \in BOOLEAN \/ paused' = paused
          /\ launches' = launches \/ launches' = launches \cup {"explicit"}
          /\ UNCHANGED <<worker, active, stop, cancel, cancelling, cleaning>>
        BY <1>0, <1>9 DEF Scan
    <2>2. R \subseteq Roots
        BY DEF ScanAssumption
    <2> QED  BY <1>0, <2>1, <2>2 DEF Kinds
<1>10. ASSUME Resume \/ Cancel \/ CancelLocked \/ BeginCleaning \/ EndCleaning PROVE Rest'
    BY <1>0, <1>10 DEF Resume, Cancel, CancelLocked, BeginCleaning, EndCleaning, work
<1>11. ASSUME NEW s \in Dirtied, Dirty(s) PROVE Rest'
    BY <1>0, <1>11 DEF Dirty, flags, ScanAssumption
<1>12. ASSUME NEW how \in launches, Launch(how) PROVE Rest'
    <2>1. /\ worker' = worker \/ worker' = "running"
          /\ stop' = stop \/ stop' = "no"
          /\ cancel' = cancel \/ cancel' = FALSE
          /\ resumeCancelled' = resumeCancelled \/ resumeCancelled' = FALSE
          /\ launches' \subseteq launches
          /\ UNCHANGED <<active, pending, paused, cancelling, cleaning>>
        BY <1>12, Zenon DEF Launch
    <2> QED  BY <1>0, <2>1
<1>13. ASSUME UNCHANGED vars PROVE Rest'
    BY <1>0, <1>13 DEF vars, work, flags
<1> HIDE DEF Rest
<1>14. Rest'
    BY Zenon, <1>2, <1>3, <1>4, <1>5, <1>6, <1>7, <1>8, <1>9, <1>10, <1>11, <1>12, <1>13
        DEF Next, Settle, Ends
<1> QED  BY <1>14, RequestStep DEF TypeOK, Rest

\* Tickets are given for whole folders only, and kept with their reader.
LEMMA TicketStep ==
    ASSUME ScanAssumption, TypeOK, TicketsAreFull, [Next]_vars
    PROVE  TicketsAreFull'
<1>1. ASSUME NEW s \in Roots \X Kinds, Admit(s) PROVE TicketsAreFull'
    <2> DEFINE ticket == IF Claims(fg, s) THEN fg.generation ELSE 0
               x == [kind |-> s[2], ticket |-> ticket]
    <2>1. active' = active \/ active' = [active EXCEPT ![s[1]] = x]
        BY <1>1, Zenon DEF Admit
    <2>2. x.kind = "part" => x.ticket = 0
        BY DEF Claims
    <2> HIDE DEF x
    <2> QED  BY <2>1, <2>2 DEF TicketsAreFull, TypeOK
<1>2. ASSUME NEW r \in Roots, NEW result, ScopeEnds(r, result) PROVE TicketsAreFull'
    <2>1. active' = [active EXCEPT ![r] = None]
        BY <1>2 DEF ScopeEnds
    <2> QED  BY <2>1 DEF TicketsAreFull, TypeOK
<1>3. ASSUME RetireCancelled \/ RetireForCleaning \/ FailWorker PROVE TicketsAreFull'
    BY <1>3 DEF RetireCancelled, RetireForCleaning, FailWorker, TicketsAreFull
<1>4. ASSUME UNCHANGED active PROVE TicketsAreFull'
    BY <1>4 DEF TicketsAreFull
<1>5. ASSUME \/ Drained \/ Empty \/ Resume \/ Cancel \/ CancelLocked \/ BeginCleaning
             \/ EndCleaning \/ (\E s \in Dirtied : Dirty(s)) \/ (\E R \in Requests : Scan(R))
             \/ (\E how \in launches : Launch(how)) \/ UNCHANGED vars
      PROVE  UNCHANGED active
    BY <1>5 DEF Drained, Empty, Resume, Cancel, CancelLocked, BeginCleaning, EndCleaning,
                Dirty, Scan, Launch, vars, work
<1> QED  BY <1>1, <1>2, <1>3, <1>4, <1>5, Zenon DEF Next, Settle, Ends

\* Nothing but a new request becomes active.
LEMMA ActiveBefore ==
    ASSUME ScanAssumption, TypeOK,
           Quietly \/ \E r \in Roots : \E result : ScopeEnds(r, result),
           fg' # None, fg'.active
    PROVE  fg # None /\ fg.active
<1>1. \E p : Develops(fg, p) /\ Settles(p)
    BY QuietStep, EndStep
<1>2. PICK p : Develops(fg, p) /\ Settles(p)
    BY <1>1
<1>3. p \in Request \cup {None} /\ (p = None <=> fg = None)
    BY <1>2, DevelopedRequest DEF TypeOK
<1>4. p # None /\ fg'.active = p.active
    BY <1>2, <1>3, SettledRequest
<1> QED  BY <1>2, <1>3, <1>4 DEF Develops

\* A request that stays active without a worker is waited for: its folders are
\* queued, and a launch, a cleanup or a cancel is under way.
LEMMA WaitStep ==
    ASSUME ScanAssumption, TypeOK, SavedAsEnded, WaitingIsQueued, ActiveIsServed, [Next]_vars
    PROVE  WaitingIsQueued' /\ ActiveIsServed'
<1> DEFINE Waits == WaitingIsQueued /\ ActiveIsServed
<1>0. ASSUME fg' # None => ~fg'.active PROVE Waits'
    BY <1>0 DEF WaitingIsQueued, ActiveIsServed
<1>1. ASSUME Drained \/ Empty \/ FailWorker \/ CancelLocked, fg' # None, fg'.active
      PROVE  Drained /\ ~paused /\ paused' = paused /\ worker' = "running"
    <2>1. ASSUME NEW x \in BOOLEAN, Settles(Stopped(fg, x)) PROVE FALSE
        <3>1. Develops(fg, Stopped(fg, x)) /\ (fg # None => ~Stopped(fg, x).active)
            BY StoppedRequest DEF TypeOK
        <3>2. /\ Stopped(fg, x) \in Request \cup {None}
              /\ Stopped(fg, x) = None <=> fg = None
            BY <3>1, DevelopedRequest DEF TypeOK
        <3> QED  BY <1>1, <2>1, <3>1, <3>2, SettledRequest
    <2>2. ~(Empty \/ FailWorker)
        BY <2>1, Zenon DEF Empty, FailWorker, Settles
    <2>3. ~CancelLocked
        BY <2>1, Zenon DEF CancelLocked, Settles
    <2> QED  BY <1>1, <2>1, <2>2, <2>3, Zenon DEF Drained, Settles
<1>2. ASSUME Quietly, fg' # None, fg'.active PROVE Waits'
    <2>0. fg # None /\ fg.active
        BY <1>2, ActiveBefore
    <2>1. CASE Drained \/ Empty \/ FailWorker \/ CancelLocked
        BY <1>1, <1>2, <2>1 DEF WaitingIsQueued, ActiveIsServed, Scanning
    <2>2. CASE RetireCancelled \/ RetireForCleaning \/ \E s \in Roots \X Kinds : Admit(s)
        <3>1. worker' # "none" /\ UNCHANGED <<paused, cancelling>>
            BY <2>2 DEF RetireCancelled, RetireForCleaning, Admit, flags
        <3> QED  BY <2>0, <3>1 DEF WaitingIsQueued, ActiveIsServed, Scanning
    <2>3. CASE Resume
        BY <2>0, <2>3 DEF Resume, WaitingIsQueued, ActiveIsServed, Scanning, work
    <2>4. CASE Cancel \/ BeginCleaning \/ EndCleaning
        BY <2>0, <2>4 DEF Cancel, BeginCleaning, EndCleaning, WaitingIsQueued, ActiveIsServed,
            Scanning, work
    <2>5. CASE \E s \in Dirtied : Dirty(s)
        BY <2>0, <2>5 DEF Dirty, WaitingIsQueued, ActiveIsServed, Scanning, flags
    <2>6. CASE UNCHANGED vars
        BY <2>6 DEF vars, work, flags, WaitingIsQueued, ActiveIsServed, Scanning
    <2> QED  BY <1>2, <2>1, <2>2, <2>3, <2>4, <2>5, <2>6, Zenon DEF Quietly, Settle
<1>3. ASSUME NEW r \in Roots, NEW result, ScopeEnds(r, result), fg' # None, fg'.active
      PROVE  Waits'
    <2>1. fg # None /\ fg.active
        BY <1>3, ActiveBefore
    <2>2. worker' # "none" /\ UNCHANGED <<paused, cancelling>>
        BY <1>3 DEF ScopeEnds, MayPublish, flags
    <2> QED  BY <2>1, <2>2 DEF WaitingIsQueued, ActiveIsServed, Scanning
<1>4. ASSUME NEW how \in launches, Launch(how), fg' # None, fg'.active PROVE Waits'
    <2>0. UNCHANGED <<pending, paused, cancelling, cleaning>>
        BY <1>4 DEF Launch
    <2>1. PICK q, p :
            /\ \/ q = fg
               \/ \E R \in SUBSET Roots :
                    /\ R # {} /\ \A r \in R : <<r, "full">> \in pending
                    /\ ~paused
                    /\ generation < MaxGenerations
                    /\ q = New(R)
            /\ Develops(q, p) /\ Settles(p)
            /\ \/ p = q /\ (worker' = "running" \/ (worker' = worker /\
                    (paused \/ Scanning \/ cleaning \/ pending = {})))
               \/ p # None => ~p.active
        BY <1>4, LaunchStep
    <2>2. q \in Request \cup {None}
        BY <2>1, NewRequest DEF TypeOK
    <2>3. p # None /\ p.active
        <3>1. p \in Request \cup {None}
            BY <2>1, <2>2, DevelopedRequest
        <3> QED  BY <1>4, <2>1, <3>1, SettledRequest
    <2>4. p = q /\ (worker' = "running" \/ (worker' = worker /\
                    (paused \/ Scanning \/ cleaning \/ pending = {})))
        BY <2>1, <2>3
    <2>5. CASE q = fg
        BY <2>0, <2>3, <2>4, <2>5 DEF WaitingIsQueued, ActiveIsServed, Scanning
    <2>6. CASE ~paused /\ pending # {}
        BY <2>0, <2>4, <2>6 DEF WaitingIsQueued, ActiveIsServed, Scanning
    <2> QED  BY <2>1, <2>5, <2>6
<1>5. ASSUME NEW R \in Requests, Scan(R), fg' # None, fg'.active PROVE Waits'
    BY <1>5, ScanStep DEF WaitingIsQueued, ActiveIsServed
<1> HIDE DEF Waits
<1>6. Waits'
    BY <1>0, <1>2, <1>3, <1>4, <1>5, Steps
<1> QED  BY <1>6 DEF Waits

\* Nothing is shown, queued or read at first.
LEMMA InvInit == ASSUME ScanAssumption, Init PROVE ScanInv
<1>1. TypeOK
    <2>1. active \in [Roots -> Reader \cup {None}]
        BY DEF Init
    <2>2. generation \in 0..MaxGenerations
        BY DEF Init, ScanAssumption
    <2> QED  BY <2>1, <2>2 DEF Init, TypeOK
<1> QED  BY <1>1 DEF Init, ScanInv, SavedAsEnded, SavedOf, TicketsAreFull, WaitingIsQueued,
            ActiveIsServed

\* Each part of the invariant has its lemma.
LEMMA InvNext == ASSUME ScanAssumption, ScanInv, [Next]_vars PROVE ScanInv'
BY TypeStep, RequestStep, TicketStep, WaitStep DEF ScanInv

\* The inductive invariant: the shape of the request and its worker, what has been
\* saved, who has a ticket, and who will end a request that has no worker.
THEOREM ScanInvariant == ASSUME ScanAssumption PROVE Spec => []ScanInv
<1>1. Init => ScanInv
    BY InvInit
<1>2. ScanInv /\ [Next]_vars => ScanInv'
    BY InvNext
<1> QED  BY <1>1, <1>2, PTL DEF Spec

\* The request, its folders, the readers and the flags keep their types.
THEOREM ScanTypeCorrect == ASSUME ScanAssumption PROVE Spec => []TypeOK
<1>1. ScanInv => TypeOK
    BY DEF ScanInv
<1> QED  BY <1>1, ScanInvariant, PTL

\* A request is saved once, and as it ended.
THEOREM SavesOnce == ASSUME ScanAssumption PROVE Spec => []SavedOnce
<1>1. ScanInv => SavedOnce
    BY DEF ScanInv, SavedAsEnded, SavedOf, SavedOnce
<1> QED  BY <1>1, ScanInvariant, PTL

\* A request that shows "scanning" has somebody who ends it.
THEOREM ServesTheActive == ASSUME ScanAssumption PROVE Spec => []ActiveIsServed
<1>1. ScanInv => ActiveIsServed
    BY DEF ScanInv
<1> QED  BY <1>1, ScanInvariant, PTL

-----------------------------------------------------------------------------
(* Who completes a folder                                                  *)

\* Only the end of a reader can complete a folder, and only its own.
LEMMA CompletionStep ==
    ASSUME ScanAssumption, ScanInv, [Next]_vars
    PROVE  CompletedByItsReader
<1> DEFINE Done(q, r) == q # None /\ r \in DOMAIN q.roots /\ q.roots[r].complete
<1> SUFFICES ASSUME NEW r \in Roots, Done(fg', r),
                    ~(Done(fg, r) /\ fg.generation = fg'.generation)
             PROVE  /\ active[r] # None /\ active[r].kind = "full"
                    /\ active[r].ticket = fg'.generation
                    /\ <<r, "full">> \notin pending' \ pending
    BY DEF CompletedByItsReader
<1>0. fg \in Request \cup {None}
    BY DEF ScanInv, TypeOK
\* What a settled request has completed, it had completed before it was saved.
<1>1. ASSUME NEW q \in Request \cup {None}, NEW p, Develops(q, p), Settles(p)
      PROVE  /\ q # None /\ p # None /\ q.generation = fg'.generation
             /\ r \in DOMAIN q.roots /\ p.roots[r].complete
    <2>1. p \in Request \cup {None} /\ (p = None <=> q = None)
        BY <1>1, DevelopedRequest
    <2>2. p # None /\ fg'.roots = p.roots /\ fg'.generation = p.generation
        BY <1>1, <2>1, SettledRequest
    <2> QED  BY <1>1, <2>1, <2>2 DEF Develops
<1>2. ASSUME NEW q \in Request \cup {None}, NEW p, Develops(q, p), NoneCompleted(q, p),
             Settles(p)
      PROVE  Done(q, r) /\ q.generation = fg'.generation
    BY <1>1, <1>2 DEF NoneCompleted
<1>3. CASE Quietly
    <2>1. PICK p : Develops(fg, p) /\ NoneCompleted(fg, p) /\ Settles(p)
        BY <1>3, QuietStep DEF ScanInv
    <2> QED  BY <1>0, <1>2, <2>1
<1>4. ASSUME NEW how \in launches, Launch(how) PROVE FALSE
    <2>1. PICK q, p :
            /\ \/ q = fg
               \/ \E R \in SUBSET Roots : generation < MaxGenerations /\ q = New(R)
            /\ Develops(q, p) /\ NoneCompleted(q, p) /\ Settles(p)
        BY <1>4, LaunchStep DEF ScanInv
    <2>2. CASE q = fg
        BY <1>0, <1>2, <2>1, <2>2
    <2>3. ASSUME NEW R \in SUBSET Roots, generation < MaxGenerations, q = New(R) PROVE FALSE
        <3>1. q \in Request /\ DOMAIN q.roots = R /\ \A t \in R : ~q.roots[t].complete
            BY <2>3, NewRequest DEF ScanInv, TypeOK
        <3>2. Done(q, r)
            BY <1>2, <2>1, <3>1
        <3> QED  BY <3>1, <3>2
    <2> QED  BY <2>1, <2>2, <2>3
<1>5. ASSUME NEW R \in Requests, Scan(R) PROVE FALSE
    <2>1. DOMAIN fg'.roots = R /\ \A t \in R : ~fg'.roots[t].complete
        BY <1>5, ScanStep DEF ScanInv
    <2> QED  BY <2>1
<1>6. ASSUME NEW s \in Roots, NEW result \in {"complete", "partial", "failed", "changed"},
             ScopeEnds(s, result)
      PROVE  /\ active[r] # None /\ active[r].kind = "full"
             /\ active[r].ticket = fg'.generation
             /\ <<r, "full">> \notin pending' \ pending
    <2>1. PICK p :
            /\ Develops(fg, p) /\ Settles(p)
            /\ fg # None => \A t \in DOMAIN fg.roots : p.roots[t].complete =>
                \/ fg.roots[t].complete
                \/ t = s /\ result = "complete" /\ Accepts(fg, s, active[s].ticket)
        BY <1>6, EndStep DEF ScanInv
    <2>2. /\ fg # None /\ fg.generation = fg'.generation
          /\ r \in DOMAIN fg.roots /\ p.roots[r].complete
        BY <1>0, <1>1, <2>1
    <2>3. r = s /\ result = "complete" /\ Accepts(fg, s, active[s].ticket)
        BY <2>1, <2>2
    <2>4. active[r].ticket = fg'.generation /\ active[r] # None
        BY <1>6, <2>2, <2>3 DEF Accepts, ScopeEnds
    <2>5. active[r].ticket # 0
        BY <1>0, <2>2, <2>4 DEF Request
    <2>6. active[r] \in Reader
        BY <2>4 DEF ScanInv, TypeOK
    <2>7. active[r].kind = "full"
        BY <2>4, <2>5, <2>6 DEF ScanInv, TicketsAreFull, Reader, Kinds
    <2>8. pending' = pending
        BY <1>6, <2>3 DEF ScopeEnds
    <2> QED  BY <2>4, <2>7, <2>8
<1> QED  BY <1>3, <1>4, <1>5, <1>6, Steps

\* A folder of the request is completed only in the last step of its own reader,
\* admitted for this request and for the whole folder.
THEOREM CompletesByReaders == ASSUME ScanAssumption PROVE Spec => CompletionIsEarned
<1>1. ScanInv /\ [Next]_vars => [CompletedByItsReader]_vars
    BY CompletionStep
<1> QED  BY <1>1, ScanInvariant, PTL DEF Spec, CompletionIsEarned

-----------------------------------------------------------------------------
(* What is read through a path (PinnedRead)                                *)

CONSTANTS MaxChanges, MaxManifest
VARIABLES leads, holds, contents, version, now, task, at, round, parent, initial, child,
          before, bytes, been, broken

Pinned == INSTANCE PinnedRead

\* What a version is of.
Objects == Pinned!Folders \cup Pinned!Files
\* Nobody has touched an object since it was described so.
Since(o, v) == version[o] = v

\* The file system.
WorldTyped ==
    /\ leads \in Pinned!Folders \cup {None}
    /\ holds \in [Pinned!Folders -> [Pinned!Spellings -> Pinned!Files \cup {None}]]
    /\ contents \in [Pinned!Files -> Seq(Nat)]
    /\ now \in Nat /\ version \in [Objects -> Nat]
    /\ \A o \in Objects : version[o] <= now
\* The volume keeps one spelling of a name.
OneSpelling ==
    \A d \in Pinned!Folders : holds[d]["exact"] = None \/ holds[d]["other case"] = None
\* What a lookup of the path finds.
FoundAtPath == IF leads = None THEN None ELSE Pinned!Found(leads)
\* What is at the path now has been there.
NowHasBeen ==
    task = "file" /\ FoundAtPath # None =>
        [object |-> FoundAtPath, version |-> version[FoundAtPath],
         contents |-> contents[FoundAtPath]] \in been

\* Where the two readers are, and where a file has been described.
FilePlaces == {"open parent", "stat file", "open file", "read", "stat again", "path", "name"}
Described == {"open file", "read", "stat again", "path", "name"}
ChildPlaces == {"scope", "open", "list", "stat", "listed", "confirm", "observed", "reopen"}
\* Which reader is where.
PlacesFit ==
    /\ task \in {"none", "file", "child"}
    /\ task = "none" => at = "idle" /\ bytes = <<>> /\ ~broken /\ round = 1
    /\ task = "file" => at \in FilePlaces \cup {"failed", "done"}
    /\ task = "child" => at \in ChildPlaces \cup {"failed", "done"}

\* The bytes were at the path, of the file that was described.
Witnessed ==
    \E b \in been : b.object = before.object /\ b.version = before.version /\ b.contents = bytes
\* What was read of the file is what it holds.
ReadSoFar ==
    /\ Pinned!Found(parent) = before.object
    /\ before.size = Len(contents[before.object])
    /\ Len(bytes) <= before.size
    /\ \A k \in 1..Len(bytes) : bytes[k] = contents[before.object][k]
\* As long as the file is as it was described, it is under the name as it was read.
FileIsPinned ==
    /\ at \in {"open parent", "stat file", "open file"} => bytes = <<>>
    /\ at \in Described \cup {"stat file"} => parent \in Pinned!Folders
    /\ at \in Described =>
          /\ before.object \in Pinned!Files
          /\ before.version \in Nat /\ before.version <= now
          /\ bytes \in Seq(Nat)
          /\ Since(before.object, before.version) =>
                /\ ReadSoFar
                /\ at \in {"stat again", "path", "name"} => Len(bytes) = before.size
                /\ at = "name" => Witnessed
    /\ at = "done" => Witnessed

\* As long as the folder is as it was described, its child is what was found out.
ChildIsPinned ==
    /\ at # "failed" /\ ~Pinned!Knows => ~broken
    /\ round \in {1, 2}
    /\ at \in {"open", "list", "stat", "listed", "confirm", "reopen"} => parent # None
    /\ at = "scope" => round = 1
    /\ at = "observed" => round = 2
    /\ at \in ChildPlaces \ {"scope"} /\ parent # None =>
          /\ parent \in Pinned!Folders
          /\ initial = [object |-> parent, version |-> initial.version, size |-> 0]
          /\ initial.version \in Nat /\ initial.version <= now
          /\ Since(parent, initial.version) =>
                /\ Pinned!Knows => ~broken /\ child = Pinned!Exact(parent)
                /\ at = "stat" => Pinned!Exact(parent) # None
                /\ at = "listed" =>
                      Pinned!Exact(parent) = IF before = None THEN None ELSE before.object
    /\ at = "done" => ~broken /\ leads = parent

\* The invariant.
PinnedInv ==
    /\ WorldTyped /\ OneSpelling /\ PlacesFit /\ NowHasBeen
    /\ task = "file" => FileIsPinned
    /\ task = "child" => ChildIsPinned

\* What a file or a folder is described by (its identity, timestamps and size).
Descriptions == [object : Objects, version : Nat, size : Nat]

\* None is neither a file, a folder nor a description of one.
PinnedAssumption == None \notin {"p", "q", "f", "g"} /\ None \notin Descriptions

\* Nothing is two of them.
LEMMA PinnedNames ==
    ASSUME PinnedAssumption
    PROVE  /\ None \notin Pinned!Folders /\ None \notin Pinned!Files
           /\ \A d \in Pinned!Folders : d \notin Pinned!Files
           /\ Pinned!Spellings = {"exact", "other case"}
           /\ "p" \in Pinned!Folders /\ "f" \in Pinned!Files
BY DEF PinnedAssumption, Pinned!Folders, Pinned!Files, Pinned!Spellings

\* A lookup finds the one file that is there, however it is spelled.
LEMMA FoundIsHeld ==
    ASSUME PinnedAssumption, WorldTyped, OneSpelling, NEW d \in Pinned!Folders
    PROVE  /\ Pinned!Found(d) \in Pinned!Files \cup {None}
           /\ \A s \in Pinned!Spellings : holds[d][s] # None => Pinned!Found(d) = holds[d][s]
           /\ (\A s \in Pinned!Spellings : holds[d][s] = None) => Pinned!Found(d) = None
<1>1. holds[d] \in [Pinned!Spellings -> Pinned!Files \cup {None}]
  BY DEF WorldTyped
<1>2. ASSUME NEW s \in Pinned!Spellings, holds[d][s] # None
      PROVE  Pinned!Found(d) = holds[d][s]
  <2>1. \A r \in Pinned!Spellings : holds[d][r] # None => r = s
    <3>1. s = "exact" \/ s = "other case"  BY PinnedNames
    <3>2. \A r \in Pinned!Spellings : r = "exact" \/ r = "other case"  BY PinnedNames
    <3> QED  BY <1>2, <3>1, <3>2 DEF OneSpelling
  <2>2. Pinned!Spelled(d) = {s}
    BY <1>2, <2>1 DEF Pinned!Spelled
  <2>3. (CHOOSE r \in {s} : TRUE) = s
    OBVIOUS
  <2> QED  BY <2>2, <2>3 DEF Pinned!Found
<1>3. (\A s \in Pinned!Spellings : holds[d][s] = None) => Pinned!Found(d) = None
  BY DEF Pinned!Found, Pinned!Spelled
<1> QED  BY <1>1, <1>2, <1>3

\* Two ways to say what is at the path.
LEMMA PathFinds ==
    WorldTyped /\ OneSpelling /\ PinnedAssumption => Pinned!AtPath(leads, holds) = FoundAtPath
<1> SUFFICES ASSUME WorldTyped, OneSpelling, PinnedAssumption
             PROVE  Pinned!AtPath(leads, holds) = FoundAtPath
  OBVIOUS
<1>1. CASE leads = None  BY <1>1 DEF FoundAtPath, Pinned!AtPath
<1>2. CASE leads # None
  <2>1. leads \in Pinned!Folders  BY <1>2 DEF WorldTyped
  <2>2. CASE \A s \in Pinned!Spellings : holds[leads][s] = None
    BY <1>2, <2>1, <2>2, FoundIsHeld DEF FoundAtPath, Pinned!AtPath
  <2>3. ASSUME NEW s \in Pinned!Spellings, holds[leads][s] # None
        PROVE  Pinned!AtPath(leads, holds) = FoundAtPath
    <3>1. \A r \in Pinned!Spellings : holds[leads][r] # None => r = s
      <4>1. s = "exact" \/ s = "other case"  BY PinnedNames
      <4>2. \A r \in Pinned!Spellings : r = "exact" \/ r = "other case"  BY PinnedNames
      <4> QED  BY <2>1, <2>3, <4>1, <4>2 DEF OneSpelling
    <3>2. (CHOOSE r \in Pinned!Spellings : holds[leads][r] # None) = s
      BY <2>3, <3>1
    <3>3. Pinned!AtPath(leads, holds) = holds[leads][s]
      BY <1>2, <2>3, <3>2 DEF Pinned!AtPath
    <3> QED  BY <1>2, <2>1, <2>3, <3>3, FoundIsHeld DEF FoundAtPath
  <2> QED  BY <2>2, <2>3
<1> QED  BY <1>1, <1>2

\* So they are after a step.
LEMMA PathFindsNext ==
    (WorldTyped /\ OneSpelling /\ PinnedAssumption => Pinned!AtPath(leads, holds) = FoundAtPath)'
BY PathFinds, PTL

\* What other programs do.
LEMMA TouchTells ==
    ASSUME WorldTyped, NEW S, Pinned!Touch(S)
    PROVE  /\ now' = now + 1 /\ at \notin {"failed", "done"}
           /\ UNCHANGED <<task, at, round, parent, initial, child, before, bytes>>
           /\ now' \in Nat /\ version' \in [Objects -> Nat]
           /\ \A o \in Objects : version'[o] <= now'
           /\ \A o \in Objects : version'[o] <= now => o \notin S /\ version'[o] = version[o]
<1>1. now' = now + 1 /\ now \in Nat /\ at \notin {"failed", "done"}
  BY DEF Pinned!Touch, WorldTyped
<1>2. version' = [o \in Objects |-> IF o \in S THEN now' ELSE version[o]]
  BY DEF Pinned!Touch, Objects
<1>3. \A o \in Objects : version[o] \in Nat /\ version[o] <= now
  BY DEF WorldTyped
<1>4. \A o \in Objects : version'[o] = IF o \in S THEN now' ELSE version[o]
  BY <1>2
<1>5. \A o \in Objects : version'[o] \in Nat /\ version'[o] <= now'
  BY <1>1, <1>3, <1>4
<1>6. version' \in [Objects -> Nat]
  BY <1>2, <1>4, <1>5
<1>7. \A o \in Objects : version'[o] <= now => o \notin S /\ version'[o] = version[o]
  BY <1>1, <1>4
<1>8. UNCHANGED <<task, at, round, parent, initial, child, before, bytes>>
  BY DEF Pinned!Touch, Pinned!reader
<1>9. now' \in Nat  BY <1>1
<1> QED  BY <1>1, <1>5, <1>6, <1>7, <1>8, <1>9

\* What every change of the other programs leaves: an object whose version is not new is
\* as it was.
WorldMoves ==
    /\ WorldTyped' /\ OneSpelling' /\ now' = now + 1 /\ at \notin {"failed", "done"}
    /\ UNCHANGED <<task, at, round, parent, initial, child, before, bytes>>
    /\ \A o \in Objects : version'[o] <= now => version'[o] = version[o]
    /\ \A f \in Pinned!Files : version'[f] <= now => contents'[f] = contents[f]
    /\ \A d \in Pinned!Folders : version'[d] <= now => holds'[d] = holds[d]
    /\ \A d \in Pinned!Folders, f \in Pinned!Files :
          Pinned!Found(d) = f /\ version'[f] <= now => Pinned!Found(d)' = f

\* It is one of these: a file is written,
LEMMA FilesAreWritten ==
    ASSUME PinnedAssumption, WorldTyped, OneSpelling, NEW f \in Pinned!Files, Pinned!Write(f)
    PROVE  WorldMoves
<1>1. PICK c \in Seq(Nat) : Pinned!Rewrite(f, c)
  <2>1. contents[f] \in Seq(Nat) /\ now + 1 \in Nat  BY DEF WorldTyped
  <2>2. ASSUME NEW k \in DOMAIN contents[f], Pinned!Rewrite(f, [contents[f] EXCEPT ![k] = now + 1])
        PROVE  \E c \in Seq(Nat) : Pinned!Rewrite(f, c)
    <3>1. [contents[f] EXCEPT ![k] = now + 1] \in Seq(Nat)  BY <2>1
    <3> QED  BY <2>2, <3>1
  <2>3. Append(contents[f], now + 1) \in Seq(Nat)  BY <2>1
  <2>4. contents[f] # <<>> => SubSeq(contents[f], 1, Len(contents[f]) - 1) \in Seq(Nat)  BY <2>1
  <2> QED  BY <2>2, <2>3, <2>4 DEF Pinned!Write
<1>2. /\ contents' = [contents EXCEPT ![f] = c] /\ UNCHANGED <<leads, holds>>
      /\ Pinned!Touch({f})
  BY <1>1 DEF Pinned!Rewrite
<1>3. WorldTyped' /\ OneSpelling'
  <2>1. contents' \in [Pinned!Files -> Seq(Nat)]  BY <1>2 DEF WorldTyped
  <2> QED  BY <1>2, <2>1, TouchTells DEF WorldTyped, OneSpelling
<1>4. f \in Objects  BY DEF Objects
<1>5. \A g \in Pinned!Files : version'[g] <= now => contents'[g] = contents[g]
  <2>1. \A g \in Pinned!Files : g \in Objects  BY DEF Objects
  <2>2. \A g \in Pinned!Files : g # f => contents'[g] = contents[g]  BY <1>2 DEF WorldTyped
  <2> QED  BY <1>2, <2>1, <2>2, TouchTells
<1>6. \A d \in Pinned!Folders : Pinned!Found(d)' = Pinned!Found(d)
  BY <1>2 DEF Pinned!Found, Pinned!Spelled
<1> QED  BY <1>2, <1>3, <1>5, <1>6, TouchTells DEF WorldMoves

\* a file is put or taken away under a name,
LEMMA FilesArePlaced ==
    ASSUME PinnedAssumption, WorldTyped, OneSpelling,
           NEW d \in Pinned!Folders, NEW s \in Pinned!Spellings, NEW f \in Pinned!Files \cup {None},
           Pinned!Place(d, s, f)
    PROVE  WorldMoves
<1>1. /\ holds' = [holds EXCEPT ![d] = [r \in Pinned!Spellings |-> IF r = s THEN f ELSE None]]
      /\ UNCHANGED <<leads, contents>>
      /\ Pinned!Touch({d, f, Pinned!Found(d)})
  BY DEF Pinned!Place
<1>2. /\ holds' \in [Pinned!Folders -> [Pinned!Spellings -> Pinned!Files \cup {None}]]
      /\ holds'[d] = [r \in Pinned!Spellings |-> IF r = s THEN f ELSE None]
      /\ \A e \in Pinned!Folders \ {d} : holds'[e] = holds[e]
  BY <1>1 DEF WorldTyped
<1>3. WorldTyped'
  BY <1>1, <1>2, TouchTells DEF WorldTyped
<1>4. OneSpelling'
  <2>1. ASSUME NEW e \in Pinned!Folders
        PROVE  holds'[e]["exact"] = None \/ holds'[e]["other case"] = None
    <3>1. CASE e = d  BY <1>2, <3>1, PinnedNames
    <3>2. CASE e # d  BY <1>2, <3>2 DEF OneSpelling
    <3> QED  BY <3>1, <3>2
  <2> QED  BY <2>1 DEF OneSpelling
<1>5. \A o \in Objects : version'[o] <= now => o # d /\ o # Pinned!Found(d) /\ version'[o] = version[o]
  BY <1>1, TouchTells
<1>6. \A e \in Pinned!Folders : e \in Objects  BY DEF Objects
<1>7. \A g \in Pinned!Files : g \in Objects  BY DEF Objects
<1>8. ASSUME NEW e \in Pinned!Folders, NEW g \in Pinned!Files, Pinned!Found(e) = g, version'[g] <= now
      PROVE  Pinned!Found(e)' = g
  <2>1. e # d  BY <1>5, <1>7, <1>8
  <2>2. holds'[e] = holds[e]  BY <1>2, <2>1
  <2> QED  BY <1>8, <2>2 DEF Pinned!Found, Pinned!Spelled
<1>9. \A e \in Pinned!Folders : version'[e] <= now => holds'[e] = holds[e]
  BY <1>2, <1>5, <1>6
<1> QED  BY <1>1, <1>3, <1>4, <1>5, <1>8, <1>9, TouchTells DEF WorldMoves

\* another folder, or none, is at the path.
LEMMA FoldersAreMoved ==
    ASSUME PinnedAssumption, WorldTyped, OneSpelling,
           NEW d \in Pinned!Folders \cup {None}, Pinned!MoveFolder(d) \/ Pinned!MoveAbove(d)
    PROVE  WorldMoves
<1>1. PICK S : leads' = d /\ UNCHANGED <<holds, contents>> /\ Pinned!Touch(S)
  BY DEF Pinned!MoveFolder, Pinned!MoveAbove
<1>2. WorldTyped' /\ OneSpelling'
  BY <1>1, TouchTells DEF WorldTyped, OneSpelling
<1>3. \A e \in Pinned!Folders : Pinned!Found(e)' = Pinned!Found(e)
  BY <1>1 DEF Pinned!Found, Pinned!Spelled
<1> QED  BY <1>1, <1>2, <1>3, TouchTells DEF WorldMoves

\* Whatever they change.
LEMMA ChangeMoves ==
    ASSUME PinnedAssumption, WorldTyped, OneSpelling, Pinned!Change
    PROVE  /\ WorldMoves
           /\ task = "file" =>
                 been' = IF FoundAtPath' # None
                         THEN been \cup {[object |-> FoundAtPath', version |-> version'[FoundAtPath'],
                                          contents |-> contents'[FoundAtPath']]} ELSE been
           /\ broken' = (broken \/ (Pinned!Knows /\ child # holds'[parent]["exact"]))
<1>1. WorldMoves
  BY FilesAreWritten, FilesArePlaced, FoldersAreMoved DEF Pinned!Change
<1>2. \E S : Pinned!Touch(S)
  BY DEF Pinned!Change, Pinned!Write, Pinned!Rewrite, Pinned!Place, Pinned!MoveFolder, Pinned!MoveAbove
<1>3. Pinned!AtPath(leads', holds') = FoundAtPath'
  <2>1. WorldTyped' /\ OneSpelling'  BY <1>1 DEF WorldMoves
  <2> QED  BY <2>1, PathFindsNext
<1> QED  BY <1>1, <1>2, <1>3 DEF Pinned!Touch

\* Nothing is read yet.
LEMMA PinnedStart ==
    ASSUME PinnedAssumption, Pinned!Init PROVE PinnedInv
<1>1. WorldTyped
  <2>1. <<0, 0>> \in Seq(Nat)  OBVIOUS
  <2>2. contents \in [Pinned!Files -> Seq(Nat)]  BY <2>1 DEF Pinned!Init
  <2>3. holds \in [Pinned!Folders -> [Pinned!Spellings -> Pinned!Files \cup {None}]]
    BY PinnedNames DEF Pinned!Init
  <2>4. leads \in Pinned!Folders \cup {None}  BY PinnedNames DEF Pinned!Init
  <2>5. now \in Nat /\ version \in [Objects -> Nat] /\ \A o \in Objects : version[o] <= now
    BY DEF Pinned!Init, Objects
  <2> QED  BY <2>2, <2>3, <2>4, <2>5 DEF WorldTyped
<1>2. OneSpelling
  BY PinnedNames DEF OneSpelling, Pinned!Init
<1>3. PlacesFit /\ task = "none"
  BY DEF PlacesFit, Pinned!Init
<1> QED  BY <1>1, <1>2, <1>3 DEF PinnedInv, NowHasBeen

\* What was described as it is now has not been touched since it was described.
LEMMA OthersMove ==
    ASSUME PinnedAssumption, PinnedInv, Pinned!Change PROVE PinnedInv'
<1>1. WorldTyped /\ OneSpelling /\ WorldMoves
  BY ChangeMoves DEF PinnedInv
<1>2. /\ WorldTyped' /\ OneSpelling' /\ now' = now + 1 /\ at \notin {"failed", "done"}
      /\ UNCHANGED <<task, at, round, parent, initial, child, before, bytes>>
  BY <1>1 DEF WorldMoves
<1>3. /\ task = "file" =>
            been' = IF FoundAtPath' # None
                    THEN been \cup {[object |-> FoundAtPath', version |-> version'[FoundAtPath'],
                                     contents |-> contents'[FoundAtPath']]} ELSE been
      /\ broken' = (broken \/ (Pinned!Knows /\ child # holds'[parent]["exact"]))
  BY <1>1, ChangeMoves
<1>4. NowHasBeen'
  BY <1>2, <1>3 DEF NowHasBeen
<1>5. now \in Nat  BY <1>1 DEF WorldTyped
<1>6. PlacesFit'
  <2>1. task = "none" => ~Pinned!Knows  BY DEF Pinned!Knows
  <2> QED  BY <1>2, <1>3, <2>1 DEF PinnedInv, PlacesFit
<1>7. ASSUME task = "file" PROVE FileIsPinned'
  <2>1. FileIsPinned  BY <1>7 DEF PinnedInv
  <2>2. Witnessed => Witnessed'
    <3>1. been \subseteq been'  BY <1>3, <1>7
    <3> QED  BY <1>2, <3>1 DEF Witnessed
  <2>3. CASE at \notin Described
    BY <1>2, <2>1, <2>3 DEF FileIsPinned, Described
  <2>4. CASE at \in Described
    <3>1. /\ before.object \in Pinned!Files /\ parent \in Pinned!Folders
          /\ before.version \in Nat /\ before.version <= now
          /\ bytes \in Seq(Nat)
      BY <2>1, <2>4 DEF FileIsPinned
    <3>3. before.version <= now'
      BY <1>2, <1>5, <3>1
    <3>4. PICK e \in Pinned!Folders : e = parent  BY <3>1
    <3>2. ASSUME Since(before.object, before.version)'
          PROVE  /\ Since(before.object, before.version)
                 /\ ReadSoFar => ReadSoFar'
      <4>1. version'[before.object] = before.version  BY <1>2, <3>2 DEF Since
      <4>2. before.object \in Objects  BY <3>1 DEF Objects
      <4>3. version'[before.object] <= now  BY <3>1, <4>1
      <4>4. version'[before.object] = version[before.object]
        BY <1>1, <4>2, <4>3 DEF WorldMoves
      <4>5. \A d \in Pinned!Folders : Pinned!Found(d) = before.object => Pinned!Found(d)' = before.object
        BY <1>1, <3>1, <4>3 DEF WorldMoves
      <4>6. Pinned!Found(parent)' = Pinned!Found(e)' /\ Pinned!Found(parent) = Pinned!Found(e)
        BY <1>2, <3>4 DEF Pinned!Found, Pinned!Spelled
      <4>7. contents'[before.object] = contents[before.object]
        BY <1>1, <3>1, <4>3 DEF WorldMoves
      <4>8. ReadSoFar => ReadSoFar'
        BY <1>2, <4>5, <4>6, <4>7, <3>4 DEF ReadSoFar
      <4> QED  BY <4>1, <4>4, <4>8 DEF Since
    <3> QED  BY <1>2, <2>1, <2>2, <2>4, <3>1, <3>2, <3>3 DEF FileIsPinned
  <2> QED  BY <2>3, <2>4
<1>8. ASSUME task = "child" PROVE ChildIsPinned'
  <2>1. ChildIsPinned /\ at \in ChildPlaces  BY <1>2, <1>8 DEF PinnedInv, PlacesFit
  <2>2. Pinned!Knows' <=> Pinned!Knows  BY <1>2 DEF Pinned!Knows
  <2>3. ~Pinned!Knows => ~broken'  BY <1>2, <1>3, <2>1 DEF ChildIsPinned
  <2>4. CASE at = "scope" \/ parent = None
    BY <1>2, <2>1, <2>2, <2>3, <2>4 DEF ChildIsPinned, Pinned!Knows
  <2>5. CASE at # "scope" /\ parent # None
    <3>1. /\ parent \in Pinned!Folders
          /\ initial = [object |-> parent, version |-> initial.version, size |-> 0]
          /\ initial.version \in Nat /\ initial.version <= now
      BY <2>1, <2>5 DEF ChildIsPinned
    <3>2. initial.version <= now'  BY <1>2, <1>5, <3>1
    <3>3. ASSUME Since(parent, initial.version)'
          PROVE  Since(parent, initial.version) /\ holds'[parent] = holds[parent]
      <4>1. version'[parent] = initial.version  BY <1>2, <3>3 DEF Since
      <4>2. parent \in Objects /\ version'[parent] <= now  BY <3>1, <4>1 DEF Objects
      <4>3. version'[parent] = version[parent] /\ holds'[parent] = holds[parent]
        BY <1>1, <3>1, <4>2 DEF WorldMoves
      <4> QED  BY <4>1, <4>3 DEF Since
    <3>4. ASSUME Since(parent, initial.version)'
          PROVE  /\ Pinned!Knows => ~broken' /\ child = holds'[parent]["exact"]
                 /\ at = "stat" => holds'[parent]["exact"] # None
                 /\ at = "listed" =>
                       holds'[parent]["exact"] = IF before = None THEN None ELSE before.object
      <4>1. Since(parent, initial.version) /\ holds'[parent] = holds[parent]  BY <3>3, <3>4
      <4>2. /\ Pinned!Knows => ~broken /\ child = holds[parent]["exact"]
            /\ at = "stat" => holds[parent]["exact"] # None
            /\ at = "listed" =>
                  holds[parent]["exact"] = IF before = None THEN None ELSE before.object
        BY <2>1, <2>5, <4>1 DEF ChildIsPinned, Pinned!Exact
      <4> QED  BY <1>3, <4>1, <4>2
    <3> QED  BY <1>2, <2>1, <2>2, <2>3, <2>5, <3>1, <3>2, <3>4 DEF ChildIsPinned, Pinned!Exact
  <2> QED  BY <2>4, <2>5
<1> QED  BY <1>2, <1>4, <1>6, <1>7, <1>8 DEF PinnedInv

\* What is found and what was read are functions of the state they are found in.
LEMMA FoundStays ==
    ASSUME UNCHANGED <<holds, parent>>
    PROVE  Pinned!Found(parent)' = Pinned!Found(parent)
BY DEF Pinned!Found, Pinned!Spelled

\* The same of what was read.
LEMMA ReadStays ==
    ASSUME UNCHANGED <<holds, contents, parent, before, bytes>>
    PROVE  ReadSoFar' <=> ReadSoFar
BY FoundStays DEF ReadSoFar

\* Reading a small file in parts.
LEMMA FileIsRead ==
    ASSUME PinnedAssumption, PinnedInv,
           \/ Pinned!OpenParent \/ Pinned!StatFile \/ Pinned!OpenFile \/ Pinned!ReadChunk
           \/ Pinned!StatAgain \/ Pinned!ReopenParent \/ Pinned!StatName
    PROVE  PinnedInv'
<1>1. UNCHANGED <<leads, holds, contents, version, now, task, been, broken>>
  BY DEF Pinned!OpenParent, Pinned!StatFile, Pinned!OpenFile, Pinned!ReadChunk, Pinned!StatAgain,
         Pinned!ReopenParent, Pinned!StatName, Pinned!kept, Pinned!world
<1>2. at \in FilePlaces
  BY DEF Pinned!OpenParent, Pinned!StatFile, Pinned!OpenFile, Pinned!ReadChunk, Pinned!StatAgain,
         Pinned!ReopenParent, Pinned!StatName, FilePlaces
<1>3. task = "file" /\ FileIsPinned
  BY <1>2 DEF PinnedInv, PlacesFit, FilePlaces, ChildPlaces
<1>4. at' \in FilePlaces \cup {"failed", "done"}
  BY <1>2 DEF Pinned!OpenParent, Pinned!StatFile, Pinned!OpenFile, Pinned!ReadChunk, Pinned!StatAgain,
         Pinned!ReopenParent, Pinned!StatName, FilePlaces, Pinned!Goto, Pinned!Fail
<1>5. /\ WorldTyped /\ WorldTyped' /\ OneSpelling /\ OneSpelling'
  BY <1>1 DEF PinnedInv, WorldTyped, OneSpelling
<1>6. NowHasBeen'
  BY <1>1 DEF PinnedInv, NowHasBeen, FoundAtPath, Pinned!Found, Pinned!Spelled
<1>7. PlacesFit'
  BY <1>1, <1>3, <1>4 DEF PlacesFit
<1>8. at' = "failed" => FileIsPinned'
  BY DEF FileIsPinned, Described
<1>9. ASSUME Pinned!OpenParent, at' # "failed" PROVE FileIsPinned'
  <2>1. leads # None /\ parent' = leads /\ at' = "stat file" /\ bytes' = bytes /\ at = "open parent"
    BY <1>9 DEF Pinned!OpenParent, Pinned!Goto, Pinned!Fail
  <2>2. parent' \in Pinned!Folders  BY <1>5, <2>1 DEF WorldTyped
  <2> QED  BY <1>3, <2>1, <2>2 DEF FileIsPinned, Described
<1>10. ASSUME Pinned!StatFile, at' # "failed" PROVE FileIsPinned'
  <2>1. PICK f : f = Pinned!Found(parent)  OBVIOUS
  <2>2. /\ f # None /\ before' = Pinned!Meta(f) /\ at' = "open file" /\ at = "stat file"
        /\ parent' = parent /\ bytes' = bytes
    BY <1>10, <2>1 DEF Pinned!StatFile, Pinned!Goto, Pinned!Fail
  <2>3. parent \in Pinned!Folders /\ bytes = <<>>
    BY <1>3, <2>2 DEF FileIsPinned
  <2>4. f \in Pinned!Files
    BY <1>5, <2>1, <2>2, <2>3, FoundIsHeld
  <2>5. before'.object = f /\ before'.version = version[f] /\ before'.size = Len(contents[f])
    BY <2>2, <2>4 DEF Pinned!Meta
  <2>6. version[f] \in Nat /\ version[f] <= now /\ contents[f] \in Seq(Nat)
    BY <1>5, <2>4 DEF WorldTyped, Objects
  <2>7. Pinned!Found(parent)' = f
    BY <1>1, <2>1, <2>2, FoundStays
  <2>8. bytes' \in Seq(Nat) /\ bytes' = <<>>
    <3>1. bytes' = <<>>  BY <2>2, <2>3
    <3>2. <<>> \in Seq(Nat)  OBVIOUS
    <3> QED  BY <3>1, <3>2
  <2>9. Len(bytes') = 0 /\ Len(contents[f]) \in Nat
    BY <2>6, <2>8
  <2>10. ReadSoFar'
    BY <1>1, <2>5, <2>7, <2>9 DEF ReadSoFar
  <2> QED  BY <1>1, <2>2, <2>3, <2>4, <2>5, <2>6, <2>8, <2>10 DEF FileIsPinned, Described
<1>11. ASSUME Pinned!OpenFile, at' # "failed" PROVE FileIsPinned'
  <2>1. at = "open file" /\ at' = "read" /\ UNCHANGED <<parent, before, bytes>>
    BY <1>11 DEF Pinned!OpenFile, Pinned!Goto, Pinned!Fail
  <2> QED  BY <1>1, <1>3, <2>1, ReadStays DEF FileIsPinned, Described, Since
<1>12. ASSUME Pinned!ReadChunk, at' # "failed" PROVE FileIsPinned'
  <2>1. at = "read" /\ UNCHANGED <<parent, before>>
    BY <1>12 DEF Pinned!ReadChunk, Pinned!Goto, Pinned!Fail
  <2>2. /\ before.object \in Pinned!Files /\ bytes \in Seq(Nat) /\ contents[before.object] \in Seq(Nat)
        /\ parent \in Pinned!Folders /\ before.version \in Nat /\ before.version <= now
        /\ Since(before.object, before.version) => ReadSoFar
    BY <1>3, <1>5, <2>1 DEF FileIsPinned, Described, WorldTyped
  <2>3. CASE Len(bytes) < before.size
    <3>1. /\ Len(bytes) < Len(contents[before.object])
          /\ bytes' = Append(bytes, contents[before.object][Len(bytes) + 1]) /\ at' = at
      BY <1>12, <2>3 DEF Pinned!ReadChunk, Pinned!File, Pinned!Fail, Pinned!Goto
    <3>2. contents[before.object][Len(bytes) + 1] \in Nat
      BY <2>2, <3>1
    <3>3. /\ bytes' \in Seq(Nat) /\ Len(bytes') = Len(bytes) + 1
          /\ \A k \in 1..Len(bytes) : bytes'[k] = bytes[k]
          /\ bytes'[Len(bytes) + 1] = contents[before.object][Len(bytes) + 1]
          /\ \A k \in 1..Len(bytes') : k \in 1..Len(bytes) \/ k = Len(bytes) + 1
      BY <2>2, <3>1, <3>2
    <3>4. ReadSoFar => ReadSoFar'
      <4>1. Pinned!Found(parent)' = Pinned!Found(parent)  BY <1>1, <2>1, FoundStays
      <4>2. ReadSoFar => Len(bytes') <= before.size
        BY <2>2, <2>3, <3>3 DEF ReadSoFar
      <4>3. ReadSoFar => \A k \in 1..Len(bytes') : bytes'[k] = contents[before.object][k]
        BY <3>3 DEF ReadSoFar
      <4> QED  BY <1>1, <2>1, <4>1, <4>2, <4>3 DEF ReadSoFar
    <3> QED  BY <1>1, <2>1, <2>2, <3>1, <3>3, <3>4 DEF FileIsPinned, Described, Since
  <2>4. CASE ~(Len(bytes) < before.size)
    <3>1. ~(Len(contents[before.object]) > before.size) /\ at' = "stat again" /\ bytes' = bytes
      BY <1>12, <2>4 DEF Pinned!ReadChunk, Pinned!File, Pinned!Fail, Pinned!Goto
    <3>2. ReadSoFar => ReadSoFar' /\ Len(bytes) = before.size
      <4>1. ReadSoFar => Len(bytes) = before.size
        BY <2>2, <2>4 DEF ReadSoFar
      <4> QED  BY <1>1, <2>1, <3>1, <4>1, ReadStays
    <3> QED  BY <1>1, <2>1, <2>2, <3>1, <3>2 DEF FileIsPinned, Described, Since
  <2> QED  BY <2>3, <2>4
<1>13. ASSUME Pinned!StatAgain, at' # "failed" PROVE FileIsPinned'
  <2>1. at = "stat again" /\ at' = "path" /\ UNCHANGED <<parent, before, bytes>>
    BY <1>13 DEF Pinned!StatAgain, Pinned!Goto, Pinned!Fail
  <2> QED  BY <1>1, <1>3, <2>1, ReadStays DEF FileIsPinned, Described, Since
<1>14. ASSUME Pinned!ReopenParent, at' # "failed" PROVE FileIsPinned'
  <2>1. at = "path" /\ at' = "name" /\ leads = parent /\ UNCHANGED <<parent, before, bytes>>
    BY <1>14 DEF Pinned!ReopenParent, Pinned!Goto, Pinned!Fail
  <2>2. /\ before.object \in Pinned!Files /\ bytes \in Seq(Nat) /\ contents[before.object] \in Seq(Nat)
        /\ parent \in Pinned!Folders
        /\ Since(before.object, before.version) => ReadSoFar /\ Len(bytes) = before.size
    BY <1>3, <1>5, <2>1 DEF FileIsPinned, Described, WorldTyped
  <2>3. ASSUME Since(before.object, before.version) PROVE Witnessed
    <3>1. bytes = contents[before.object]
      BY <2>2, <2>3 DEF ReadSoFar
    <3>2. FoundAtPath = before.object /\ FoundAtPath # None
      BY <2>1, <2>2, <2>3, PinnedNames DEF ReadSoFar, FoundAtPath
    <3>3. [object |-> before.object, version |-> version[before.object],
           contents |-> contents[before.object]] \in been
      BY <1>3, <3>2 DEF PinnedInv, NowHasBeen
    <3> QED  BY <2>3, <3>1, <3>3 DEF Witnessed, Since
  <2>4. Witnessed => Witnessed'  BY <1>1, <2>1 DEF Witnessed
  <2> QED  BY <1>1, <1>3, <2>1, <2>3, <2>4, ReadStays DEF FileIsPinned, Described, Since
<1>15. ASSUME Pinned!StatName, at' # "failed" PROVE FileIsPinned'
  <2>1. /\ at = "name" /\ at' = "done" /\ UNCHANGED <<parent, before, bytes>>
        /\ Pinned!Meta(Pinned!Found(parent)) = before
    BY <1>15 DEF Pinned!StatName, Pinned!Goto, Pinned!Fail
  <2>2. Since(before.object, before.version)
    BY <2>1 DEF Pinned!Meta, Since
  <2>3. Witnessed  BY <1>3, <2>1, <2>2 DEF FileIsPinned, Described
  <2> QED  BY <1>1, <2>1, <2>3 DEF FileIsPinned, Described, Witnessed
<1>16. FileIsPinned'
  BY <1>8, <1>9, <1>10, <1>11, <1>12, <1>13, <1>14, <1>15
<1> QED  BY <1>1, <1>3, <1>5, <1>6, <1>7, <1>16 DEF PinnedInv

\* Observing and validating a child.
LEMMA ChildIsRead ==
    ASSUME PinnedAssumption, PinnedInv,
           \/ Pinned!Scope \/ Pinned!OpenNames \/ (\E seen \in BOOLEAN : Pinned!List(seen))
           \/ Pinned!StatChild \/ Pinned!Listed \/ Pinned!Confirm \/ Pinned!Validate \/ Pinned!Reopen
    PROVE  PinnedInv'
<1>1. UNCHANGED <<leads, holds, contents, version, now, task, been, broken>>
  BY DEF Pinned!Scope, Pinned!OpenNames, Pinned!List, Pinned!StatChild, Pinned!Listed, Pinned!Confirm,
         Pinned!Validate, Pinned!Reopen, Pinned!kept, Pinned!world
<1>2. at \in ChildPlaces
  BY DEF Pinned!Scope, Pinned!OpenNames, Pinned!List, Pinned!StatChild, Pinned!Listed, Pinned!Confirm,
         Pinned!Validate, Pinned!Reopen, ChildPlaces
<1>3. task = "child" /\ ChildIsPinned
  BY <1>2 DEF PinnedInv, PlacesFit, FilePlaces, ChildPlaces
<1>4. at' \in ChildPlaces \cup {"failed", "done"}
  BY <1>2 DEF Pinned!Scope, Pinned!OpenNames, Pinned!List, Pinned!StatChild, Pinned!Listed, Pinned!Confirm,
         Pinned!Validate, Pinned!Reopen, ChildPlaces, Pinned!Goto, Pinned!Fail
<1>5. /\ WorldTyped /\ WorldTyped' /\ OneSpelling /\ OneSpelling'
  BY <1>1 DEF PinnedInv, WorldTyped, OneSpelling
<1>6. NowHasBeen' /\ PlacesFit'
  BY <1>1, <1>3, <1>4 DEF NowHasBeen, PlacesFit
<1> SUFFICES ChildIsPinned'
  BY <1>1, <1>3, <1>5, <1>6 DEF PinnedInv
<1>7. CASE at' = "failed"
  <2>1. round' = round
    BY <1>7 DEF Pinned!Scope, Pinned!OpenNames, Pinned!List, Pinned!StatChild, Pinned!Listed, Pinned!Confirm,
         Pinned!Validate, Pinned!Reopen, Pinned!Goto, Pinned!Fail
  <2> QED  BY <1>3, <1>7, <2>1 DEF ChildIsPinned, ChildPlaces
<1> HIDE <1>7
<1>8. ASSUME Pinned!Scope, at' # "failed" PROVE ChildIsPinned'
  <2>1. at = "scope" /\ round = 1 /\ ~Pinned!Knows /\ ~broken
    BY <1>3, <1>8 DEF Pinned!Scope, ChildIsPinned, Pinned!Knows
  <2>2. CASE leads = None
    <3>1. parent' = None /\ round' = 2 /\ at' = "observed"
      BY <1>8, <2>2 DEF Pinned!Scope, Pinned!Goto
    <3> QED  BY <1>1, <2>1, <3>1 DEF ChildIsPinned
  <2>3. CASE leads # None
    <3>1. parent' = leads /\ initial' = Pinned!Meta(leads) /\ at' = "open" /\ round' = round
      BY <1>8, <2>3 DEF Pinned!Scope, Pinned!Goto
    <3>2. leads \in Pinned!Folders /\ leads \notin Pinned!Files
      BY <1>5, <2>3, PinnedNames DEF WorldTyped
    <3>3. /\ initial' = [object |-> leads, version |-> version[leads], size |-> 0]
          /\ initial'.version = version[leads]
      BY <3>1, <3>2 DEF Pinned!Meta
    <3>4. version[leads] \in Nat /\ version[leads] <= now
      BY <1>5, <3>2 DEF WorldTyped, Objects
    <3>5. ~Pinned!Knows'  BY <2>1, <3>1 DEF Pinned!Knows
    <3> QED  BY <1>1, <2>1, <2>3, <3>1, <3>2, <3>3, <3>4, <3>5 DEF ChildIsPinned
  <2> QED  BY <2>2, <2>3
<1>9. ASSUME UNCHANGED <<round, parent, initial>>, at \in ChildPlaces \ {"scope"},
             at' \in ChildPlaces \ {"scope"}, at' # "observed", parent # None,
             Pinned!Knows => Pinned!Knows' /\ child' = child,
             Since(parent, initial.version) =>
                /\ Pinned!Knows' => ~broken /\ child' = Pinned!Exact(parent)
                /\ at' = "stat" => Pinned!Exact(parent) # None
                /\ at' = "listed" =>
                      Pinned!Exact(parent) = IF before' = None THEN None ELSE before'.object
      PROVE  ChildIsPinned'
  <2>1. ~Pinned!Knows' => ~broken'
    BY <1>1, <1>3, <1>9 DEF ChildIsPinned, ChildPlaces
  <2>2. Pinned!Exact(parent)' = Pinned!Exact(parent) /\ (Since(parent, initial.version)' <=> Since(parent, initial.version))
    BY <1>1, <1>9 DEF Pinned!Exact, Since
  <2>3. /\ parent \in Pinned!Folders
        /\ initial = [object |-> parent, version |-> initial.version, size |-> 0]
        /\ initial.version \in Nat /\ initial.version <= now
    BY <1>3, <1>9 DEF ChildIsPinned
  <2> QED  BY <1>1, <1>3, <1>9, <2>1, <2>2, <2>3 DEF ChildIsPinned, ChildPlaces
<1>10. parent # None /\ at \in ChildPlaces \ {"scope"} =>
          /\ parent \in Pinned!Folders
          /\ Since(parent, initial.version) <=> Pinned!Unmoved
          /\ Since(parent, initial.version) =>
                /\ Pinned!Knows => ~broken /\ child = Pinned!Exact(parent)
                /\ at = "stat" => Pinned!Exact(parent) # None
                /\ at = "listed" =>
                      Pinned!Exact(parent) = IF before = None THEN None ELSE before.object
  <2> SUFFICES ASSUME parent # None, at \in ChildPlaces \ {"scope"}
               PROVE  /\ parent \in Pinned!Folders
                      /\ Since(parent, initial.version) <=> Pinned!Unmoved
                      /\ Since(parent, initial.version) =>
                            /\ Pinned!Knows => ~broken /\ child = Pinned!Exact(parent)
                            /\ at = "stat" => Pinned!Exact(parent) # None
                            /\ at = "listed" =>
                                  Pinned!Exact(parent) = IF before = None THEN None ELSE before.object
    OBVIOUS
  <2>1. parent \in Pinned!Folders /\ parent \notin Pinned!Files
        /\ initial = [object |-> parent, version |-> initial.version, size |-> 0]
    BY <1>3, PinnedNames DEF ChildIsPinned
  <2>2. Pinned!Meta(parent) = [object |-> parent, version |-> version[parent], size |-> 0]
    BY <2>1 DEF Pinned!Meta
  <2>3. Since(parent, initial.version) <=> Pinned!Unmoved
    BY <2>1, <2>2 DEF Since, Pinned!Unmoved
  <2> QED  BY <1>3, <2>1, <2>3 DEF ChildIsPinned
<1>11. ASSUME Pinned!OpenNames, at' # "failed" PROVE ChildIsPinned'
  <2>1. at = "open" /\ at' = "list" /\ UNCHANGED <<round, parent, initial, child, before>>
    BY <1>11 DEF Pinned!OpenNames, Pinned!Goto, Pinned!Fail
  <2>2. parent # None  BY <1>3, <2>1 DEF ChildIsPinned
  <2>3. Pinned!Knows' <=> Pinned!Knows  BY <1>1, <2>1 DEF Pinned!Knows
  <2> QED  BY <1>9, <1>10, <2>1, <2>2, <2>3 DEF ChildPlaces
<1>12. ASSUME NEW seen \in BOOLEAN, Pinned!List(seen) PROVE ChildIsPinned'
  <2>1. at = "list" /\ before' = None /\ UNCHANGED <<round, parent, initial, child>>
    BY <1>12 DEF Pinned!List
  <2>2. parent # None  BY <1>3, <2>1 DEF ChildIsPinned
  <2>3. at' \in {"stat", "listed"}
    BY <1>12 DEF Pinned!List, Pinned!Goto
  <2>4. Pinned!Knows' <=> Pinned!Knows
    BY <1>1, <2>1, <2>3 DEF Pinned!Knows
  <2>5. ASSUME Pinned!Unmoved, at' = "stat" PROVE Pinned!Exact(parent) # None
    <3>1. seen = (Pinned!Exact(parent) # None)  BY <1>12, <2>5 DEF Pinned!List
    <3>2. CASE seen  BY <3>1, <3>2, Zenon
    <3>3. CASE ~seen
      <4>1. at' = "listed"  BY <1>12, <3>3 DEF Pinned!List, Pinned!Goto
      <4> QED  BY <2>5, <4>1
    <3> QED  BY <3>2, <3>3
  <2>6. ASSUME Pinned!Unmoved, at' = "listed" PROVE Pinned!Exact(parent) = None
    <3>1. seen = (Pinned!Exact(parent) # None)  BY <1>12, <2>6 DEF Pinned!List
    <3>2. CASE ~seen  BY <3>1, <3>2, Zenon
    <3>3. CASE seen
      <4>1. at' = "stat"  BY <1>12, <3>3 DEF Pinned!List, Pinned!Goto
      <4> QED  BY <2>6, <4>1
    <3> QED  BY <3>2, <3>3
  <2>7. at \in ChildPlaces \ {"scope"} /\ at' \in ChildPlaces \ {"scope"} /\ at' # "observed"
    BY <2>1, <2>3 DEF ChildPlaces
  <2>8. Since(parent, initial.version) =>
           /\ Pinned!Unmoved
           /\ Pinned!Knows => ~broken /\ child = Pinned!Exact(parent)
    BY <1>10, <2>2, <2>7
  <2>9. Since(parent, initial.version) =>
                /\ Pinned!Knows' => ~broken /\ child' = Pinned!Exact(parent)
                /\ at' = "stat" => Pinned!Exact(parent) # None
                /\ at' = "listed" =>
                      Pinned!Exact(parent) = IF before' = None THEN None ELSE before'.object
    BY <2>1, <2>4, <2>5, <2>6, <2>8
  <2> QED  BY <1>9, <2>1, <2>2, <2>4, <2>7, <2>9
<1>13. ASSUME Pinned!StatChild, at' # "failed" PROVE ChildIsPinned'
  <2>1. /\ at = "stat" /\ at' = "listed" /\ UNCHANGED <<round, parent, initial, child>>
        /\ Pinned!Found(parent) # None /\ before' = Pinned!Meta(Pinned!Found(parent))
    BY <1>13 DEF Pinned!StatChild, Pinned!Goto, Pinned!Fail
  <2>2. parent # None  BY <1>3, <2>1 DEF ChildIsPinned
  <2>3. Pinned!Knows' <=> Pinned!Knows  BY <1>1, <2>1 DEF Pinned!Knows
  <2>4. parent \in Pinned!Folders  BY <1>10, <2>1, <2>2 DEF ChildPlaces
  <2>5. Pinned!Exact(parent) # None => Pinned!Found(parent) = Pinned!Exact(parent)
    BY <1>5, <2>4, FoundIsHeld, PinnedNames DEF Pinned!Exact
  <2>6. before' # None /\ before'.object = Pinned!Found(parent)
    <3> DEFINE f == Pinned!Found(parent)
    <3>1. f \in Pinned!Files  BY <1>5, <2>1, <2>4, FoundIsHeld
    <3>2. version[f] \in Nat /\ contents[f] \in Seq(Nat)
      BY <1>5, <3>1 DEF WorldTyped, Objects
    <3>3. Pinned!Meta(f) = [object |-> f, version |-> version[f], size |-> Len(contents[f])]
      BY <3>1 DEF Pinned!Meta
    <3>4. Len(contents[f]) \in Nat  BY <3>2
    <3>5. Pinned!Meta(f) \in Descriptions
      <4> HIDE DEF f
      <4> QED  BY <3>1, <3>2, <3>3, <3>4 DEF Descriptions, Objects
    <3>6. Pinned!Meta(f) # None  BY <3>5 DEF PinnedAssumption
    <3> QED  BY <2>1, <3>3, <3>6
  <2> QED  BY <1>9, <1>10, <2>1, <2>2, <2>3, <2>5, <2>6 DEF ChildPlaces
<1>14. ASSUME Pinned!Listed, at' # "failed" PROVE ChildIsPinned'
  <2>1. /\ at = "listed" /\ at' = "confirm" /\ UNCHANGED <<round, parent, initial, before>>
        /\ Pinned!Unmoved
        /\ child' = IF round = 1 THEN Pinned!ChildOf(before) ELSE child
    BY <1>14 DEF Pinned!Listed, Pinned!Goto, Pinned!Fail
  <2>2. parent # None /\ round \in {1, 2}  BY <1>3, <2>1 DEF ChildIsPinned
  <2>3. Pinned!Knows' /\ (Pinned!Knows <=> round = 2)
    BY <1>1, <1>3, <2>1, <2>2 DEF Pinned!Knows
  <2>4. Pinned!Exact(parent) = Pinned!ChildOf(before)
    BY <1>10, <2>1, <2>2 DEF ChildPlaces, Pinned!ChildOf
  <2>5. ~Pinned!Knows => ~broken
    BY <1>3, <2>1 DEF ChildIsPinned
  <2>6. child' = Pinned!Exact(parent) /\ ~broken
    BY <1>10, <2>1, <2>2, <2>3, <2>4, <2>5 DEF ChildPlaces
  <2> QED  BY <1>9, <2>1, <2>2, <2>3, <2>6 DEF ChildPlaces
<1>15. ASSUME Pinned!Confirm, at' # "failed" PROVE ChildIsPinned'
  <2>1. /\ at = "confirm" /\ Pinned!ParentHolds /\ round' = 2
        /\ at' = (IF round = 1 THEN "observed" ELSE "done")
        /\ UNCHANGED <<parent, initial, child, before>>
    BY <1>15 DEF Pinned!Confirm, Pinned!Goto, Pinned!Fail
  <2>2. parent # None  BY <1>3, <2>1 DEF ChildIsPinned
  <2>3. leads = parent /\ Pinned!Unmoved  BY <2>1, <2>2 DEF Pinned!ParentHolds
  <2>4. Pinned!Knows /\ Pinned!Knows'
    BY <1>1, <1>3, <2>1, <2>2 DEF Pinned!Knows
  <2>5. ~broken /\ child = Pinned!Exact(parent)
    BY <1>10, <2>1, <2>2, <2>3, <2>4 DEF ChildPlaces
  <2>6. Pinned!Exact(parent)' = Pinned!Exact(parent)  BY <1>1, <2>1 DEF Pinned!Exact
  <2>7. /\ parent \in Pinned!Folders
        /\ initial = [object |-> parent, version |-> initial.version, size |-> 0]
        /\ initial.version \in Nat /\ initial.version <= now
    BY <1>3, <2>1, <2>2 DEF ChildIsPinned, ChildPlaces
  <2> QED  BY <1>1, <2>1, <2>2, <2>3, <2>4, <2>5, <2>6, <2>7 DEF ChildIsPinned
<1>16. ASSUME Pinned!Validate, at' # "failed" PROVE ChildIsPinned'
  <2>1. /\ at = "observed" /\ Pinned!ParentHolds
        /\ at' = (IF parent = None THEN "done" ELSE "reopen")
        /\ UNCHANGED <<round, parent, initial, child, before>>
    BY <1>16 DEF Pinned!Validate, Pinned!Goto, Pinned!Fail
  <2>2. CASE parent = None
    <3>1. leads = parent /\ at' = "done"  BY <2>1, <2>2 DEF Pinned!ParentHolds
    <3>2. ~Pinned!Knows /\ ~broken  BY <1>3, <2>1, <2>2 DEF ChildIsPinned, Pinned!Knows
    <3> QED  BY <1>1, <1>3, <2>1, <2>2, <3>1, <3>2 DEF ChildIsPinned
  <2>3. CASE parent # None
    <3>1. Pinned!Knows' <=> Pinned!Knows
      BY <1>1, <1>3, <2>1 DEF Pinned!Knows, ChildIsPinned
    <3> QED  BY <1>9, <1>10, <2>1, <2>3, <3>1 DEF ChildPlaces
  <2> QED  BY <2>2, <2>3
<1>17. ASSUME Pinned!Reopen, at' # "failed" PROVE ChildIsPinned'
  <2>1. at = "reopen" /\ at' = "list" /\ UNCHANGED <<round, parent, initial, child, before>>
    BY <1>17 DEF Pinned!Reopen, Pinned!Goto, Pinned!Fail
  <2>2. parent # None  BY <1>3, <2>1 DEF ChildIsPinned
  <2>3. Pinned!Knows' <=> Pinned!Knows  BY <1>1, <2>1 DEF Pinned!Knows
  <2> QED  BY <1>9, <1>10, <2>1, <2>2, <2>3 DEF ChildPlaces
<1> QED
  BY <1>7, <1>8, <1>11, <1>12, <1>13, <1>14, <1>15, <1>16, <1>17

\* The call begins with what is at the path now.
LEMMA ReaderStarts ==
    ASSUME PinnedAssumption, PinnedInv, NEW t \in {"file", "child"}, Pinned!Start(t)
    PROVE  PinnedInv'
<1>1. /\ UNCHANGED <<leads, holds, contents, version, now, round, parent, initial, child, before, bytes, broken>>
      /\ at = "idle" /\ task' = t /\ at' = IF t = "file" THEN "open parent" ELSE "scope"
  BY DEF Pinned!Start, Pinned!Goto, Pinned!world
<1>2. task = "none" /\ bytes = <<>> /\ ~broken /\ round = 1
  BY <1>1 DEF PinnedInv, PlacesFit, FilePlaces, ChildPlaces
<1>3. /\ WorldTyped /\ WorldTyped' /\ OneSpelling /\ OneSpelling'
  BY <1>1 DEF PinnedInv, WorldTyped, OneSpelling
<1>4. PlacesFit'
  BY <1>1, <1>2 DEF PlacesFit, FilePlaces, ChildPlaces
<1>5. NowHasBeen'
  <2>1. Pinned!AtPath(leads, holds) = FoundAtPath /\ FoundAtPath' = FoundAtPath
    BY <1>1, <1>3, PathFinds DEF FoundAtPath, Pinned!Found, Pinned!Spelled
  <2>2. t = "file" /\ FoundAtPath # None =>
           been' = {[object |-> FoundAtPath, version |-> version[FoundAtPath],
                     contents |-> contents[FoundAtPath]]}
    BY <2>1 DEF Pinned!Start
  <2> QED  BY <1>1, <2>1, <2>2 DEF NowHasBeen
<1>6. task' = "file" => FileIsPinned'
  BY <1>1, <1>2 DEF FileIsPinned, Described
<1>7. task' = "child" => ChildIsPinned'
  BY <1>1, <1>2 DEF ChildIsPinned
<1> QED  BY <1>3, <1>4, <1>5, <1>6, <1>7 DEF PinnedInv

\* The invariant holds whatever is changed, and however often.
LEMMA PinnedHolds ==
    ASSUME PinnedAssumption PROVE Pinned!Spec => []PinnedInv
<1>1. Pinned!Init => PinnedInv  BY PinnedStart
<1>2. PinnedInv /\ [Pinned!Next]_(Pinned!vars) => PinnedInv'
  <2>1. ASSUME PinnedInv, UNCHANGED Pinned!vars PROVE PinnedInv'
    <3>1. UNCHANGED <<leads, holds, contents, version, now, task, at, round, parent, initial, child,
                      before, bytes, been, broken>>
      BY <2>1 DEF Pinned!vars, Pinned!world, Pinned!reader
    <3>2. WorldTyped' /\ OneSpelling' /\ PlacesFit'
      BY <2>1, <3>1 DEF PinnedInv, WorldTyped, OneSpelling, PlacesFit
    <3>3. NowHasBeen'
      BY <2>1, <3>1 DEF PinnedInv, NowHasBeen, FoundAtPath, Pinned!Found, Pinned!Spelled
    <3>4. task = "file" => FileIsPinned'
      BY <2>1, <3>1, ReadStays DEF PinnedInv, FileIsPinned, Since, Witnessed
    <3>5. task = "child" => ChildIsPinned'
      <4>1. Pinned!Knows' <=> Pinned!Knows  BY <3>1 DEF Pinned!Knows
      <4> QED  BY <2>1, <3>1, <4>1 DEF PinnedInv, ChildIsPinned, Since, Pinned!Exact
    <3> QED  BY <3>1, <3>2, <3>3, <3>4, <3>5 DEF PinnedInv
  <2> QED  BY <2>1, OthersMove, ReaderStarts, FileIsRead, ChildIsRead DEF Pinned!Next
<1> QED  BY <1>1, <1>2, PTL DEF Pinned!Spec

\* The bytes that read_regular (safety.rs) returns were all of the contents, at one moment
\* of the call, of the file at the path, with the identity that is returned with them,
\* whatever other programs write, rename or replace meanwhile.
THEOREM BytesAreOfOneMoment ==
    ASSUME PinnedAssumption PROVE Pinned!Spec => []Pinned!BytesWereThere
<1>1. PinnedInv => Pinned!BytesWereThere
  BY DEF PinnedInv, FileIsPinned, Witnessed, Pinned!BytesWereThere
<1> QED  BY <1>1, PinnedHolds, PTL

\* When ExactChild::validate (safety.rs) succeeds, the path leads to the folder whose
\* names were read, and the child of exactly that name was what was found, from when it
\* was found until then.
THEOREM ChildStaysAllAlong ==
    ASSUME PinnedAssumption PROVE Pinned!Spec => []Pinned!ChildAllAlong
<1>1. PinnedInv => Pinned!ChildAllAlong
  BY DEF PinnedInv, ChildIsPinned, Pinned!ChildAllAlong
<1> QED  BY <1>1, PinnedHolds, PTL

=============================================================================
