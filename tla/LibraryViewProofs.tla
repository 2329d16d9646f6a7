------------------------- MODULE LibraryViewProofs -------------------------
(***************************************************************************)
(* Theorems about LibraryView for every set of items, any number of acts    *)
(* and reads, and answers that fail.  They rest on one inductive invariant, *)
(* Fine: in what order the reads that are under way were asked for and what *)
(* each has seen, which of them may still be applied, and what a preview    *)
(* has promised.  Leads says what a continuation may do to what is shown.   *)
(*                                                                         *)
(* A continuation is a composition of the functions of an actor's state; so *)
(* is its proof: each function keeps Fine and Leads, and every step that a  *)
(* continuation takes follows.                                             *)
(***************************************************************************)
EXTENDS LibraryView, FiniteSetTheorems, TLAPS

-----------------------------------------------------------------------------
(* The invariant                                                           *)

Actors ==
    [request : Nat, applied : Nat, shown : Snapshots, demand : Nat,
     poll : {"none", "reading", "sleeping"}, demanded : Nat,
     active : Items \cup {None}, queued : Seq(Items), executing : BOOLEAN,
     running : BOOLEAN, cancelled : BOOLEAN, preview : Previews \cup {None},
     wanted : BOOLEAN, collecting : BOOLEAN, confirmed : Nat, send : Seq(Requests)]

IsRead(x) == x.kind \in ReadKinds
Asks(Q, i) == i \in 1..Len(Q) /\ Q[i].kind = "read"
Executes(Q, i) == i \in 1..Len(Q) /\ Q[i].kind = "execute"
Later(s, t) ==
    /\ s.version <= t.version /\ s.collected <= t.collected
    /\ s.collected + s.pending <= t.collected + t.pending

\* All that has been asked of the engine, when a continuation gets to a.
Sent(a) == queue \o a.send

\* Reads are answered in the order in which they were asked for, and the later
\* one shows the later state.
AnswersInv(a, A) ==
    /\ a.applied <= a.request /\ Later(a.shown, Snapshot)
    /\ \A x \in A : IsRead(x) =>
        /\ x.id <= a.request /\ Later(x.data, Snapshot)
        /\ x.id >= a.applied => Later(a.shown, x.data)
        /\ \A y \in A : IsRead(y) /\ x.id <= y.id => Later(x.data, y.data)
QueueInv(a, Q, A) ==
    \A i \in 1..Len(Q) : Asks(Q, i) =>
        /\ Q[i].id <= a.request
        /\ \A j \in 1..Len(Q) : Asks(Q, j) /\ i < j => Q[i].id < Q[j].id
        /\ \A x \in A : IsRead(x) => x.id < Q[i].id

\* One cleanup is carried out at a time, and what was asked for before it will
\* not be applied.
ExecuteInv(a, Q, A) ==
    /\ a.executing => a.active # None
    /\ \A i \in 1..Len(Q) : Executes(Q, i) =>
        /\ a.executing /\ Q[i].id = a.active
        /\ \A j \in 1..Len(Q) : Executes(Q, j) => j = i
        /\ \A x \in A : x.kind # "execute"
    /\ \A x \in A : x.kind = "execute" =>
        /\ a.executing /\ x.id = a.active
        /\ \A y \in A : y.kind = "execute" => y = x
StaleInv(a, Q, A) ==
    a.executing =>
        /\ \A x \in A : IsRead(x) => x.id < a.applied
        /\ \A i \in 1..Len(Q) : Asks(Q, i) => Q[i].id < a.applied

\* What was removed shows in no read that may be applied, and is not queued.
GoneInv(a, A) ==
    /\ present \cap cleaned = {} /\ a.shown.present \cap cleaned \subseteq {a.active}
    /\ \A x \in A : IsRead(x) =>
        ~x.data.cleaning /\ (x.id >= a.applied => x.data.present \cap cleaned = {})
QueuedInv(a) ==
    \A k \in 1..Len(a.queued) :
        /\ a.queued[k] \notin cleaned /\ a.queued[k] # a.active
        /\ \A l \in 1..Len(a.queued) : a.queued[k] = a.queued[l] => k = l

\* What a resolved preview promises has been earned.
ChipInv(a) == a.preview # None /\ a.preview.resolved => a.preview.target <= Earned(a)

Fine(a, A) ==
    /\ a \in Actors /\ AnswersInv(a, A) /\ QueueInv(a, Sent(a), A) /\ ExecuteInv(a, Sent(a), A)
    /\ StaleInv(a, Sent(a), A) /\ GoneInv(a, A) /\ QueuedInv(a) /\ ChipInv(a)

Estimated(a) == a.preview # None /\ ~a.preview.resolved
Leads(a, b) ==
    /\ b.shown.version >= a.shown.version
    /\ ~Estimated(a) => ~Estimated(b) /\ Balance(b) >= Balance(a)

-----------------------------------------------------------------------------
(* The operators                                                           *)

LEMMA MaxOfTwo ==
    ASSUME NEW a \in Nat, NEW b \in Nat
    PROVE  /\ Max({a, b}) \in Nat /\ Max({a, b}) \in {a, b}
           /\ Max({a, b}) >= a /\ Max({a, b}) >= b
<1>1. \E x \in {a, b} : \A y \in {a, b} : x >= y
    <2>1. CASE a >= b
        BY <2>1
    <2>2. CASE ~(a >= b)
        BY <2>2
    <2> QED  BY <2>1, <2>2
<1> QED  BY <1>1 DEF Max

LEMMA SendOne ==
    ASSUME TypeOK, NEW a \in Actors, NEW b \in Actors, NEW r \in Requests,
           b.send = Append(a.send, r)
    PROVE  /\ Len(Sent(a)) \in Nat /\ Len(Sent(b)) = Len(Sent(a)) + 1
           /\ \A i \in 1..Len(Sent(a)) : Sent(b)[i] = Sent(a)[i] /\ Sent(a)[i] \in Requests
           /\ Sent(b)[Len(Sent(a)) + 1] = r
<1>1. a.send \in Seq(Requests) /\ queue \in Seq(Requests)
    BY DEF Actors, TypeOK
<1> QED  BY <1>1 DEF Sent

LEMMA ReadTypes ==
    ASSUME NEW A \in SUBSET Answers, NEW x \in A, IsRead(x)
    PROVE  x.id \in Nat /\ x.data \in Snapshots /\ x.ok \in BOOLEAN
BY DEF Answers, IsRead, ReadKinds

LEMMA AskTypes ==
    ASSUME NEW r \in Requests, r.kind = "read"
    PROVE  r.id \in Nat
BY DEF Requests

\* One more read, while no cleanup is carried out.
LEMMA AskedFine ==
    ASSUME TypeOK, NEW A \in SUBSET Answers, NEW a, Fine(a, A), ~a.executing, NEW b \in Actors,
           NEW r \in Requests, r.kind = "read", r.id = a.request + 1, b.send = Append(a.send, r),
           b.request = a.request + 1, b.applied = a.applied, b.shown = a.shown,
           b.active = a.active, b.queued = a.queued, ~b.executing
    PROVE  /\ AnswersInv(b, A) /\ QueueInv(b, Sent(b), A) /\ ExecuteInv(b, Sent(b), A)
           /\ StaleInv(b, Sent(b), A) /\ GoneInv(b, A) /\ QueuedInv(b)
<1> DEFINE n == Len(Sent(a))
<1>1. a \in Actors /\ a.request \in Nat /\ a.applied \in Nat
    BY DEF Fine, Actors
<1>2. /\ n \in Nat /\ Len(Sent(b)) = n + 1
      /\ \A i \in 1..n : Sent(b)[i] = Sent(a)[i] /\ Sent(a)[i] \in Requests
      /\ Sent(b)[n + 1] = r
    BY <1>1, SendOne
<1>3. \A x \in A : IsRead(x) => x.id \in Nat
    BY ReadTypes
<1>4. \A i \in 1..n : Sent(a)[i].kind = "read" => Sent(a)[i].id \in Nat
    BY <1>2, AskTypes
<1>5. \A i \in 1..Len(Sent(b)) : (i \in 1..n /\ Sent(b)[i] = Sent(a)[i]) \/ (i = n + 1 /\ Sent(b)[i] = r)
    BY <1>2
<1>6. AnswersInv(b, A)
    BY <1>1, <1>3 DEF Fine, AnswersInv
<1>7. QueueInv(b, Sent(b), A)
    <2> SUFFICES ASSUME NEW i \in 1..Len(Sent(b)), Asks(Sent(b), i)
                 PROVE  /\ Sent(b)[i].id <= b.request
                        /\ \A j \in 1..Len(Sent(b)) : Asks(Sent(b), j) /\ i < j => Sent(b)[i].id < Sent(b)[j].id
                        /\ \A x \in A : IsRead(x) => x.id < Sent(b)[i].id
        BY DEF QueueInv
    <2>1. QueueInv(a, Sent(a), A) /\ AnswersInv(a, A)
        BY DEF Fine
    <2>2. CASE i \in 1..n /\ Sent(b)[i] = Sent(a)[i]
        <3>1. Asks(Sent(a), i)
            BY <2>2 DEF Asks
        <3>2. /\ Sent(a)[i].id <= a.request /\ Sent(a)[i].id \in Nat
              /\ \A j \in 1..n : Asks(Sent(a), j) /\ i < j => Sent(a)[i].id < Sent(a)[j].id
              /\ \A x \in A : IsRead(x) => x.id < Sent(a)[i].id
            BY <2>1, <2>2, <3>1, <1>4 DEF QueueInv, Asks
        <3>3. \A j \in 1..Len(Sent(b)) : Asks(Sent(b), j) /\ i < j => Sent(b)[i].id < Sent(b)[j].id
            <4> TAKE j \in 1..Len(Sent(b))
            <4>1. CASE j \in 1..n /\ Sent(b)[j] = Sent(a)[j]
                BY <4>1, <2>2, <3>2 DEF Asks
            <4>2. CASE j = n + 1 /\ Sent(b)[j] = r
                BY <4>2, <2>2, <3>2, <1>1
            <4> QED  BY <4>1, <4>2, <1>5
        <3> QED  BY <2>2, <3>2, <3>3, <1>1
    <2>3. CASE i = n + 1 /\ Sent(b)[i] = r
        <3>1. \A x \in A : IsRead(x) => x.id <= a.request /\ x.id \in Nat
            BY <2>1, <1>3 DEF AnswersInv
        <3> QED  BY <2>3, <3>1, <1>1, <1>2
    <2> QED  BY <2>2, <2>3, <1>5
<1>8. ExecuteInv(b, Sent(b), A)
    <2>1. \A i \in 1..Len(Sent(b)) : ~Executes(Sent(b), i)
        <3> TAKE i \in 1..Len(Sent(b))
        <3>1. \A k \in 1..n : ~Executes(Sent(a), k)
            BY DEF Fine, ExecuteInv
        <3> QED  BY <3>1, <1>5 DEF Executes
    <2>2. \A x \in A : x.kind # "execute"
        BY DEF Fine, ExecuteInv
    <2> QED  BY <2>1, <2>2 DEF ExecuteInv
<1>9. StaleInv(b, Sent(b), A) /\ GoneInv(b, A) /\ QueuedInv(b)
    BY DEF StaleInv, Fine, GoneInv, QueuedInv
<1> QED  BY <1>6, <1>7, <1>8, <1>9

-----------------------------------------------------------------------------
(* What each operator changes                                              *)

SameView(a, b) == b.applied = a.applied /\ b.shown = a.shown
SamePoll(a, b) == b.demand = a.demand /\ b.poll = a.poll /\ b.demanded = a.demanded
SameWork(a, b) ==
    /\ b.active = a.active /\ b.queued = a.queued /\ b.executing = a.executing
    /\ b.running = a.running /\ b.cancelled = a.cancelled
SameJob(a, b) == b.active = a.active /\ b.queued = a.queued /\ b.executing = a.executing
SameChips(a, b) ==
    /\ b.preview = a.preview /\ b.wanted = a.wanted /\ b.collecting = a.collecting
    /\ b.confirmed = a.confirmed
SameAsked(a, b) == b.request = a.request /\ b.send = a.send
AsksFor(a, b, by) ==
    /\ b.request = a.request + 1
    /\ b.send = Append(a.send, [kind |-> "read", id |-> a.request + 1, by |-> by])

LEMMA ReadingShape ==
    ASSUME NEW a \in Actors, NEW by \in ReadKinds, ~a.executing, NEW b, b = Reading(a, by)
    PROVE  /\ b \in Actors /\ AsksFor(a, b, by)
           /\ SameView(a, b) /\ SamePoll(a, b) /\ SameWork(a, b) /\ SameChips(a, b)
<1> DEFINE r == [kind |-> "read", id |-> a.request + 1, by |-> by]
<1>1. b = [a EXCEPT !.request = @ + 1, !.send = Append(@, r)]
    BY DEF Reading
<1>2. r \in Requests
    BY DEF Requests, Actors
<1> DEFINE q == Append(a.send, r)
<1>5. b = [a EXCEPT !.request = a.request + 1, !.send = q]
    BY <1>1 DEF Actors
<1>6. q \in Seq(Requests) /\ a.request + 1 \in Nat
    BY <1>2 DEF Actors
<1> HIDE DEF r, q
<1>3. b \in Actors /\ b.request = a.request + 1 /\ b.send = q
    BY <1>5, <1>6 DEF Actors
<1>4. SameView(a, b) /\ SamePoll(a, b) /\ SameWork(a, b) /\ SameChips(a, b)
    BY <1>1 DEF Actors, SameView, SamePoll, SameWork, SameChips
<1> QED  BY <1>3, <1>4 DEF AsksFor, r, q

LEMMA QueuedFinite ==
    ASSUME NEW s \in Seq(Items)
    PROVE  IsFiniteSet(ToSet(s)) /\ ToSet(s) = {s[k] : k \in 1..Len(s)}
<1>1. ToSet(s) = {s[k] : k \in 1..Len(s)}
    BY DEF ToSet
<1>2. Len(s) \in Nat /\ IsFiniteSet(1..Len(s))
    BY FS_Interval
<1>3. s \in Surjection(1..Len(s), ToSet(s))
    BY <1>1 DEF Surjection
<1> QED  BY <1>1, <1>2, <1>3, FS_Surjection

LEMMA ReconciledShape ==
    ASSUME NEW a \in Actors, None \notin Previews, NEW b, b = Reconciled(a)
    PROVE  /\ b \in Actors
           /\ SameAsked(a, b) /\ SameView(a, b) /\ SamePoll(a, b) /\ SameWork(a, b)
           /\ b.wanted = a.wanted /\ b.collecting = a.collecting /\ b.confirmed = a.confirmed
           /\ ~Estimated(a) => b.preview = a.preview
           /\ Estimated(a) => /\ b.preview \in Previews
                              /\ b.preview.resolved <=> Outstanding(a) = {}
                              /\ b.preview.resolved => b.preview.target <= Earned(a)
<1>1. CASE ~Estimated(a)
    BY <1>1 DEF Reconciled, Estimated, SameAsked, SameView, SamePoll, SameWork
<1>2. ASSUME Estimated(a) PROVE /\ IsFiniteSet(Outstanding(a)) /\ Cardinality(Outstanding(a)) \in Nat
                                /\ Outstanding(a) = {} => Cardinality(Outstanding(a)) = 0
    <2>1. IsFiniteSet(ToSet(a.queued))
        BY QueuedFinite DEF Actors
    <2> QED  BY <2>1, FS_Union, FS_Singleton, FS_EmptySet, FS_CardinalityType DEF Outstanding
<1>3. ASSUME Estimated(a) PROVE a.preview \in Previews /\ Earned(a) \in Nat
    <2>1. a.confirmed \in Nat /\ a.shown.collected + a.shown.pending \in Nat
        BY DEF Actors, Snapshots
    <2>2. Earned(a) \in Nat
        BY <2>1, MaxOfTwo DEF Earned
    <2> QED  BY <1>3, <2>2 DEF Estimated, Actors
<1>4. CASE Estimated(a)
    <2> DEFINE t == Earned(a) + Cardinality(Outstanding(a))
               o == Outstanding(a) = {}
               p == [a.preview EXCEPT !.target = t, !.resolved = o]
    <2>1. b = [a EXCEPT !.preview.target = t, !.preview.resolved = o]
        BY <1>4 DEF Reconciled, Estimated
    <2>2. t \in Nat /\ o \in BOOLEAN
        BY <1>2, <1>3, <1>4
    <2>3. o => t <= Earned(a)
        BY <1>2, <1>3, <1>4
    <2> HIDE DEF t, o
    <2>4. b = [a EXCEPT !.preview = p]
        BY <2>1, <1>3, <1>4 DEF Actors, Previews
    <2>5. p \in Previews /\ p.target = t /\ p.resolved = o
        BY <2>2, <1>3, <1>4 DEF Previews
    <2> HIDE DEF p
    <2>6. b \in Actors /\ b.preview = p
        BY <2>4, <2>5 DEF Actors
    <2>7. /\ SameAsked(a, b) /\ SameView(a, b) /\ SamePoll(a, b) /\ SameWork(a, b)
          /\ b.wanted = a.wanted /\ b.collecting = a.collecting /\ b.confirmed = a.confirmed
        BY <2>4 DEF Actors, SameAsked, SameView, SamePoll, SameWork
    <2> QED  BY <1>4, <2>3, <2>5, <2>6, <2>7 DEF o
<1> QED  BY <1>1, <1>4

LEMMA StartedShape ==
    ASSUME NEW a \in Actors, NEW b, b = Started(a)
    PROVE  \/ b = a
           \/ /\ b \in Actors /\ a.active = None /\ a.queued # <<>> /\ ~a.cancelled
              /\ b.active = Head(a.queued) /\ b.queued = Tail(a.queued) /\ b.executing /\ b.running
              /\ b.shown = [a.shown EXCEPT !.cleaning = TRUE]
              /\ b.request = a.request + 1 /\ b.applied = a.request + 1
              /\ b.send = Append(a.send, [kind |-> "execute", id |-> Head(a.queued)])
              /\ b.cancelled = a.cancelled /\ SamePoll(a, b) /\ SameChips(a, b)
<1>1. CASE a.active # None \/ a.queued = <<>> \/ a.cancelled
    BY <1>1 DEF Started
<1>2. CASE a.active = None /\ a.queued # <<>> /\ ~a.cancelled
    <2> DEFINE r == [kind |-> "execute", id |-> Head(a.queued)]
               q == Tail(a.queued)
               s == [a.shown EXCEPT !.cleaning = TRUE]
    <2>1. Head(a.queued) \in Items /\ q \in Seq(Items) /\ r \in Requests
        BY <1>2 DEF Actors, Requests
    <2>2. s \in Snapshots
        BY DEF Actors, Snapshots
    <2>3. b = [a EXCEPT !.active = Head(a.queued), !.queued = Tail(@),
                        !.executing = TRUE, !.running = TRUE, !.shown.cleaning = TRUE,
                        !.request = @ + 1, !.applied = a.request + 1,
                        !.send = Append(@, r)]
        BY <1>2 DEF Started
    <2>4. b = [a EXCEPT !.active = Head(a.queued), !.queued = q, !.executing = TRUE, !.running = TRUE,
                        !.shown = s, !.request = a.request + 1, !.applied = a.request + 1,
                        !.send = Append(a.send, r)]
        BY <2>3 DEF Actors
    <2> DEFINE h == Head(a.queued)
               w == Append(a.send, r)
               n == a.request + 1
    <2>8. w \in Seq(Requests) /\ n \in Nat
        BY <2>1 DEF Actors
    <2>9. h \in Items /\ q \in Seq(Items)
        BY <2>1
    <2> HIDE DEF r, q, s, h, w, n
    <2>5. b = [a EXCEPT !.active = h, !.queued = q, !.executing = TRUE, !.running = TRUE,
                        !.shown = s, !.request = n, !.applied = n, !.send = w]
        BY <2>4 DEF h, w, n
    <2> DEFINE c == [a EXCEPT !.active = h, !.queued = q, !.executing = TRUE, !.running = TRUE]
    <2>6. c \in Actors
        BY <2>9 DEF Actors
    <2>7. b = [c EXCEPT !.shown = s, !.request = n, !.applied = n, !.send = w]
        BY <2>5
    <2>10. /\ c.active = h /\ c.queued = q /\ c.executing /\ c.running
           /\ c.cancelled = a.cancelled /\ SamePoll(a, c) /\ SameChips(a, c)
        BY DEF Actors, SamePoll, SameChips
    <2> HIDE DEF c
    <2>11. /\ b.active = h /\ b.queued = q /\ b.executing /\ b.running /\ b.shown = s
           /\ b.request = n /\ b.applied = n /\ b.send = w
           /\ b.cancelled = a.cancelled /\ SamePoll(a, b) /\ SameChips(a, b)
        BY <2>6, <2>7, <2>10 DEF Actors, SamePoll, SameChips
    <2>12. b \in Actors
        BY <2>2, <2>6, <2>7, <2>8 DEF Actors
    <2> QED  BY <1>2, <2>11, <2>12 DEF h, q, s, r, w, n
<1> QED  BY <1>1, <1>2

LEMMA CollectingShape ==
    ASSUME NEW a \in Actors, NEW b, b = Collecting(a)
    PROVE  \/ b = a
           \/ /\ b \in Actors /\ a.wanted /\ ~a.collecting /\ ~b.wanted /\ b.collecting
              /\ ~Estimated(a) /\ Outstanding(a) = {} /\ ~a.executing
              /\ b.request = a.request /\ b.send = Append(a.send, [kind |-> "collect", id |-> 0])
              /\ SameView(a, b) /\ SamePoll(a, b) /\ SameWork(a, b)
              /\ b.preview = a.preview /\ b.confirmed = a.confirmed
<1> DEFINE r == [kind |-> "collect", id |-> 0]
           may == a.wanted /\ ~a.collecting /\ ~HasWork(a) /\ (a.preview = None \/ a.preview.resolved)
<1>1. CASE ~may
    BY <1>1 DEF Collecting
<1>2. CASE may
    <2> DEFINE w == Append(a.send, r)
    <2>1. b = [a EXCEPT !.wanted = FALSE, !.collecting = TRUE, !.send = w]
        BY <1>2 DEF Collecting, Actors
    <2>2. w \in Seq(Requests)
        BY DEF Requests, Actors
    <2>3. a.wanted /\ ~a.collecting /\ ~Estimated(a) /\ Outstanding(a) = {} /\ ~a.executing
        BY <1>2 DEF HasWork, Estimated
    <2> HIDE DEF r, w, may
    <2>4. b \in Actors
        BY <2>1, <2>2 DEF Actors
    <2>5. /\ ~b.wanted /\ b.collecting /\ b.request = a.request /\ b.send = w
          /\ SameView(a, b) /\ SamePoll(a, b) /\ SameWork(a, b)
          /\ b.preview = a.preview /\ b.confirmed = a.confirmed
        BY <2>1 DEF Actors, SameView, SamePoll, SameWork
    <2> QED  BY <2>3, <2>4, <2>5 DEF r, w
<1> QED  BY <1>1, <1>2

LEMMA RetiredShape ==
    ASSUME NEW a \in Actors, NEW b, b = Retired(a)
    PROVE  \/ b = a
           \/ /\ b \in Actors /\ b.preview = None
              /\ a.preview # None /\ a.preview.resolved
              /\ Max({a.confirmed, a.shown.collected}) >= a.preview.target
              /\ SameAsked(a, b) /\ SameView(a, b) /\ SamePoll(a, b) /\ SameWork(a, b)
              /\ b.wanted = a.wanted /\ b.collecting = a.collecting /\ b.confirmed = a.confirmed
<1> DEFINE may == /\ a.preview # None /\ a.preview.resolved /\ a.preview.finished
                  /\ Max({a.confirmed, a.shown.collected}) >= a.preview.target
<1>1. CASE ~may
    BY <1>1 DEF Retired
<1>2. CASE may
    <2>1. b = [a EXCEPT !.preview = None]
        BY <1>2 DEF Retired
    <2>2. b \in Actors /\ b.preview = None
        BY <2>1 DEF Actors
    <2>3. /\ SameAsked(a, b) /\ SameView(a, b) /\ SamePoll(a, b) /\ SameWork(a, b)
          /\ b.wanted = a.wanted /\ b.collecting = a.collecting /\ b.confirmed = a.confirmed
        BY <2>1 DEF Actors, SameAsked, SameView, SamePoll, SameWork
    <2> QED  BY <1>2, <2>2, <2>3
<1> QED  BY <1>1, <1>2

-----------------------------------------------------------------------------
(* What each operator keeps                                                *)

LEMMA ChipAmounts ==
    ASSUME NEW a \in Actors
    PROVE  /\ Earned(a) \in Nat /\ a.confirmed \in Nat /\ a.shown.collected \in Nat
           /\ a.shown.pending \in Nat /\ a.shown.version \in Nat
           /\ Earned(a) >= a.confirmed /\ Earned(a) >= a.shown.collected + a.shown.pending
           /\ Max({a.confirmed, a.shown.collected}) \in Nat
           /\ Max({a.confirmed, a.shown.collected}) <= Earned(a)
           /\ Balance(a) \in Nat
           /\ a.preview # None => a.preview \in Previews /\ a.preview.target \in Nat
           /\ a.preview = None => Balance(a) = Max({a.confirmed, a.shown.collected})
           /\ a.preview # None => Balance(a) = a.preview.target
<1>1. /\ a.confirmed \in Nat /\ a.shown.collected \in Nat /\ a.shown.pending \in Nat
      /\ a.shown.version \in Nat
    BY DEF Actors, Snapshots
<1> DEFINE s == a.shown.collected + a.shown.pending
<1>2. s \in Nat /\ s >= a.shown.collected
    BY <1>1
<1>3. /\ Earned(a) \in Nat /\ Earned(a) >= a.confirmed /\ Earned(a) >= s
    BY <1>1, <1>2, MaxOfTwo DEF Earned
<1> DEFINE m == Max({a.confirmed, a.shown.collected})
<1>4. m \in Nat /\ m \in {a.confirmed, a.shown.collected}
    BY <1>1, MaxOfTwo
<1>5. a.preview # None => a.preview \in Previews /\ a.preview.target \in Nat
    BY DEF Actors, Previews
<1>6. Balance(a) = IF a.preview # None THEN a.preview.target ELSE m
    BY DEF Balance
<1> HIDE DEF s, m
<1>7. m <= Earned(a) /\ Balance(a) \in Nat
    BY <1>1, <1>2, <1>3, <1>4, <1>5, <1>6
<1> QED  BY <1>1, <1>3, <1>4, <1>5, <1>6, <1>7 DEF s, m

LEMMA CalmFine ==
    ASSUME NEW A, NEW a, Fine(a, A), NEW b \in Actors,
           SameAsked(a, b), SameView(a, b), SameJob(a, b), ChipInv(b)
    PROVE  Fine(b, A)
<1>1. Sent(b) = Sent(a)
    BY DEF Sent, SameAsked
<1>2. AnswersInv(b, A) /\ QueueInv(b, Sent(b), A) /\ ExecuteInv(b, Sent(b), A)
    BY <1>1 DEF Fine, AnswersInv, QueueInv, ExecuteInv, SameAsked, SameView, SameJob
<1>3. StaleInv(b, Sent(b), A) /\ GoneInv(b, A) /\ QueuedInv(b)
    BY <1>1 DEF Fine, StaleInv, GoneInv, QueuedInv, SameAsked, SameView, SameJob
<1> QED  BY <1>2, <1>3 DEF Fine

LEMMA SameEarned ==
    ASSUME NEW a, NEW b, b.confirmed = a.confirmed, SameView(a, b)
    PROVE  Earned(b) = Earned(a)
BY DEF Earned, SameView

LEMMA LeadsOn ==
    ASSUME NEW a \in Actors, NEW b \in Actors, NEW c \in Actors, Leads(a, b), Leads(b, c)
    PROVE  Leads(a, c)
<1>1. /\ Balance(a) \in Nat /\ Balance(b) \in Nat /\ Balance(c) \in Nat
      /\ a.shown.version \in Nat /\ b.shown.version \in Nat /\ c.shown.version \in Nat
    BY ChipAmounts
<1> QED  BY <1>1 DEF Leads

LEMMA LeadsSame ==
    ASSUME NEW a \in Actors, NEW b \in Actors, SameView(a, b), b.preview = a.preview,
           b.confirmed = a.confirmed
    PROVE  Leads(a, b)
<1>1. Balance(b) = Balance(a) /\ Balance(a) \in Nat /\ a.shown.version \in Nat
    BY ChipAmounts DEF Balance, SameView
<1> QED  BY <1>1 DEF Leads, Estimated, SameView

LEMMA ReadingStep ==
    ASSUME TypeOK, NEW A \in SUBSET Answers, NEW a, Fine(a, A), NEW by \in ReadKinds,
           NEW b, b = Reading(a, by)
    PROVE  /\ Fine(b, A) /\ Leads(a, b)
           /\ SameView(a, b) /\ SamePoll(a, b) /\ SameWork(a, b) /\ SameChips(a, b)
<1>1. a \in Actors
    BY DEF Fine
<1>2. CASE a.executing
    <2>1. b = a
        BY <1>2 DEF Reading
    <2> QED  BY <1>1, <2>1, LeadsSame DEF SameView, SamePoll, SameWork, SameChips
<1>3. CASE ~a.executing
    <2>1. /\ b \in Actors /\ AsksFor(a, b, by)
          /\ SameView(a, b) /\ SamePoll(a, b) /\ SameWork(a, b) /\ SameChips(a, b)
        BY <1>1, <1>3, ReadingShape
    <2> DEFINE r == [kind |-> "read", id |-> a.request + 1, by |-> by]
    <2>2. r \in Requests /\ r.kind = "read" /\ r.id = a.request + 1
        BY <1>1 DEF Requests, Actors
    <2> HIDE DEF r
    <2>3. b.request = a.request + 1 /\ b.send = Append(a.send, r)
        BY <2>1 DEF AsksFor, r
    <2>4. /\ AnswersInv(b, A) /\ QueueInv(b, Sent(b), A) /\ ExecuteInv(b, Sent(b), A)
          /\ StaleInv(b, Sent(b), A) /\ GoneInv(b, A) /\ QueuedInv(b)
        BY <1>3, <2>1, <2>2, <2>3, AskedFine DEF SameView, SameWork
    <2>5. Earned(b) = Earned(a)
        BY <2>1, SameEarned DEF SameChips
    <2>6. ChipInv(b)
        BY <2>1, <2>5 DEF Fine, ChipInv, SameChips
    <2>7. Leads(a, b)
        BY <1>1, <2>1, LeadsSame DEF SameChips
    <2> QED  BY <2>1, <2>4, <2>6, <2>7 DEF Fine
<1> QED  BY <1>2, <1>3

LEMMA ReconciledStep ==
    ASSUME NEW A, NEW a, Fine(a, A), None \notin Previews, NEW b, b = Reconciled(a)
    PROVE  /\ Fine(b, A) /\ Leads(a, b)
           /\ SameAsked(a, b) /\ SameView(a, b) /\ SamePoll(a, b) /\ SameWork(a, b)
<1>1. a \in Actors /\ ChipInv(a)
    BY DEF Fine
<1>2. /\ b \in Actors
      /\ SameAsked(a, b) /\ SameView(a, b) /\ SamePoll(a, b) /\ SameWork(a, b)
      /\ b.confirmed = a.confirmed
      /\ ~Estimated(a) => b.preview = a.preview
      /\ Estimated(a) /\ b.preview.resolved => b.preview.target <= Earned(a)
    BY <1>1, ReconciledShape
<1>3. Earned(b) = Earned(a)
    BY <1>2, SameEarned
<1>4. ChipInv(b)
    BY <1>1, <1>2, <1>3 DEF ChipInv
<1>5. Leads(a, b)
    <2>1. CASE ~Estimated(a)
        BY <2>1, <1>1, <1>2, LeadsSame
    <2>2. CASE Estimated(a)
        <3>1. a.shown.version \in Nat
            BY <1>1, ChipAmounts
        <3> QED  BY <2>2, <3>1, <1>2 DEF Leads, SameView
    <2> QED  BY <2>1, <2>2
<1>6. SameJob(a, b)
    BY <1>2 DEF SameWork, SameJob
<1> QED  BY <1>2, <1>4, <1>5, <1>6, CalmFine

LEMMA RetiredStep ==
    ASSUME NEW A, NEW a, Fine(a, A), NEW b, b = Retired(a)
    PROVE  /\ Fine(b, A) /\ Leads(a, b)
           /\ SameAsked(a, b) /\ SameView(a, b) /\ SamePoll(a, b) /\ SameWork(a, b)
           /\ b.confirmed = a.confirmed /\ b.wanted = a.wanted /\ b.collecting = a.collecting
<1>1. a \in Actors /\ ChipInv(a)
    BY DEF Fine
<1>2. CASE b = a
    BY <1>1, <1>2, LeadsSame DEF SameAsked, SameView, SamePoll, SameWork
<1>3. CASE b # a
    <2>1. /\ b \in Actors /\ b.preview = None
          /\ a.preview # None /\ a.preview.resolved
          /\ Max({a.confirmed, a.shown.collected}) >= a.preview.target
          /\ SameAsked(a, b) /\ SameView(a, b) /\ SamePoll(a, b) /\ SameWork(a, b)
          /\ b.wanted = a.wanted /\ b.collecting = a.collecting /\ b.confirmed = a.confirmed
        BY <1>1, <1>3, RetiredShape
    <2>2. ChipInv(b)
        BY <2>1 DEF ChipInv
    <2>3. Balance(a) = a.preview.target /\ Balance(b) = Max({b.confirmed, b.shown.collected})
        BY <2>1 DEF Balance
    <2>4. Balance(b) >= Balance(a)
        BY <2>1, <2>3 DEF SameView
    <2>5. a.shown.version \in Nat /\ ~Estimated(b)
        BY <1>1, <2>1, ChipAmounts DEF Estimated
    <2>6. Leads(a, b)
        BY <2>1, <2>4, <2>5 DEF Leads, SameView
    <2>7. SameJob(a, b)
        BY <2>1 DEF SameWork, SameJob
    <2> QED  BY <2>1, <2>2, <2>6, <2>7, CalmFine
<1> QED  BY <1>2, <1>3

LEMMA CollectingStep ==
    ASSUME TypeOK, NEW A \in SUBSET Answers, NEW a, Fine(a, A), NEW b, b = Collecting(a)
    PROVE  Fine(b, A) /\ Leads(a, b) /\ SameView(a, b) /\ SamePoll(a, b) /\ SameWork(a, b)
<1>1. a \in Actors
    BY DEF Fine
<1>2. CASE b = a
    BY <1>1, <1>2, LeadsSame DEF SameView, SamePoll, SameWork
<1>3. CASE b # a
    <2> DEFINE r == [kind |-> "collect", id |-> 0]
               n == Len(Sent(a))
    <2>1. /\ b \in Actors /\ b.request = a.request /\ b.send = Append(a.send, r)
          /\ SameView(a, b) /\ SamePoll(a, b) /\ SameWork(a, b)
          /\ b.preview = a.preview /\ b.confirmed = a.confirmed
        BY <1>1, <1>3, CollectingShape
    <2>2. r \in Requests /\ r.kind = "collect"
        BY DEF Requests
    <2> HIDE DEF r
    <2>3. /\ n \in Nat /\ Len(Sent(b)) = n + 1
          /\ \A i \in 1..n : Sent(b)[i] = Sent(a)[i]
          /\ Sent(b)[n + 1] = r
        BY <1>1, <2>1, <2>2, SendOne
    <2>4. \A i \in 1..Len(Sent(b)) : (i \in 1..n /\ Sent(b)[i] = Sent(a)[i]) \/ Sent(b)[i].kind = "collect"
        BY <2>2, <2>3
    <2>5. \A i \in 1..Len(Sent(b)) : /\ Asks(Sent(b), i) => Asks(Sent(a), i) /\ Sent(b)[i] = Sent(a)[i]
                                     /\ Executes(Sent(b), i) => Executes(Sent(a), i) /\ Sent(b)[i] = Sent(a)[i]
        BY <2>4 DEF Asks, Executes
    <2>6. \A i : /\ Asks(Sent(b), i) => i \in 1..n /\ i \in 1..Len(Sent(b))
                 /\ Executes(Sent(b), i) => i \in 1..n /\ i \in 1..Len(Sent(b))
        BY <2>5 DEF Asks, Executes
    <2> HIDE DEF n
    <2>7. AnswersInv(b, A) /\ GoneInv(b, A) /\ QueuedInv(b)
        BY <2>1 DEF Fine, AnswersInv, GoneInv, QueuedInv, SameView, SameWork
    <2>8. QueueInv(b, Sent(b), A)
        BY <2>1, <2>5, <2>6 DEF Fine, QueueInv, n
    <2>9. ExecuteInv(b, Sent(b), A)
        <3>1. ExecuteInv(a, Sent(a), A)
            BY DEF Fine
        <3> QED  BY <3>1, <2>1, <2>5, <2>6 DEF ExecuteInv, SameWork, n
    <2>10. StaleInv(b, Sent(b), A)
        BY <2>1, <2>5, <2>6 DEF Fine, StaleInv, SameWork, SameView, n
    <2>11. ChipInv(b)
        BY <2>1, SameEarned DEF Fine, ChipInv
    <2>12. Leads(a, b)
        BY <1>1, <2>1, LeadsSame
    <2> QED  BY <2>1, <2>7, <2>8, <2>9, <2>10, <2>11, <2>12 DEF Fine
<1> QED  BY <1>2, <1>3

\* What starting a cleanup leaves of the balance.
SameMoney(a, b) ==
    /\ b.shown.version = a.shown.version /\ b.shown.collected = a.shown.collected
    /\ b.shown.pending = a.shown.pending /\ b.preview = a.preview /\ b.confirmed = a.confirmed

LEMMA SameMoneyLeads ==
    ASSUME NEW a \in Actors, NEW b \in Actors, SameMoney(a, b)
    PROVE  Leads(a, b) /\ Earned(b) = Earned(a) /\ Balance(b) = Balance(a)
<1>1. a.shown.version \in Nat /\ Balance(a) \in Nat
    BY ChipAmounts
<1>2. Earned(b) = Earned(a) /\ Balance(b) = Balance(a)
    BY DEF SameMoney, Earned, Balance
<1> QED  BY <1>1, <1>2 DEF Leads, Estimated, SameMoney

LEMMA StartedStep ==
    ASSUME TypeOK, None \notin Items, NEW A \in SUBSET Answers, NEW a, Fine(a, A),
           NEW b, b = Started(a)
    PROVE  Fine(b, A) /\ Leads(a, b) /\ SamePoll(a, b) /\ SameMoney(a, b)
<1>1. a \in Actors
    BY DEF Fine
<1>2. CASE b = a
    BY <1>1, <1>2, SameMoneyLeads DEF SamePoll, SameMoney
<1>3. CASE b # a
    <2> DEFINE r == [kind |-> "execute", id |-> Head(a.queued)]
               n == Len(Sent(a))
               h == Head(a.queued)
    <2>1. /\ b \in Actors /\ a.active = None /\ a.queued # <<>>
          /\ b.active = h /\ b.queued = Tail(a.queued) /\ b.executing
          /\ b.shown = [a.shown EXCEPT !.cleaning = TRUE]
          /\ b.request = a.request + 1 /\ b.applied = a.request + 1
          /\ b.send = Append(a.send, r) /\ SamePoll(a, b) /\ SameChips(a, b)
        BY <1>1, <1>3, StartedShape
    <2>2. h \in Items /\ r \in Requests /\ r.kind = "execute" /\ r.id = h
        <3>1. h \in Items
            BY <1>1, <2>1 DEF Actors
        <3> QED  BY <3>1 DEF Requests
    <2> HIDE DEF r
    <2>3. /\ n \in Nat /\ Len(Sent(b)) = n + 1
          /\ \A i \in 1..n : Sent(b)[i] = Sent(a)[i] /\ Sent(a)[i] \in Requests
          /\ Sent(b)[n + 1] = r
        BY <1>1, <2>1, <2>2, SendOne
    <2>4. \A i \in 1..n + 1 : (i \in 1..n /\ Sent(b)[i] = Sent(a)[i]) \/ (i = n + 1 /\ Sent(b)[i] = r)
        BY <2>3
    <2> HIDE DEF n, h
    <2>5. a.request \in Nat /\ ~a.executing
        BY <1>1, <2>1 DEF Actors, Fine, ExecuteInv
    <2>6. /\ \A i \in 1..n : ~Executes(Sent(a), i)
          /\ \A x \in A : x.kind # "execute"
        BY <2>5 DEF Fine, ExecuteInv, n
    <2>7. /\ \A x \in A : IsRead(x) => x.id \in Nat /\ x.id <= a.request
          /\ \A i \in 1..n : Asks(Sent(a), i) => Sent(a)[i].id \in Nat /\ Sent(a)[i].id <= a.request
        <3>1. \A x \in A : IsRead(x) => x.id \in Nat /\ x.id <= a.request
            BY ReadTypes DEF Fine, AnswersInv
        <3>2. \A i \in 1..n : Asks(Sent(a), i) => Sent(a)[i].id \in Nat /\ Sent(a)[i].id <= a.request
            BY <2>3, AskTypes DEF Fine, QueueInv, Asks, n
        <3> QED  BY <3>1, <3>2
    <2>8. /\ b.shown.version = a.shown.version /\ b.shown.collected = a.shown.collected
          /\ b.shown.pending = a.shown.pending /\ b.shown.present = a.shown.present
        BY <1>1, <2>1 DEF Actors, Snapshots
    <2>9. AnswersInv(b, A)
        <3>1. \A x \in A : IsRead(x) => ~(x.id >= b.applied)
            BY <2>1, <2>5, <2>7
        <3>2. b.applied <= b.request /\ Later(b.shown, Snapshot)
            BY <2>1, <2>5, <2>8 DEF Fine, AnswersInv, Later
        <3>3. \A x \in A : IsRead(x) => x.id <= b.request
            BY <2>1, <2>5, <2>7
        <3> QED  BY <3>1, <3>2, <3>3 DEF Fine, AnswersInv
    <2>10. \A i \in 1..n + 1 : Asks(Sent(b), i) => i \in 1..n /\ Asks(Sent(a), i) /\ Sent(b)[i] = Sent(a)[i]
        BY <2>2, <2>3, <2>4 DEF Asks, n
    <2>11. QueueInv(b, Sent(b), A)
        <3> SUFFICES ASSUME NEW i \in 1..n + 1, Asks(Sent(b), i)
                     PROVE  /\ Sent(b)[i].id <= b.request
                            /\ \A j \in 1..n + 1 : Asks(Sent(b), j) /\ i < j => Sent(b)[i].id < Sent(b)[j].id
                            /\ \A x \in A : IsRead(x) => x.id < Sent(b)[i].id
            BY <2>3 DEF QueueInv, n
        <3>1. /\ \A j \in 1..n : Asks(Sent(a), j) /\ i < j => Sent(a)[i].id < Sent(a)[j].id
              /\ \A x \in A : IsRead(x) => x.id < Sent(a)[i].id
            BY <2>10 DEF Fine, QueueInv, n
        <3>2. Sent(b)[i].id <= b.request
            BY <2>1, <2>5, <2>7, <2>10
        <3> QED  BY <3>1, <3>2, <2>10
    <2>12. ExecuteInv(b, Sent(b), A)
        <3>1. \A i \in 1..n + 1 : Executes(Sent(b), i) => i = n + 1 /\ Sent(b)[i].id = b.active
            BY <2>1, <2>2, <2>3, <2>4, <2>6 DEF Executes, n
        <3>2. b.active # None
            BY <2>1, <2>2
        <3> QED  BY <2>1, <2>3, <2>6, <3>1, <3>2 DEF ExecuteInv, n
    <2>13. StaleInv(b, Sent(b), A)
        <3>1. \A x \in A : IsRead(x) => x.id < b.applied
            BY <2>1, <2>5, <2>7
        <3>2. \A i \in 1..n + 1 : Asks(Sent(b), i) => Sent(b)[i].id < b.applied
            BY <2>1, <2>5, <2>7, <2>10
        <3> QED  BY <2>3, <3>1, <3>2 DEF StaleInv, n
    <2>14. GoneInv(b, A)
        <3>1. a.shown.present \subseteq Items
            BY <1>1 DEF Actors, Snapshots
        <3>2. b.shown.present \cap cleaned = {}
            BY <2>1, <2>8, <3>1 DEF Fine, GoneInv
        <3>3. \A x \in A : IsRead(x) => ~(x.id >= b.applied)
            BY <2>1, <2>5, <2>7
        <3> QED  BY <3>2, <3>3 DEF Fine, GoneInv
    <2>15. QueuedInv(b)
        <3>1. a.queued \in Seq(Items)
            BY <1>1 DEF Actors
        <3>2. /\ Len(b.queued) = Len(a.queued) - 1 /\ Len(a.queued) \in Nat /\ Len(a.queued) >= 1
              /\ h = a.queued[1]
              /\ \A k \in 1..Len(b.queued) : b.queued[k] = a.queued[k + 1]
            BY <2>1, <3>1 DEF h
        <3>3. \A k \in 1..Len(b.queued) : k + 1 \in 1..Len(a.queued) /\ k + 1 # 1
            BY <3>2
        <3>4. 1 \in 1..Len(a.queued)
            BY <3>2
        <3>5. \A k, l \in 1..Len(a.queued) : a.queued[k] = a.queued[l] => k = l
            BY DEF Fine, QueuedInv
        <3>6. \A k \in 1..Len(a.queued) : a.queued[k] \notin cleaned
            BY DEF Fine, QueuedInv
        <3> SUFFICES ASSUME NEW k \in 1..Len(b.queued)
                     PROVE  /\ b.queued[k] \notin cleaned /\ b.queued[k] # b.active
                            /\ \A l \in 1..Len(b.queued) : b.queued[k] = b.queued[l] => k = l
            BY DEF QueuedInv
        <3>7. b.queued[k] \notin cleaned /\ b.queued[k] # b.active
            BY <2>1, <3>2, <3>3, <3>4, <3>5, <3>6
        <3>8. ASSUME NEW l \in 1..Len(b.queued), b.queued[k] = b.queued[l] PROVE k = l
            <4>1. k + 1 = l + 1
                BY <3>2, <3>3, <3>5, <3>8
            <4> QED  BY <4>1, <3>2
        <3> QED  BY <3>7, <3>8
    <2>16. SameMoney(a, b)
        BY <2>1, <2>8 DEF SameMoney, SameChips
    <2>17. ChipInv(b)
        BY <1>1, <2>1, <2>16, SameMoneyLeads DEF Fine, ChipInv, SameMoney
    <2>18. Leads(a, b)
        BY <1>1, <2>1, <2>16, SameMoneyLeads
    <2> QED  BY <2>1, <2>9, <2>11, <2>12, <2>13, <2>14, <2>15, <2>16, <2>17, <2>18 DEF Fine
<1> QED  BY <1>2, <1>3

LEMMA PolledStep ==
    ASSUME TypeOK, NEW A \in SUBSET Answers, NEW a, Fine(a, A), NEW b, b = Polled(a)
    PROVE  Fine(b, A) /\ Leads(a, b) /\ SameView(a, b) /\ SameWork(a, b) /\ SameChips(a, b)
<1>1. a \in Actors /\ ChipInv(a)
    BY DEF Fine
<1>2. CASE a.executing
    <2>1. b = a
        BY <1>2 DEF Polled
    <2> QED  BY <1>1, <2>1, LeadsSame DEF SameView, SameWork, SameChips
<1> DEFINE n == a.demand + 1
<1>3. n \in Nat
    BY <1>1 DEF Actors
<1>4. CASE ~a.executing /\ a.poll # "none"
    <2>1. b = [a EXCEPT !.demand = n]
        BY <1>1, <1>4 DEF Polled, Actors
    <2> HIDE DEF n
    <2>2. b \in Actors
        BY <1>1, <1>3, <2>1 DEF Actors
    <2>3. SameView(a, b) /\ SameWork(a, b) /\ SameChips(a, b) /\ SameAsked(a, b) /\ SameJob(a, b)
        BY <1>1, <2>1 DEF Actors, SameView, SameWork, SameChips, SameAsked, SameJob
    <2>4. ChipInv(b)
        BY <1>1, <2>3, SameEarned DEF ChipInv, SameChips
    <2> QED  BY <1>1, <2>2, <2>3, <2>4, CalmFine, LeadsSame DEF SameChips
<1>5. CASE ~a.executing /\ a.poll = "none"
    <2> DEFINE c == [a EXCEPT !.demand = n, !.poll = "reading", !.demanded = n]
    <2>1. b = Reading(c, "poll")
        BY <1>1, <1>5 DEF Polled, Actors
    <2> HIDE DEF n
    <2>2. c \in Actors
        BY <1>1, <1>3 DEF Actors
    <2>3. SameView(a, c) /\ SameWork(a, c) /\ SameChips(a, c) /\ SameAsked(a, c) /\ SameJob(a, c)
        BY <1>1 DEF Actors, SameView, SameWork, SameChips, SameAsked, SameJob
    <2> HIDE DEF c
    <2>4. ChipInv(c)
        BY <1>1, <2>3, SameEarned DEF ChipInv, SameChips
    <2>5. Fine(c, A)
        BY <2>2, <2>3, <2>4, CalmFine
    <2>6. "poll" \in ReadKinds
        BY DEF ReadKinds
    <2>7. Fine(b, A) /\ SameView(c, b) /\ SameWork(c, b) /\ SameChips(c, b)
        BY <2>1, <2>5, <2>6, ReadingStep
    <2>8. SameView(a, b) /\ SameWork(a, b) /\ SameChips(a, b) /\ b \in Actors
        BY <2>3, <2>7 DEF SameView, SameWork, SameChips, Fine
    <2> QED  BY <1>1, <2>7, <2>8, LeadsSame DEF SameChips
<1> QED  BY <1>2, <1>4, <1>5

LEMMA CollectStep ==
    ASSUME TypeOK, NEW A \in SUBSET Answers, NEW a, Fine(a, A), NEW b, b = Collect(a)
    PROVE  Fine(b, A) /\ Leads(a, b) /\ SameView(a, b)
<1> DEFINE c == [a EXCEPT !.wanted = TRUE]
           d == IF c.preview # None /\ ~c.preview.resolved /\ ~c.executing THEN Polled(c) ELSE c
<1>1. a \in Actors /\ ChipInv(a)
    BY DEF Fine
<1>2. b = Collecting(d)
    BY DEF Collect
<1>3. c \in Actors /\ SameView(a, c) /\ SameJob(a, c) /\ SameAsked(a, c)
      /\ c.preview = a.preview /\ c.confirmed = a.confirmed
    BY <1>1 DEF Actors, SameView, SameJob, SameAsked
<1> HIDE DEF c
<1>4. Fine(c, A) /\ Leads(a, c)
    <2>1. ChipInv(c)
        BY <1>1, <1>3, SameEarned DEF ChipInv
    <2> QED  BY <1>1, <1>3, <2>1, CalmFine, LeadsSame
<1>5. Fine(d, A) /\ Leads(c, d) /\ SameView(c, d)
    <2>1. CASE d = c
        BY <1>3, <1>4, <2>1, LeadsSame DEF SameView
    <2>2. CASE d = Polled(c)
        <3> HIDE DEF d
        <3> QED  BY <1>4, <2>2, PolledStep
    <2> QED  BY <2>1, <2>2
<1> HIDE DEF d
<1>6. Fine(b, A) /\ Leads(d, b) /\ SameView(d, b)
    BY <1>2, <1>5, CollectingStep
<1>7. d \in Actors /\ b \in Actors
    BY <1>5, <1>6 DEF Fine
<1>8. Leads(a, d)
    BY <1>1, <1>3, <1>4, <1>5, <1>7, LeadsOn
<1>9. Leads(a, b)
    BY <1>1, <1>6, <1>7, <1>8, LeadsOn
<1> QED  BY <1>3, <1>5, <1>6, <1>9 DEF SameView

LEMMA EdgeStep ==
    ASSUME TypeOK, None \notin Items, None \notin Previews, NEW A \in SUBSET Answers,
           NEW a, Fine(a, A), ~a.executing, a.shown.present \cap cleaned = {},
           NEW b, b = Edge(a)
    PROVE  Fine(b, A) /\ Leads(a, b)
<1>1. a \in Actors /\ ChipInv(a)
    BY DEF Fine
<1>2. CASE a.shown.cleaning
    <2>1. b = [a EXCEPT !.running = TRUE]
        BY <1>2 DEF Edge
    <2>2. b \in Actors /\ SameView(a, b) /\ SameJob(a, b) /\ SameAsked(a, b)
          /\ b.preview = a.preview /\ b.confirmed = a.confirmed
        BY <1>1, <2>1 DEF Actors, SameView, SameJob, SameAsked
    <2>3. ChipInv(b)
        BY <1>1, <2>2, SameEarned DEF ChipInv
    <2> QED  BY <1>1, <2>2, <2>3, CalmFine, LeadsSame
<1>3. CASE ~a.shown.cleaning /\ ~a.running
    <2>1. b = Retired(a)
        BY <1>3 DEF Edge
    <2> QED  BY <2>1, RetiredStep
<1>4. CASE ~a.shown.cleaning /\ a.running
    <2> DEFINE c == [a EXCEPT !.running = FALSE, !.active = None]
               d == Reconciled(c)
               e == [d EXCEPT !.cancelled = FALSE]
               f == Retired(e)
    <2>1. b = IF d.queued # <<>> THEN Started(d)
              ELSE IF f.shown.pending > 0 THEN Collect(f) ELSE f
        BY <1>4 DEF Edge
    <2>2. /\ c \in Actors /\ SameView(a, c) /\ SameAsked(a, c) /\ SameChips(a, c)
          /\ c.active = None /\ c.queued = a.queued /\ c.executing = a.executing
        BY <1>1 DEF Actors, SameView, SameAsked, SameChips
    <2> HIDE DEF c
    <2>3. Fine(c, A) /\ Leads(a, c)
        <3>1. Sent(c) = Sent(a)
            BY <2>2 DEF Sent, SameAsked
        <3>2. AnswersInv(c, A) /\ QueueInv(c, Sent(c), A)
            BY <2>2, <3>1 DEF Fine, AnswersInv, QueueInv, SameAsked, SameView
        <3>3. /\ \A i \in 1..Len(Sent(a)) : ~Executes(Sent(a), i)
              /\ \A x \in A : x.kind # "execute"
            BY DEF Fine, ExecuteInv
        <3>4. ExecuteInv(c, Sent(c), A) /\ StaleInv(c, Sent(c), A)
            BY <2>2, <3>1, <3>3 DEF ExecuteInv, StaleInv
        <3>5. GoneInv(c, A)
            BY <2>2 DEF Fine, GoneInv, SameView
        <3>6. QueuedInv(c)
            <4>1. a.queued \in Seq(Items)
                BY <1>1 DEF Actors
            <4>2. \A k \in 1..Len(a.queued) : a.queued[k] # None
                BY <4>1
            <4> QED  BY <2>2, <4>2 DEF Fine, QueuedInv
        <3>7. ChipInv(c)
            BY <1>1, <2>2, SameEarned DEF ChipInv, SameChips
        <3>8. Leads(a, c)
            BY <1>1, <2>2, LeadsSame DEF SameChips
        <3> QED  BY <2>2, <3>2, <3>4, <3>5, <3>6, <3>7, <3>8 DEF Fine
    <2>4. Fine(d, A) /\ Leads(c, d)
        BY <2>3, ReconciledStep
    <2> HIDE DEF d
    <2>5. d \in Actors /\ ChipInv(d)
        BY <2>4 DEF Fine
    <2>6. Leads(a, d)
        BY <1>1, <2>2, <2>3, <2>4, <2>5, LeadsOn
    <2>7. CASE d.queued # <<>>
        <3>1. b = Started(d)
            BY <2>1, <2>7
        <3>2. Fine(b, A) /\ Leads(d, b)
            BY <2>4, <3>1, StartedStep
        <3>3. b \in Actors
            BY <3>2 DEF Fine
        <3> QED  BY <1>1, <2>5, <2>6, <3>2, <3>3, LeadsOn
    <2>8. CASE d.queued = <<>>
        <3>1. /\ e \in Actors /\ SameView(d, e) /\ SameJob(d, e) /\ SameAsked(d, e)
              /\ e.preview = d.preview /\ e.confirmed = d.confirmed
            BY <2>5 DEF Actors, SameView, SameJob, SameAsked
        <3> HIDE DEF e
        <3>2. Fine(e, A) /\ Leads(d, e)
            <4>1. ChipInv(e)
                BY <2>5, <3>1, SameEarned DEF ChipInv
            <4> QED  BY <2>4, <2>5, <3>1, <4>1, CalmFine, LeadsSame
        <3>3. Fine(f, A) /\ Leads(e, f)
            BY <3>2, RetiredStep
        <3> HIDE DEF f
        <3>4. f \in Actors
            BY <3>3 DEF Fine
        <3>5. Leads(a, f)
            <4>1. Leads(a, e)
                BY <1>1, <2>5, <2>6, <3>1, <3>2, LeadsOn
            <4> QED  BY <1>1, <3>1, <3>3, <3>4, <4>1, LeadsOn
        <3>6. CASE b = f
            BY <3>3, <3>5, <3>6
        <3>7. CASE b = Collect(f)
            <4>1. Fine(b, A) /\ Leads(f, b)
                BY <3>3, <3>7, CollectStep
            <4>2. b \in Actors
                BY <4>1 DEF Fine
            <4> QED  BY <1>1, <3>4, <3>5, <4>1, <4>2, LeadsOn
        <3> QED  BY <2>1, <2>8, <3>6, <3>7
    <2> QED  BY <2>7, <2>8
<1> QED  BY <1>2, <1>3, <1>4

LEMMA FewerFine ==
    ASSUME NEW A, NEW B \in SUBSET A, NEW a, Fine(a, A)
    PROVE  Fine(a, B)
<1>1. AnswersInv(a, B) /\ QueueInv(a, Sent(a), B) /\ GoneInv(a, B)
    BY DEF Fine, AnswersInv, QueueInv, GoneInv
<1>2. ExecuteInv(a, Sent(a), B) /\ StaleInv(a, Sent(a), B)
    BY DEF Fine, ExecuteInv, StaleInv
<1> QED  BY <1>1, <1>2 DEF Fine

\* A read that is applied has seen all that was shown, and no removed item.
LEMMA AppliedStep ==
    ASSUME TypeOK, None \notin Items, None \notin Previews, NEW A \in SUBSET Answers,
           NEW x \in A, IsRead(x), NEW a, Fine(a, A), NEW b, b = Applied(a, x)
    PROVE  Fine(b, A) /\ Leads(a, b)
<1>1. a \in Actors /\ ChipInv(a)
    BY DEF Fine
<1>2. x.id \in Nat /\ x.data \in Snapshots
    BY ReadTypes
<1>3. CASE a.executing \/ x.id < a.applied \/ ~x.ok
    <2>1. b = a
        BY <1>3 DEF Applied
    <2> QED  BY <1>1, <2>1, LeadsSame DEF SameView
<1>4. CASE ~(a.executing \/ x.id < a.applied \/ ~x.ok)
    <2> DEFINE c == [a EXCEPT !.applied = x.id, !.shown = x.data]
               d == Edge(c)
    <2>1. b = Collecting(d)
        BY <1>4 DEF Applied
    <2>2. /\ c \in Actors /\ c.applied = x.id /\ c.shown = x.data /\ SameWork(a, c)
          /\ SameChips(a, c) /\ SameAsked(a, c)
        BY <1>1, <1>2 DEF Actors, SameWork, SameChips, SameAsked
    <2> HIDE DEF c
    <2>3. a.applied \in Nat /\ x.id >= a.applied /\ x.id <= a.request /\ ~a.executing
        BY <1>1, <1>2, <1>4 DEF Actors, Fine, AnswersInv
    <2>4. Later(a.shown, x.data) /\ Later(x.data, Snapshot)
        BY <2>3 DEF Fine, AnswersInv
    <2>5. Sent(c) = Sent(a)
        BY <2>2 DEF Sent, SameAsked
    <2>6. \A y \in A : IsRead(y) /\ y.id >= x.id => y.id >= a.applied /\ Later(x.data, y.data)
        BY <1>2, <2>3, ReadTypes DEF Fine, AnswersInv
    <2>7. AnswersInv(c, A)
        BY <2>2, <2>3, <2>4, <2>6 DEF Fine, AnswersInv, SameAsked
    <2>8. QueueInv(c, Sent(c), A) /\ ExecuteInv(c, Sent(c), A) /\ QueuedInv(c)
        BY <2>2, <2>5 DEF Fine, QueueInv, ExecuteInv, QueuedInv, SameWork, SameAsked
    <2>9. StaleInv(c, Sent(c), A)
        BY <2>2, <2>3 DEF StaleInv, SameWork
    <2>10. c.shown.present \cap cleaned = {}
        BY <2>2, <2>3 DEF Fine, GoneInv
    <2>11. GoneInv(c, A)
        BY <2>2, <2>6, <2>10 DEF Fine, GoneInv
    <2>12. /\ a.shown.version <= c.shown.version /\ a.shown.collected <= c.shown.collected
           /\ a.shown.collected + a.shown.pending <= c.shown.collected + c.shown.pending
           /\ c.confirmed = a.confirmed /\ c.preview = a.preview
        BY <2>2, <2>4 DEF Later, SameChips
    <2>13. Earned(c) >= Earned(a) /\ Leads(a, c)
        <3>1. /\ a.confirmed \in Nat /\ a.shown.collected \in Nat /\ a.shown.pending \in Nat
              /\ a.shown.version \in Nat /\ c.shown.collected \in Nat /\ c.shown.pending \in Nat
              /\ c.shown.version \in Nat
            BY <1>1, <2>2, ChipAmounts
        <3> DEFINE s == a.shown.collected + a.shown.pending
                   t == c.shown.collected + c.shown.pending
                   m == Max({a.confirmed, a.shown.collected})
                   l == Max({c.confirmed, c.shown.collected})
        <3>2. /\ Earned(a) \in {a.confirmed, s} /\ s \in Nat /\ t \in Nat /\ s <= t
              /\ Earned(c) >= c.confirmed /\ Earned(c) >= t /\ Earned(c) \in Nat
            BY <2>12, <3>1, MaxOfTwo DEF Earned
        <3>3. /\ m \in {a.confirmed, a.shown.collected} /\ l \in Nat
              /\ l >= c.confirmed /\ l >= c.shown.collected
            BY <2>12, <3>1, MaxOfTwo
        <3> HIDE DEF s, t
        <3>4. Earned(c) >= Earned(a)
            BY <2>12, <3>1, <3>2
        <3>5. Balance(a) = (IF a.preview # None THEN a.preview.target ELSE m)
              /\ Balance(c) = (IF c.preview # None THEN c.preview.target ELSE l)
            BY DEF Balance
        <3>6. Balance(a) \in Nat
            BY <1>1, ChipAmounts
        <3> HIDE DEF m, l
        <3>7. Balance(c) >= Balance(a)
            BY <2>12, <3>1, <3>3, <3>5, <3>6
        <3>8. ~Estimated(a) => ~Estimated(c)
            BY <2>12 DEF Estimated
        <3>9. c.shown.version >= a.shown.version
            BY <2>12, <3>1
        <3> QED  BY <3>4, <3>7, <3>8, <3>9 DEF Leads
    <2>14. ChipInv(c)
        <3>1. Earned(a) \in Nat /\ Earned(c) \in Nat
            BY <1>1, <2>2, ChipAmounts
        <3>2. a.preview # None => a.preview.target \in Nat
            BY <1>1, ChipAmounts
        <3> QED  BY <1>1, <2>12, <2>13, <3>1, <3>2 DEF ChipInv
    <2>15. Fine(c, A) /\ ~c.executing
        BY <2>2, <2>3, <2>7, <2>8, <2>9, <2>11, <2>14 DEF Fine, SameWork
    <2>16. Fine(d, A) /\ Leads(c, d)
        BY <2>10, <2>15, EdgeStep
    <2> HIDE DEF d
    <2>17. Fine(b, A) /\ Leads(d, b)
        BY <2>1, <2>16, CollectingStep
    <2>18. d \in Actors /\ b \in Actors
        BY <2>16, <2>17 DEF Fine
    <2>19. Leads(a, d)
        BY <1>1, <2>2, <2>13, <2>16, <2>18, LeadsOn
    <2>20. Leads(a, b)
        BY <1>1, <2>17, <2>18, <2>19, LeadsOn
    <2> QED  BY <2>17, <2>20
<1> QED  BY <1>3, <1>4

LEMMA NextPollStep ==
    ASSUME TypeOK, NEW A \in SUBSET Answers, NEW a, Fine(a, A), NEW b, b = NextPoll(a)
    PROVE  Fine(b, A) /\ Leads(a, b)
<1>1. a \in Actors /\ ChipInv(a)
    BY DEF Fine
<1>2. ASSUME NEW p \in {"none", "sleeping"}, b = [a EXCEPT !.poll = p]
      PROVE  Fine(b, A) /\ Leads(a, b)
    <2>1. b \in Actors /\ SameView(a, b) /\ SameJob(a, b) /\ SameAsked(a, b)
          /\ b.preview = a.preview /\ b.confirmed = a.confirmed
        BY <1>1, <1>2 DEF Actors, SameView, SameJob, SameAsked
    <2>2. ChipInv(b)
        BY <1>1, <2>1, SameEarned DEF ChipInv
    <2> QED  BY <1>1, <2>1, <2>2, CalmFine, LeadsSame
<1> DEFINE c == [a EXCEPT !.demanded = a.demand]
<1>3. CASE b = Reading(c, "poll")
    <2>1. c \in Actors /\ SameView(a, c) /\ SameJob(a, c) /\ SameAsked(a, c)
          /\ c.preview = a.preview /\ c.confirmed = a.confirmed
        BY <1>1 DEF Actors, SameView, SameJob, SameAsked
    <2> HIDE DEF c
    <2>2. ChipInv(c)
        BY <1>1, <2>1, SameEarned DEF ChipInv
    <2>3. Fine(c, A) /\ Leads(a, c)
        BY <1>1, <2>1, <2>2, CalmFine, LeadsSame
    <2>4. "poll" \in ReadKinds
        BY DEF ReadKinds
    <2>5. Fine(b, A) /\ Leads(c, b)
        BY <1>3, <2>3, <2>4, ReadingStep
    <2>6. b \in Actors
        BY <2>5 DEF Fine
    <2> QED  BY <1>1, <2>1, <2>3, <2>5, <2>6, LeadsOn
<1>4. \/ b = [a EXCEPT !.poll = "none"] \/ b = [a EXCEPT !.poll = "sleeping"]
      \/ b = Reading(c, "poll")
    BY DEF NextPoll
<1> QED  BY <1>2, <1>3, <1>4

-----------------------------------------------------------------------------
(* Every step keeps the invariant                                          *)

IInv == Fine(Actor, answers)

LEMMA ActorTypes ==
    ASSUME TypeOK
    PROVE  /\ Actor \in Actors /\ Sent(Actor) = queue
           /\ IInv <=> /\ AnswersInv(Actor, answers) /\ QueueInv(Actor, queue, answers)
                       /\ ExecuteInv(Actor, queue, answers) /\ StaleInv(Actor, queue, answers)
                       /\ GoneInv(Actor, answers) /\ QueuedInv(Actor) /\ ChipInv(Actor)
<1>1. <<>> \in Seq(Requests) /\ queue \in Seq(Requests)
    BY DEF TypeOK
<1>2. Actor \in Actors
    BY <1>1 DEF TypeOK, Actor, Actors
<1>3. Sent(Actor) = queue
    BY <1>1 DEF Sent, Actor
<1> QED  BY <1>2, <1>3 DEF IInv, Fine

LEMMA BecomesFine ==
    ASSUME TypeOK, NEW b, Becomes(b), Fine(b, answers'), answers' \in SUBSET Answers,
           events' \in Nat
    PROVE  TypeOK' /\ IInv'
<1>1. b \in Actors
    BY DEF Fine
<1>2. /\ snapshotRequest' = b.request /\ applied' = b.applied /\ shown' = b.shown
      /\ demand' = b.demand /\ poll' = b.poll /\ demanded' = b.demanded
      /\ active' = b.active /\ queued' = b.queued /\ executing' = b.executing
      /\ running' = b.running /\ cancelled' = b.cancelled /\ preview' = b.preview
      /\ wanted' = b.wanted /\ collecting' = b.collecting /\ confirmed' = b.confirmed
      /\ queue' = Sent(b)
    BY DEF Becomes, Sent
<1>3. /\ present' = present /\ scanning' = scanning /\ pending' = pending
      /\ collected' = collected /\ version' = version /\ faults' = faults /\ cleaned' = cleaned
    BY DEF Becomes, engine
<1>4. /\ b.request \in Nat /\ b.applied \in Nat /\ b.shown \in Snapshots /\ b.demand \in Nat
      /\ b.poll \in {"none", "reading", "sleeping"} /\ b.demanded \in Nat
      /\ b.active \in Items \cup {None} /\ b.queued \in Seq(Items) /\ b.executing \in BOOLEAN
      /\ b.running \in BOOLEAN /\ b.cancelled \in BOOLEAN /\ b.preview \in Previews \cup {None}
      /\ b.wanted \in BOOLEAN /\ b.collecting \in BOOLEAN /\ b.confirmed \in Nat
      /\ b.send \in Seq(Requests)
    BY <1>1 DEF Actors
<1>5. Sent(b) \in Seq(Requests)
    BY <1>4 DEF Sent, TypeOK
<1>6. TypeOK'
    BY SMTT(60), <1>2, <1>3, <1>4, <1>5 DEF TypeOK
<1>7. Snapshot' = Snapshot
    BY <1>3 DEF Snapshot
<1>8. AnswersInv(Actor, answers)'
    BY <1>2, <1>7 DEF Fine, AnswersInv, Actor
<1>9. QueueInv(Actor, queue, answers)' /\ ExecuteInv(Actor, queue, answers)'
    BY <1>2 DEF Fine, QueueInv, ExecuteInv, Actor, Asks, Executes
<1>10. StaleInv(Actor, queue, answers)'
    BY <1>2 DEF Fine, StaleInv, Actor, Asks
<1>11. GoneInv(Actor, answers)' /\ QueuedInv(Actor)'
    BY <1>2, <1>3 DEF Fine, GoneInv, QueuedInv, Actor
<1>12. ChipInv(Actor)'
    BY <1>2 DEF Fine, ChipInv, Actor, Earned
<1>13. IInv'
    <2>1. (Actor \in Actors /\ Sent(Actor) = queue)'
        BY <1>6, ActorTypes, PTL
    <2> QED  BY <2>1, <1>8, <1>9, <1>10, <1>11, <1>12 DEF IInv, Fine
<1> QED  BY <1>6, <1>13

\* What one step may do to what is shown.
Shows == NoStepBack /\ FallsOnlyEstimated

LEMMA BecomesShows ==
    ASSUME NEW b, Becomes(b), Leads(Actor, b)
    PROVE  Shows
<1>1. shown' = b.shown /\ preview' = b.preview /\ confirmed' = b.confirmed
    BY DEF Becomes
<1>2. Balance(Actor)' = Balance(b)
    BY <1>1 DEF Balance, Actor
<1>3. b.shown.version >= shown.version
    BY DEF Leads, Actor
<1>4. Balance(b) >= Balance(Actor) \/ (preview # None /\ ~preview.resolved)
    BY DEF Leads, Estimated, Actor
<1> QED  BY <1>1, <1>2, <1>3, <1>4 DEF Shows, NoStepBack, FallsOnlyEstimated

LEMMA StillShows ==
    ASSUME TypeOK, shown' = shown, preview' = preview, confirmed' = confirmed
    PROVE  Shows
<1>1. Actor \in Actors
    BY ActorTypes
<1>2. Balance(Actor) \in Nat /\ Actor.shown.version \in Nat
    BY <1>1, ChipAmounts
<1>3. Balance(Actor)' = Balance(Actor)
    BY DEF Balance, Actor
<1> QED  BY <1>2, <1>3 DEF Shows, NoStepBack, FallsOnlyEstimated, Actor

LEMMA ContinueStep ==
    ASSUME ViewAssumption, TypeOK, IInv, NEW x \in answers, Continue(x)
    PROVE  TypeOK' /\ IInv' /\ Shows
<1> DEFINE A == answers \ {x}
<1>1. /\ A \in SUBSET Answers /\ answers' = A /\ events' \in Nat /\ answers \in SUBSET Answers
      /\ x \in Answers /\ None \notin Items /\ None \notin Previews
    BY DEF TypeOK, Continue, ViewAssumption
<1>2. Fine(Actor, answers) /\ Fine(Actor, A) /\ Actor \in Actors /\ ChipInv(Actor)
    BY FewerFine, ActorTypes DEF IInv, Fine
<1>3. ASSUME NEW b, Becomes(b), Fine(b, A), Leads(Actor, b)
      PROVE  TypeOK' /\ IInv' /\ Shows
    BY <1>1, <1>3, BecomesFine, BecomesShows
\* The rest of the queue is unaffected by what one continuation reads.
<1>4. ASSUME NEW b, IsRead(x), b = Applied(Actor, x)
      PROVE  Fine(b, A) /\ Leads(Actor, b) /\ b \in Actors
    <2>1. Fine(b, answers) /\ Leads(Actor, b)
        BY <1>1, <1>2, <1>4, AppliedStep
    <2> QED  BY <2>1, FewerFine DEF Fine
<1>5. ASSUME NEW a, Fine(a, A), Leads(Actor, a), NEW b, b = Collecting([a EXCEPT !.collecting = FALSE])
      PROVE  Fine(b, A) /\ Leads(Actor, b)
    <2> DEFINE c == [a EXCEPT !.collecting = FALSE]
    <2>1. a \in Actors /\ ChipInv(a)
        BY <1>5 DEF Fine
    <2>2. c \in Actors /\ SameView(a, c) /\ SameJob(a, c) /\ SameAsked(a, c)
          /\ c.preview = a.preview /\ c.confirmed = a.confirmed
        BY <2>1 DEF Actors, SameView, SameJob, SameAsked
    <2>3. b = Collecting(c)
        BY <1>5
    <2> HIDE DEF c
    <2>4. ChipInv(c)
        BY <2>1, <2>2, SameEarned DEF ChipInv
    <2>5. Fine(c, A) /\ Leads(a, c)
        BY <1>5, <2>1, <2>2, <2>4, CalmFine, LeadsSame
    <2>6. Fine(b, A) /\ Leads(c, b)
        BY <1>1, <2>3, <2>5, CollectingStep
    <2>7. b \in Actors
        BY <2>6 DEF Fine
    <2>8. Leads(Actor, c)
        BY <1>2, <1>5, <2>1, <2>2, <2>5, LeadsOn
    <2> QED  BY <1>2, <2>2, <2>6, <2>7, <2>8, LeadsOn
<1>6. CASE x.kind = "event"
    <2> DEFINE b == Polled(Actor)
    <2>1. Becomes(b)
        BY <1>6 DEF Continue
    <2> HIDE DEF b
    <2>2. Fine(b, A) /\ Leads(Actor, b)
        BY <1>1, <1>2, PolledStep DEF b
    <2> QED  BY <1>3, <2>1, <2>2
<1>7. CASE x.kind = "poll"
    <2> DEFINE a == Applied(Actor, x)
               b == NextPoll(a)
    <2>1. Becomes(b)
        BY <1>7 DEF Continue
    <2>2. IsRead(x)
        BY <1>7 DEF IsRead, ReadKinds
    <2> HIDE DEF a
    <2>3. Fine(a, A) /\ Leads(Actor, a) /\ a \in Actors
        BY <1>4, <2>2 DEF a
    <2> HIDE DEF b
    <2>4. Fine(b, A) /\ Leads(a, b)
        BY <1>1, <2>3, NextPollStep DEF b
    <2>5. b \in Actors
        BY <2>4 DEF Fine
    <2>6. Leads(Actor, b)
        BY <1>2, <2>3, <2>4, <2>5, LeadsOn
    <2> QED  BY <1>3, <2>1, <2>4, <2>6
<1>8. CASE x.kind = "settle"
    <2> DEFINE a == Applied(Actor, x)
               c == Collecting(a)
               b == Polled(c)
    <2>1. Becomes(b)
        BY <1>8 DEF Continue
    <2>2. IsRead(x)
        BY <1>8 DEF IsRead, ReadKinds
    <2> HIDE DEF a
    <2>3. Fine(a, A) /\ Leads(Actor, a) /\ a \in Actors
        BY <1>4, <2>2 DEF a
    <2> HIDE DEF c
    <2>4. Fine(c, A) /\ Leads(a, c)
        BY <1>1, <2>3, CollectingStep DEF c
    <2> HIDE DEF b
    <2>5. Fine(b, A) /\ Leads(c, b)
        BY <1>1, <2>4, PolledStep DEF b
    <2>6. b \in Actors /\ c \in Actors
        BY <2>4, <2>5 DEF Fine
    <2>7. Leads(Actor, c)
        BY <1>2, <2>3, <2>4, <2>6, LeadsOn
    <2>8. Leads(Actor, b)
        BY <1>2, <2>5, <2>6, <2>7, LeadsOn
    <2> QED  BY <1>3, <2>1, <2>5, <2>8
<1>9. CASE x.kind = "other"
    <2> DEFINE b == Applied(Actor, x)
    <2>1. Becomes(b)
        BY <1>9 DEF Continue
    <2>2. IsRead(x)
        BY <1>9 DEF IsRead, ReadKinds
    <2> HIDE DEF b
    <2>3. Fine(b, A) /\ Leads(Actor, b)
        BY <1>4, <2>2 DEF b
    <2> QED  BY <1>3, <2>1, <2>3
<1>10. CASE x.kind = "collected"
    <2> DEFINE a == Applied(Actor, x)
               b == Collecting([a EXCEPT !.collecting = FALSE])
    <2>1. Becomes(b)
        BY <1>10 DEF Continue
    <2>2. IsRead(x)
        BY <1>10 DEF IsRead, ReadKinds
    <2> HIDE DEF a
    <2>3. Fine(a, A) /\ Leads(Actor, a)
        BY <1>4, <2>2 DEF a
    <2>4. Fine(b, A) /\ Leads(Actor, b)
        BY <1>5, <2>3
    <2> HIDE DEF b
    <2> QED  BY <1>3, <2>1, <2>4
<1>11. CASE x.kind = "execute"
    <2> DEFINE s == [shown EXCEPT !.cleaning = FALSE]
               c == [Actor EXCEPT !.running = TRUE, !.executing = FALSE, !.shown = s]
               b == Reading(c, "settle")
    <2>1. Becomes(b)
        <3>1. c = [Actor EXCEPT !.running = TRUE, !.executing = FALSE, !.shown.cleaning = FALSE]
            BY DEF Actor
        <3> HIDE DEF c
        <3> QED  BY <1>11, <3>1 DEF Continue
    <2>2. s \in Snapshots /\ s.version = shown.version /\ s.collected = shown.collected
          /\ s.pending = shown.pending /\ s.present = shown.present
        BY DEF TypeOK, Snapshots
    <2> HIDE DEF s
    <2>3. /\ c \in Actors /\ c.applied = Actor.applied /\ c.shown = s /\ ~c.executing
          /\ c.active = Actor.active /\ c.queued = Actor.queued
          /\ SameAsked(Actor, c) /\ SameChips(Actor, c)
        BY <1>2, <2>2 DEF Actors, SameAsked, SameChips
    <2> HIDE DEF c
    <2>4. Sent(c) = Sent(Actor)
        BY <2>3 DEF Sent, SameAsked
    <2>5. /\ s.version = Actor.shown.version /\ s.collected = Actor.shown.collected
          /\ s.pending = Actor.shown.pending /\ s.present = Actor.shown.present
        BY <2>2 DEF Actor
    <2>6. AnswersInv(c, A) /\ QueueInv(c, Sent(c), A)
        BY <1>2, <2>3, <2>4, <2>5 DEF Fine, AnswersInv, QueueInv, SameAsked, Later
    <2>7. ExecuteInv(c, Sent(c), A)
        <3>1. ExecuteInv(Actor, Sent(Actor), answers)
            BY <1>2 DEF Fine
        <3>2. \A i \in 1..Len(Sent(Actor)) : ~Executes(Sent(Actor), i)
            BY <1>11, <3>1 DEF ExecuteInv
        <3>3. \A y \in A : y.kind # "execute"
            BY <1>11, <3>1 DEF ExecuteInv
        <3> QED  BY <2>3, <2>4, <3>2, <3>3 DEF ExecuteInv
    <2>8. StaleInv(c, Sent(c), A)
        BY <2>3 DEF StaleInv
    <2>9. GoneInv(c, A) /\ QueuedInv(c)
        BY <1>2, <2>3, <2>5 DEF Fine, GoneInv, QueuedInv
    <2>10. SameMoney(Actor, c)
        BY <2>3, <2>5 DEF SameMoney, SameChips
    <2>11. ChipInv(c) /\ Leads(Actor, c)
        BY <1>2, <2>3, <2>10, SameMoneyLeads DEF ChipInv, SameMoney
    <2>12. Fine(c, A)
        BY <2>3, <2>6, <2>7, <2>8, <2>9, <2>11 DEF Fine
    <2>13. "settle" \in ReadKinds
        BY DEF ReadKinds
    <2> HIDE DEF b
    <2>14. Fine(b, A) /\ Leads(c, b)
        BY <1>1, <2>12, <2>13, ReadingStep DEF b
    <2>15. b \in Actors
        BY <2>14 DEF Fine
    <2>16. Leads(Actor, b)
        BY <1>2, <2>3, <2>11, <2>14, <2>15, LeadsOn
    <2> QED  BY <1>3, <2>1, <2>14, <2>16
<1>12. CASE x.kind = "collect"
    <2> DEFINE m == Max({confirmed, x.data})
               c == [Actor EXCEPT !.confirmed = m]
               a == Retired(c)
               b == IF ~x.ok THEN Collecting([Actor EXCEPT !.collecting = FALSE])
                    ELSE IF a.executing THEN Collecting([a EXCEPT !.collecting = FALSE])
                         ELSE Reading(a, "collected")
    <2>1. Becomes(b)
        <3>1. c = [Actor EXCEPT !.confirmed = Max({@, x.data})]
            BY DEF Actor
        <3>2. Becomes(IF ~x.ok THEN Collecting([Actor EXCEPT !.collecting = FALSE])
                      ELSE LET d == Retired([Actor EXCEPT !.confirmed = Max({@, x.data})])
                           IN  IF d.executing THEN Collecting([d EXCEPT !.collecting = FALSE])
                               ELSE Reading(d, "collected"))
            BY <1>12 DEF Continue
        <3> HIDE DEF c
        <3> QED  BY <3>1, <3>2
    <2>2. x.data \in Nat /\ confirmed \in Nat
        BY <1>1, <1>12 DEF Answers, ReadKinds, TypeOK
    <2>3. m \in Nat /\ m >= confirmed
        BY <2>2, MaxOfTwo
    <2> HIDE DEF m
    <2>4. c \in Actors /\ SameView(Actor, c) /\ SameJob(Actor, c) /\ SameAsked(Actor, c)
          /\ c.preview = Actor.preview /\ c.confirmed = m /\ c.executing = Actor.executing
        BY <1>2, <2>3 DEF Actors, SameView, SameJob, SameAsked
    <2> HIDE DEF c
    <2>5. Earned(c) >= Earned(Actor) /\ Leads(Actor, c) /\ Earned(Actor) \in Nat /\ Earned(c) \in Nat
        <3>1. /\ Actor.shown.collected \in Nat /\ Actor.shown.pending \in Nat
              /\ Actor.shown.version \in Nat /\ Earned(Actor) \in Nat /\ Earned(c) \in Nat
              /\ Balance(Actor) \in Nat
            BY <1>2, <2>4, ChipAmounts
        <3>2. Actor.confirmed = confirmed /\ c.shown = Actor.shown
            BY <2>4 DEF SameView, Actor
        <3> DEFINE s == Actor.shown.collected + Actor.shown.pending
                   k == Max({confirmed, Actor.shown.collected})
                   l == Max({m, Actor.shown.collected})
        <3>3. /\ s \in Nat /\ Earned(Actor) \in {confirmed, s} /\ Earned(c) >= m /\ Earned(c) >= s
            BY <2>2, <2>3, <2>4, <3>1, <3>2, MaxOfTwo DEF Earned
        <3>4. k \in {confirmed, Actor.shown.collected} /\ l \in Nat /\ l >= m
              /\ l >= Actor.shown.collected
            BY <2>2, <2>3, <3>1, MaxOfTwo
        <3>5. Balance(Actor) = (IF Actor.preview # None THEN Actor.preview.target ELSE k)
              /\ Balance(c) = (IF Actor.preview # None THEN Actor.preview.target ELSE l)
            BY <2>4, <3>2 DEF Balance
        <3> HIDE DEF s, k, l
        <3>6. Earned(c) >= Earned(Actor)
            BY <2>2, <2>3, <3>1, <3>3
        <3>7. Balance(c) >= Balance(Actor)
            BY <2>2, <2>3, <3>1, <3>4, <3>5
        <3>8. ~Estimated(Actor) => ~Estimated(c)
            BY <2>4 DEF Estimated
        <3> QED  BY <3>1, <3>2, <3>6, <3>7, <3>8 DEF Leads
    <2>6. Fine(c, A)
        <3>1. Actor.preview # None => Actor.preview.target \in Nat
            BY <1>2, ChipAmounts
        <3>2. ChipInv(c)
            BY <1>2, <2>4, <2>5, <3>1 DEF ChipInv
        <3> QED  BY <1>2, <2>4, <3>2, CalmFine
    <2> HIDE DEF a
    <2>7. Fine(a, A) /\ Leads(c, a)
        BY <2>6, RetiredStep DEF a
    <2>8. a \in Actors
        BY <2>7 DEF Fine
    <2>9. Leads(Actor, a)
        BY <1>2, <2>4, <2>5, <2>7, <2>8, LeadsOn
    <2>10. CASE ~x.ok
        <3>1. b = Collecting([Actor EXCEPT !.collecting = FALSE])
            BY <2>10
        <3>2. Leads(Actor, Actor)
            BY <1>2, LeadsSame DEF SameView
        <3> HIDE DEF b
        <3>3. Fine(b, A) /\ Leads(Actor, b)
            BY <1>2, <1>5, <3>1, <3>2
        <3> QED  BY <1>3, <2>1, <3>3
    <2>11. CASE x.ok /\ a.executing
        <3>1. b = Collecting([a EXCEPT !.collecting = FALSE])
            BY <2>11
        <3> HIDE DEF b
        <3>2. Fine(b, A) /\ Leads(Actor, b)
            BY <1>5, <2>7, <2>9, <3>1
        <3> QED  BY <1>3, <2>1, <3>2
    <2>12. CASE x.ok /\ ~a.executing
        <3>1. b = Reading(a, "collected") /\ "collected" \in ReadKinds
            BY <2>12 DEF ReadKinds
        <3> HIDE DEF b
        <3>2. Fine(b, A) /\ Leads(a, b)
            BY <1>1, <2>7, <3>1, ReadingStep
        <3>3. b \in Actors
            BY <3>2 DEF Fine
        <3>4. Leads(Actor, b)
            BY <1>2, <2>8, <2>9, <3>2, <3>3, LeadsOn
        <3> QED  BY <1>3, <2>1, <3>2, <3>4
    <2> QED  BY <2>10, <2>11, <2>12
<1>13. x.kind \in {"event", "poll", "settle", "other", "collected", "execute", "collect"}
    BY <1>1 DEF Answers, ReadKinds
<1> QED  BY <1>6, <1>7, <1>8, <1>9, <1>10, <1>11, <1>12, <1>13

LEMMA LaterOn ==
    ASSUME NEW t \in Snapshots, NEW u, NEW v, Later(t, u), Later(u, v),
           u.version \in Nat, u.collected \in Nat, u.pending \in Nat,
           v.version \in Nat, v.collected \in Nat, v.pending \in Nat
    PROVE  Later(t, v)
<1>1. t.version \in Nat /\ t.collected \in Nat /\ t.pending \in Nat
    BY DEF Snapshots
<1> QED  BY <1>1 DEF Later

LEMMA JobStep ==
    ASSUME ViewAssumption, TypeOK, IInv, Begin \/ End
    PROVE  TypeOK' /\ IInv' /\ Shows
<1> DEFINE e == [kind |-> "event", id |-> version', ok |-> TRUE, data |-> None]
<1>1. /\ shown' = shown /\ preview' = preview /\ confirmed' = confirmed /\ queue' = queue
      /\ Actor' = Actor /\ present' = present /\ cleaned' = cleaned
      /\ pending' = pending /\ collected' = collected /\ version' = version + 1
    BY DEF Begin, End, snapshots, cleanups, chips, client, Actor
<1>2. (answers' = answers \/ answers' = answers \cup {e}) /\ version' \in Nat
    BY <1>1 DEF Begin, End, client, TypeOK
<1>3. e \in Answers /\ e.kind = "event"
    BY <1>2 DEF Answers
<1> HIDE DEF e
<1>4. TypeOK'
    <2>1. answers' \in SUBSET Answers
        BY <1>2, <1>3 DEF TypeOK
    <2>2. events' \in Nat /\ scanning' \in BOOLEAN /\ faults' = faults
        <3>1. events \in Nat
            BY DEF TypeOK
        <3>2. CASE Begin
            BY <3>1, <3>2 DEF Begin, Stimulus
        <3>3. CASE End
            BY <3>1, <3>3 DEF End
        <3> QED  BY <3>2, <3>3
    <2> QED  BY <1>1, <1>2, <2>1, <2>2 DEF TypeOK, Begin, End, snapshots, cleanups, chips
<1>5. \A x \in answers' : x \in answers \/ x.kind = "event"
    BY <1>2, <1>3
<1>6. \A x \in answers' : /\ IsRead(x) => x \in answers /\ ReadKinds # {"event"}
                          /\ x.kind = "execute" => x \in answers
    BY <1>5 DEF IsRead, ReadKinds
<1>7. /\ Snapshot'.version = version + 1 /\ Snapshot'.collected = Snapshot.collected
      /\ Snapshot'.pending = Snapshot.pending /\ Snapshot.version = version
    BY <1>1 DEF Snapshot
<1>8. \A t \in Snapshots : Later(t, Snapshot) => Later(t, Snapshot)'
    BY <1>1 DEF Later, Snapshots, TypeOK, Snapshot
<1>9. /\ AnswersInv(Actor, answers) /\ QueueInv(Actor, queue, answers)
      /\ ExecuteInv(Actor, queue, answers) /\ StaleInv(Actor, queue, answers)
      /\ GoneInv(Actor, answers) /\ QueuedInv(Actor) /\ ChipInv(Actor)
    BY ActorTypes
<1>10. Actor.shown \in Snapshots /\ \A x \in answers : IsRead(x) => x.data \in Snapshots
    BY ReadTypes DEF TypeOK, Actor
<1>11. AnswersInv(Actor, answers)'
    <2>1. Later(Actor.shown, Snapshot)'
        BY <1>1, <1>8, <1>9, <1>10 DEF AnswersInv
    <2>2. \A x \in answers' : IsRead(x) => Later(x.data, Snapshot)'
        BY <1>6, <1>8, <1>9, <1>10 DEF AnswersInv
    <2> QED  BY <1>1, <1>6, <1>9, <2>1, <2>2 DEF AnswersInv
<1>12. QueueInv(Actor, queue, answers)' /\ ExecuteInv(Actor, queue, answers)'
    BY <1>1, <1>6, <1>9 DEF QueueInv, ExecuteInv
<1>13. StaleInv(Actor, queue, answers)' /\ GoneInv(Actor, answers)'
    BY <1>1, <1>6, <1>9 DEF StaleInv, GoneInv
<1>14. QueuedInv(Actor)' /\ ChipInv(Actor)'
    BY <1>1, <1>9 DEF QueuedInv, ChipInv, Earned
<1>15. IInv'
    <2>1. (Actor \in Actors /\ Sent(Actor) = queue)'
        BY <1>4, ActorTypes, PTL
    <2> QED  BY <2>1, <1>11, <1>12, <1>13, <1>14 DEF IInv, Fine
<1>16. Shows
    BY <1>1, StillShows
<1> QED  BY <1>4, <1>15, <1>16

LEMMA ServeStep ==
    ASSUME ViewAssumption, TypeOK, IInv, NEW ok \in BOOLEAN, Serve(ok)
    PROVE  TypeOK' /\ IInv' /\ Shows
<1> DEFINE r == Head(queue)
<1>1. /\ shown' = shown /\ preview' = preview /\ confirmed' = confirmed /\ Actor' = Actor
      /\ queue # <<>> /\ queue' = Tail(queue) /\ scanning' = scanning /\ events' = events
      /\ UNCHANGED <<snapshots, cleanups, chips>>
    BY DEF Serve, snapshots, cleanups, chips, Actor
<1>2. /\ Len(queue) \in Nat /\ Len(queue) >= 1 /\ Len(queue') = Len(queue) - 1
      /\ r = queue[1] /\ \A i \in 1..Len(queue') : queue'[i] = queue[i + 1]
      /\ queue' \in Seq(Requests) /\ r \in Requests
    BY <1>1 DEF TypeOK
<1>3. /\ 1 \in 1..Len(queue)
      /\ \A i \in 1..Len(queue') : i + 1 \in 1..Len(queue) /\ 1 < i + 1 /\ i + 1 # 1
      /\ \A i, j \in 1..Len(queue') : i < j => i + 1 < j + 1
    BY <1>2
<1>4. \A i \in 1..Len(queue') : /\ Asks(queue', i) => Asks(queue, i + 1)
                                /\ Executes(queue', i) => Executes(queue, i + 1)
    BY <1>2, <1>3 DEF Asks, Executes
<1>5. /\ AnswersInv(Actor, answers) /\ QueueInv(Actor, queue, answers)
      /\ ExecuteInv(Actor, queue, answers) /\ StaleInv(Actor, queue, answers)
      /\ GoneInv(Actor, answers) /\ QueuedInv(Actor) /\ ChipInv(Actor)
    BY ActorTypes
<1>6. /\ Snapshot \in Snapshots /\ Actor.shown \in Snapshots /\ Actor.applied \in Nat
      /\ Actor.request \in Nat
      /\ \A x \in answers : IsRead(x) => x.id \in Nat /\ x.data \in Snapshots
    BY ReadTypes DEF TypeOK, Actor, Snapshot, Snapshots
<1>7. ChipInv(Actor)'
    BY <1>1, <1>5 DEF ChipInv, Earned
<1>8. faults' \in Nat
    BY DEF Serve, TypeOK
<1>9. Shows
    BY <1>1, StillShows
<1>10. ASSUME present' \in SUBSET Items, cleaned' \in SUBSET Items, answers' \in SUBSET Answers,
             pending' \in Nat, collected' \in Nat, version' \in Nat
      PROVE  TypeOK'
    BY <1>1, <1>2, <1>10, <1>8 DEF TypeOK, snapshots, cleanups, chips
<1>11. CASE r.kind = "read"
    <2> DEFINE n == [kind |-> r.by, id |-> r.id, ok |-> ok, data |-> Snapshot]
    <2>1. /\ answers' = answers \cup {n}
          /\ UNCHANGED <<present, pending, collected, version, cleaned>>
        BY <1>11 DEF Serve
    <2>2. r.by \in ReadKinds /\ r.id \in Nat
        BY <1>2, <1>11 DEF Requests
    <2>3. n \in Answers /\ IsRead(n) /\ n.id = r.id /\ n.data = Snapshot /\ n.kind # "execute"
        BY <2>2, <1>6 DEF Answers, IsRead, ReadKinds
    <2> HIDE DEF n
    <2>4. TypeOK'
        <3>1. answers' \in SUBSET Answers
            BY <2>1, <2>3 DEF TypeOK
        <3>2. /\ present' \in SUBSET Items /\ cleaned' \in SUBSET Items
              /\ pending' \in Nat /\ collected' \in Nat /\ version' \in Nat
            BY <2>1 DEF TypeOK
        <3> QED  BY <1>10, <3>1, <3>2
    <2>5. Asks(queue, 1) /\ queue[1].id = r.id
        BY <1>2, <1>3, <1>11 DEF Asks
    <2> HIDE DEF r
    <2>6. /\ r.id <= Actor.request /\ \A x \in answers : IsRead(x) => x.id < r.id
          /\ \A i \in 1..Len(queue') : Asks(queue', i) => r.id < queue'[i].id
        BY <1>2, <1>3, <1>4, <1>5, <2>5 DEF QueueInv
    <2>7. /\ Later(Snapshot, Snapshot) /\ Later(Actor.shown, Snapshot)
          /\ \A x \in answers : IsRead(x) => Later(x.data, Snapshot)
        BY <1>5, <1>6 DEF AnswersInv, Later, Snapshots
    <2>8. Snapshot' = Snapshot
        BY <1>1, <2>1 DEF Snapshot
    <2>9. AnswersInv(Actor, answers)'
        <3> SUFFICES ASSUME NEW x \in answers', IsRead(x)
                     PROVE  /\ x.id <= Actor.request /\ Later(x.data, Snapshot)
                            /\ x.id >= Actor.applied => Later(Actor.shown, x.data)
                            /\ \A y \in answers' : IsRead(y) /\ x.id <= y.id => Later(x.data, y.data)
            BY <1>1, <1>5, <2>8 DEF AnswersInv, Later
        <3>1. CASE x \in answers
            BY <3>1, <1>5, <2>1, <2>3, <2>7 DEF AnswersInv
        <3>2. CASE x = n
            <4>1. \A y \in answers : IsRead(y) => ~(x.id <= y.id)
                BY <3>2, <1>6, <2>2, <2>3, <2>6
            <4> QED  BY <3>2, <4>1, <2>1, <2>3, <2>6, <2>7
        <3> QED  BY <3>1, <3>2, <2>1
    <2>10. QueueInv(Actor, queue, answers)'
        <3> SUFFICES ASSUME NEW i \in 1..Len(queue'), Asks(queue', i)
                     PROVE  /\ queue'[i].id <= Actor.request
                            /\ \A j \in 1..Len(queue') : Asks(queue', j) /\ i < j => queue'[i].id < queue'[j].id
                            /\ \A x \in answers' : IsRead(x) => x.id < queue'[i].id
            BY <1>1 DEF QueueInv
        <3>1. /\ queue[i + 1].id <= Actor.request
              /\ \A j \in 1..Len(queue) : Asks(queue, j) /\ i + 1 < j => queue[i + 1].id < queue[j].id
              /\ \A x \in answers : IsRead(x) => x.id < queue[i + 1].id
            BY <1>3, <1>4, <1>5 DEF QueueInv
        <3>2. queue'[i] = queue[i + 1]
            BY <1>2
        <3>3. \A j \in 1..Len(queue') : Asks(queue', j) /\ i < j => queue'[i].id < queue'[j].id
            BY <1>2, <1>3, <1>4, <3>1, <3>2
        <3> QED  BY <2>1, <2>3, <2>6, <3>1, <3>2, <3>3
    <2>11. ExecuteInv(Actor, queue, answers)'
        BY <1>1, <1>2, <1>3, <1>4, <1>5, <2>1, <2>3 DEF ExecuteInv
    <2>12. StaleInv(Actor, queue, answers)'
        <3>1. Actor.executing => r.id < Actor.applied
            BY <1>3, <1>5, <2>5 DEF StaleInv
        <3> QED  BY <1>1, <1>2, <1>3, <1>4, <1>5, <2>1, <2>3, <3>1 DEF StaleInv
    <2>13. GoneInv(Actor, answers)'
        <3>1. ~Snapshot.cleaning /\ Snapshot.present = present
            BY DEF Snapshot
        <3> QED  BY <1>1, <1>5, <2>1, <2>3, <3>1 DEF GoneInv
    <2>14. QueuedInv(Actor)'
        BY <1>1, <1>5, <2>1 DEF QueuedInv
    <2>15. (Actor \in Actors /\ Sent(Actor) = queue)'
        BY <2>4, ActorTypes, PTL
    <2>16. IInv'
        BY <1>7, <2>9, <2>10, <2>11, <2>12, <2>13, <2>14, <2>15 DEF IInv, Fine
    <2> QED  BY <1>9, <2>4, <2>16
\* What the other two leave of the reads.
<1>12. ASSUME NEW n \in Answers, ~IsRead(n), answers' = answers \cup {n},
              version' \in Nat, collected' \in Nat, pending' \in Nat,
              version' >= version, collected' >= collected,
              collected' + pending' >= collected + pending
       PROVE  AnswersInv(Actor, answers)' /\ QueueInv(Actor, queue, answers)'
              /\ StaleInv(Actor, queue, answers)'
    <2>1. \A x \in answers' : IsRead(x) => x \in answers
        BY <1>12
    <2>2. \A t \in Snapshots : Later(t, Snapshot) => Later(t, Snapshot)'
        <3> DEFINE u == Snapshot
                   v == Snapshot'
        <3>1. /\ u.version = version /\ u.collected = collected /\ u.pending = pending
              /\ v.version = version' /\ v.collected = collected' /\ v.pending = pending'
            BY DEF Snapshot
        <3>2. u.version \in Nat /\ u.collected \in Nat /\ u.pending \in Nat
            BY <3>1 DEF TypeOK
        <3> SUFFICES ASSUME NEW t \in Snapshots, Later(t, u)
                     PROVE  Later(t, v)
            BY DEF Later, Snapshot
        <3> HIDE DEF u, v
        <3>3. Later(u, v)
            BY <1>12, <3>1 DEF Later
        <3>4. v.version \in Nat /\ v.collected \in Nat /\ v.pending \in Nat
            BY <1>12, <3>1
        <3> QED  BY <3>2, <3>3, <3>4, LaterOn
    <2>3. Later(Actor.shown, Snapshot)'
        BY <1>1, <1>5, <1>6, <2>2 DEF AnswersInv
    <2>4. \A x \in answers' : IsRead(x) => Later(x.data, Snapshot)'
        BY <1>5, <1>6, <2>1, <2>2 DEF AnswersInv
    <2>5. AnswersInv(Actor, answers)'
        BY <1>1, <1>5, <2>1, <2>3, <2>4 DEF AnswersInv
    <2>6. QueueInv(Actor, queue, answers)'
        <3> SUFFICES ASSUME NEW i \in 1..Len(queue'), Asks(queue', i)
                     PROVE  /\ queue'[i].id <= Actor.request
                            /\ \A j \in 1..Len(queue') : Asks(queue', j) /\ i < j => queue'[i].id < queue'[j].id
                            /\ \A x \in answers' : IsRead(x) => x.id < queue'[i].id
            BY <1>1 DEF QueueInv
        <3>1. /\ queue[i + 1].id <= Actor.request
              /\ \A j \in 1..Len(queue) : Asks(queue, j) /\ i + 1 < j => queue[i + 1].id < queue[j].id
              /\ \A x \in answers : IsRead(x) => x.id < queue[i + 1].id
            BY <1>3, <1>4, <1>5 DEF QueueInv
        <3>2. queue'[i] = queue[i + 1]
            BY <1>2
        <3>3. \A j \in 1..Len(queue') : Asks(queue', j) /\ i < j => queue'[i].id < queue'[j].id
            BY <1>2, <1>3, <1>4, <3>1, <3>2
        <3> QED  BY <2>1, <3>1, <3>2, <3>3
    <2>7. StaleInv(Actor, queue, answers)'
        BY <1>1, <1>2, <1>3, <1>4, <1>5, <2>1 DEF StaleInv
    <2> QED  BY <2>5, <2>6, <2>7
<1>13. CASE r.kind = "execute"
    <2> DEFINE n == [kind |-> "execute", id |-> r.id, ok |-> ok, data |-> None]
    <2>1. /\ answers' = answers \cup {n} /\ collected' = collected
          /\ \/ /\ present' = present \ {r.id} /\ cleaned' = cleaned \cup {r.id}
                /\ pending' = pending + 1 /\ version' = version + 1
             \/ UNCHANGED <<present, pending, version, cleaned>>
        BY <1>13 DEF Serve
    <2>2. r.id \in Items
        BY <1>2, <1>13 DEF Requests
    <2>3. n \in Answers /\ ~IsRead(n) /\ n.kind = "execute" /\ n.id = r.id
        BY <2>2 DEF Answers, IsRead, ReadKinds
    <2> HIDE DEF n
    <2>4. /\ version' \in Nat /\ collected' \in Nat /\ pending' \in Nat
          /\ version' >= version /\ collected' >= collected
          /\ collected' + pending' >= collected + pending
        <3>1. version \in Nat /\ collected \in Nat /\ pending \in Nat
            BY DEF TypeOK
        <3> QED  BY <2>1, <3>1
    <2>5. TypeOK'
        <3>1. present' \in SUBSET Items /\ cleaned' \in SUBSET Items /\ answers' \in SUBSET Answers
            BY <2>1, <2>2, <2>3 DEF TypeOK
        <3> QED  BY <1>10, <2>4, <3>1
    <2>6. /\ AnswersInv(Actor, answers)' /\ QueueInv(Actor, queue, answers)'
          /\ StaleInv(Actor, queue, answers)'
        BY <1>12, <2>1, <2>3, <2>4
    <2>7. Executes(queue, 1) /\ queue[1].id = r.id
        BY <1>2, <1>3, <1>13 DEF Executes
    <2> HIDE DEF r
    <2>8. /\ Actor.executing /\ Actor.active = r.id
          /\ \A j \in 1..Len(queue) : Executes(queue, j) => j = 1
          /\ \A x \in answers : x.kind # "execute"
        BY <1>3, <1>5, <2>7 DEF ExecuteInv
    <2>9. ExecuteInv(Actor, queue, answers)'
        <3>1. \A i \in 1..Len(queue') : ~Executes(queue', i)
            BY <1>3, <1>4, <2>8
        <3>2. \A x \in answers' : x.kind = "execute" => x = n
            BY <2>1, <2>8
        <3>3. Actor.active # None
            BY <2>2, <2>8 DEF ViewAssumption
        <3> QED  BY <1>1, <2>3, <2>8, <3>1, <3>2, <3>3 DEF ExecuteInv
    <2>10. GoneInv(Actor, answers)'
        <3>1. \A x \in answers' : IsRead(x) => x \in answers /\ x.id \in Nat /\ x.id < Actor.applied
            BY <1>5, <1>6, <2>1, <2>3, <2>8 DEF StaleInv
        <3>2. \A x \in answers' : IsRead(x) => ~(x.id >= Actor.applied)
            BY <1>6, <3>1
        <3>3. \A x \in answers' : IsRead(x) => ~x.data.cleaning
            BY <1>5, <3>1 DEF GoneInv
        <3>4. present' \cap cleaned' = {} /\ Actor.shown.present \cap cleaned' \subseteq {Actor.active}
            BY <1>5, <2>1, <2>8 DEF GoneInv
        <3> QED  BY <1>1, <3>2, <3>3, <3>4 DEF GoneInv
    <2>11. QueuedInv(Actor)'
        <3>1. \A k \in 1..Len(Actor.queued) : Actor.queued[k] \notin cleaned'
            BY <1>5, <2>1, <2>8 DEF QueuedInv
        <3> QED  BY <1>1, <1>5, <3>1 DEF QueuedInv
    <2>12. (Actor \in Actors /\ Sent(Actor) = queue)'
        BY <2>5, ActorTypes, PTL
    <2>13. IInv'
        BY <1>7, <2>6, <2>9, <2>10, <2>11, <2>12 DEF IInv, Fine
    <2> QED  BY <1>9, <2>5, <2>13
<1>14. CASE r.kind = "collect"
    <2> DEFINE n == [kind |-> "collect", id |-> 0, ok |-> ok, data |-> collected']
    <2>1. /\ answers' = answers \cup {n} /\ collected' = collected + pending /\ pending' = 0
          /\ version' = version + 1 /\ UNCHANGED <<present, cleaned>>
        BY <1>14 DEF Serve
    <2>2. /\ version' \in Nat /\ collected' \in Nat /\ pending' \in Nat
          /\ version' >= version /\ collected' >= collected
          /\ collected' + pending' >= collected + pending
        <3>1. version \in Nat /\ collected \in Nat /\ pending \in Nat
            BY DEF TypeOK
        <3> QED  BY <2>1, <3>1
    <2>3. n \in Answers /\ ~IsRead(n) /\ n.kind # "execute"
        BY <2>2 DEF Answers, IsRead, ReadKinds
    <2> HIDE DEF n
    <2>4. TypeOK'
        <3>1. answers' \in SUBSET Answers
            BY <2>1, <2>3 DEF TypeOK
        <3>2. present' \in SUBSET Items /\ cleaned' \in SUBSET Items
            BY <2>1 DEF TypeOK
        <3> QED  BY <1>10, <2>2, <3>1, <3>2
    <2>5. /\ AnswersInv(Actor, answers)' /\ QueueInv(Actor, queue, answers)'
          /\ StaleInv(Actor, queue, answers)'
        BY <1>12, <2>1, <2>2, <2>3
    <2>6. ExecuteInv(Actor, queue, answers)'
        <3>1. \A x \in answers' : x.kind = "execute" => x \in answers
            BY <2>1, <2>3
        <3>2. /\ Actor.executing => Actor.active # None
              /\ \A x \in answers' : x.kind = "execute" =>
                   /\ Actor.executing /\ x.id = Actor.active
                   /\ \A y \in answers' : y.kind = "execute" => y = x
            BY <1>5, <3>1 DEF ExecuteInv
        <3>3. ASSUME NEW i \in 1..Len(queue'), Executes(queue', i)
              PROVE  /\ Actor.executing /\ queue'[i].id = Actor.active
                     /\ \A j \in 1..Len(queue') : Executes(queue', j) => j = i
                     /\ \A x \in answers' : x.kind # "execute"
            <4>1. /\ Actor.executing /\ queue[i + 1].id = Actor.active
                  /\ \A j \in 1..Len(queue) : Executes(queue, j) => j = i + 1
                  /\ \A x \in answers : x.kind # "execute"
                BY <1>3, <1>4, <1>5, <3>3 DEF ExecuteInv
            <4>2. \A j \in 1..Len(queue') : Executes(queue', j) => j + 1 = i + 1
                BY <1>3, <1>4, <4>1
            <4> QED  BY <1>2, <3>1, <4>1, <4>2
        <3> QED  BY <1>1, <3>2, <3>3 DEF ExecuteInv
    <2>7. GoneInv(Actor, answers)' /\ QueuedInv(Actor)'
        BY <1>1, <1>5, <2>1, <2>3 DEF GoneInv, QueuedInv
    <2>8. (Actor \in Actors /\ Sent(Actor) = queue)'
        BY <2>4, ActorTypes, PTL
    <2>9. IInv'
        BY <1>7, <2>5, <2>6, <2>7, <2>8 DEF IInv, Fine
    <2> QED  BY <1>9, <2>4, <2>9
<1> QED  BY <1>11, <1>13, <1>14 DEF Serve

LEMMA WakeStep ==
    ASSUME ViewAssumption, TypeOK, IInv, Wake
    PROVE  TypeOK' /\ IInv' /\ Shows
<1> DEFINE c == [Actor EXCEPT !.poll = "none"]
           d == [Actor EXCEPT !.poll = "reading", !.demanded = demand]
           b == IF executing THEN c ELSE Reading(d, "poll")
<1>1. /\ answers' = answers /\ answers' \in SUBSET Answers /\ events' \in Nat /\ demand \in Nat
      /\ Becomes(b)
    BY DEF Wake, TypeOK
<1>2. Fine(Actor, answers) /\ Actor \in Actors /\ ChipInv(Actor)
    BY ActorTypes DEF IInv, Fine
<1>3. /\ c \in Actors /\ SameView(Actor, c) /\ SameJob(Actor, c) /\ SameAsked(Actor, c)
      /\ c.preview = Actor.preview /\ c.confirmed = Actor.confirmed
      /\ d \in Actors /\ SameView(Actor, d) /\ SameJob(Actor, d) /\ SameAsked(Actor, d)
      /\ d.preview = Actor.preview /\ d.confirmed = Actor.confirmed
    BY <1>1, <1>2 DEF Actors, SameView, SameJob, SameAsked
<1> HIDE DEF c, d
<1>4. ChipInv(c) /\ ChipInv(d)
    BY <1>2, <1>3, SameEarned DEF ChipInv
<1>5. Fine(c, answers) /\ Leads(Actor, c) /\ Fine(d, answers) /\ Leads(Actor, d)
    BY <1>2, <1>3, <1>4, CalmFine, LeadsSame
<1>6. "poll" \in ReadKinds /\ answers \in SUBSET Answers
    BY <1>1 DEF ReadKinds
<1>7. Fine(b, answers) /\ Leads(Actor, b)
    <2>1. CASE executing
        BY <2>1, <1>5
    <2>2. CASE ~executing
        <3> DEFINE e == Reading(d, "poll")
        <3>1. b = e
            BY <2>2
        <3> HIDE DEF e
        <3>2. Fine(e, answers) /\ Leads(d, e)
            BY <1>5, <1>6, ReadingStep DEF e
        <3>3. e \in Actors
            BY <3>2 DEF Fine
        <3> QED  BY <1>2, <1>3, <1>5, <3>1, <3>2, <3>3, LeadsOn
    <2> QED  BY <2>1, <2>2
<1> HIDE DEF b
<1> QED  BY <1>1, <1>7, BecomesFine, BecomesShows

LEMMA ReloadStep ==
    ASSUME ViewAssumption, TypeOK, IInv, Reload
    PROVE  TypeOK' /\ IInv' /\ Shows
<1> DEFINE b == Reading(Actor, "other")
<1>1. /\ answers' = answers /\ answers \in SUBSET Answers /\ events' \in Nat /\ Becomes(b)
    <2>1. answers \in SUBSET Answers /\ events \in Nat
        BY DEF TypeOK
    <2> QED  BY <2>1 DEF Reload, Stimulus
<1>2. "other" \in ReadKinds
    BY DEF ReadKinds
<1> HIDE DEF b
<1>3. Fine(b, answers) /\ Leads(Actor, b)
    BY <1>1, <1>2, ReadingStep DEF IInv, b
<1> QED  BY <1>1, <1>3, BecomesFine, BecomesShows

LEMMA FinishStep ==
    ASSUME ViewAssumption, TypeOK, IInv, FinishPreview
    PROVE  TypeOK' /\ IInv' /\ Shows
<1> DEFINE p == [preview EXCEPT !.finished = TRUE]
           c == [Actor EXCEPT !.preview = p]
           b == Retired(c)
<1>1. /\ answers' = answers /\ answers \in SUBSET Answers /\ events' \in Nat
      /\ preview \in Previews
    BY DEF FinishPreview, TypeOK
<1>2. Becomes(b)
    <2>1. c = [Actor EXCEPT !.preview.finished = TRUE]
        BY DEF Actor
    <2> HIDE DEF c
    <2> QED  BY <2>1 DEF FinishPreview
<1>3. Fine(Actor, answers) /\ Actor \in Actors /\ ChipInv(Actor)
    BY ActorTypes DEF IInv, Fine
<1>4. /\ p \in Previews /\ p.target = preview.target /\ p.resolved = preview.resolved
      /\ p # None /\ preview # None
    BY <1>1 DEF Previews, ViewAssumption
<1> HIDE DEF p
<1>5. /\ c \in Actors /\ SameView(Actor, c) /\ SameJob(Actor, c) /\ SameAsked(Actor, c)
      /\ c.preview = p /\ c.confirmed = Actor.confirmed /\ Actor.preview = preview
    BY <1>3, <1>4 DEF Actors, SameView, SameJob, SameAsked, Actor
<1> HIDE DEF c
<1>6. Fine(c, answers)
    <2>1. ChipInv(c)
        BY <1>3, <1>4, <1>5, SameEarned DEF ChipInv
    <2> QED  BY <1>3, <1>5, <2>1, CalmFine
<1>7. Leads(Actor, c)
    <2>1. Balance(Actor) = preview.target /\ Balance(c) = preview.target
        BY <1>4, <1>5 DEF Balance
    <2>2. Balance(Actor) \in Nat /\ Actor.shown.version \in Nat
        BY <1>3, ChipAmounts
    <2>3. Estimated(c) <=> Estimated(Actor)
        BY <1>4, <1>5 DEF Estimated
    <2> QED  BY <1>5, <2>1, <2>2, <2>3 DEF Leads, SameView
<1>8. Fine(b, answers) /\ Leads(c, b)
    BY <1>6, RetiredStep
<1> HIDE DEF b
<1>9. b \in Actors
    BY <1>8 DEF Fine
<1>10. Leads(Actor, b)
    BY <1>3, <1>5, <1>7, <1>8, <1>9, LeadsOn
<1> QED  BY <1>1, <1>2, <1>8, <1>10, BecomesFine, BecomesShows

LEMMA CancelStep ==
    ASSUME ViewAssumption, TypeOK, IInv, Cancel
    PROVE  TypeOK' /\ IInv' /\ Shows
<1> DEFINE none == <<>>
           c == [Actor EXCEPT !.cancelled = TRUE, !.queued = none]
           b == Reconciled(c)
<1>1. /\ answers' = answers /\ answers \in SUBSET Answers /\ events' \in Nat /\ Becomes(b)
      /\ None \notin Previews
    BY DEF Cancel, Stimulus, TypeOK, ViewAssumption
<1>2. Fine(Actor, answers) /\ Actor \in Actors /\ ChipInv(Actor)
    BY ActorTypes DEF IInv, Fine
<1>3. none \in Seq(Items) /\ Len(none) = 0
    OBVIOUS
<1> HIDE DEF none
<1>4. /\ c \in Actors /\ SameView(Actor, c) /\ SameAsked(Actor, c) /\ SameChips(Actor, c)
      /\ c.queued = none /\ c.active = Actor.active /\ c.executing = Actor.executing
    BY <1>2, <1>3 DEF Actors, SameView, SameAsked, SameChips
<1> HIDE DEF c
<1>5. Sent(c) = Sent(Actor)
    BY <1>4 DEF Sent, SameAsked
<1>6. Fine(c, answers)
    <2>1. AnswersInv(c, answers) /\ QueueInv(c, Sent(c), answers) /\ ExecuteInv(c, Sent(c), answers)
        BY <1>2, <1>4, <1>5 DEF Fine, AnswersInv, QueueInv, ExecuteInv, SameView, SameAsked
    <2>2. StaleInv(c, Sent(c), answers) /\ GoneInv(c, answers)
        BY <1>2, <1>4, <1>5 DEF Fine, StaleInv, GoneInv, SameView, SameAsked
    <2>3. QueuedInv(c)
        BY <1>3, <1>4 DEF QueuedInv
    <2>4. ChipInv(c)
        BY <1>2, <1>4, SameEarned DEF ChipInv, SameChips
    <2> QED  BY <1>4, <2>1, <2>2, <2>3, <2>4 DEF Fine
<1>7. Leads(Actor, c)
    BY <1>2, <1>4, LeadsSame DEF SameChips
<1>8. Fine(b, answers) /\ Leads(c, b)
    BY <1>1, <1>6, ReconciledStep
<1> HIDE DEF b
<1>9. b \in Actors
    BY <1>8 DEF Fine
<1>10. Leads(Actor, b)
    BY <1>2, <1>4, <1>7, <1>8, <1>9, LeadsOn
<1> QED  BY <1>1, <1>8, <1>10, BecomesFine, BecomesShows

LEMMA CleanStep ==
    ASSUME ViewAssumption, TypeOK, IInv, NEW i \in Items, Clean(i)
    PROVE  TypeOK' /\ IInv' /\ Shows
<1> DEFINE q == Append(queued, i)
           k == cancelled /\ (active # None \/ queued # <<>>)
           a == [Actor EXCEPT !.cancelled = k, !.queued = q]
           t == Earned(a) + Cardinality(Outstanding(a))
           p == [target |-> t,
                 resolved |-> FALSE, finished |-> FALSE]
           c == [a EXCEPT !.preview = p]
           d == Started(c)
           b == Polled(d)
<1>1. /\ answers' = answers /\ answers \in SUBSET Answers /\ events' \in Nat
      /\ None \notin Items /\ None \notin Previews /\ i \in Displayed
    BY DEF Clean, Stimulus, TypeOK, ViewAssumption
<1>2. Becomes(b)
    <2>1. a = [Actor EXCEPT !.cancelled = @ /\ (active # None \/ queued # <<>>),
                            !.queued = Append(@, i)]
        BY DEF Actor
    <2> HIDE DEF a
    <2> QED  BY <2>1 DEF Clean
<1>3. Fine(Actor, answers) /\ Actor \in Actors /\ ChipInv(Actor)
    BY ActorTypes DEF IInv, Fine
<1>4. q \in Seq(Items) /\ k \in BOOLEAN
    BY DEF TypeOK
<1>5. /\ queued \in Seq(Items) /\ Len(queued) \in Nat /\ Len(q) = Len(queued) + 1
      /\ \A l \in 1..Len(queued) : q[l] = queued[l]
      /\ q[Len(queued) + 1] = i
      /\ Actor.queued = queued /\ Actor.active = active
    BY DEF TypeOK, Actor
<1> HIDE DEF q, k
<1>6. /\ a \in Actors /\ SameView(Actor, a) /\ SameAsked(Actor, a) /\ SameChips(Actor, a)
      /\ a.queued = q /\ a.active = Actor.active /\ a.executing = Actor.executing
    BY <1>3, <1>4 DEF Actors, SameView, SameAsked, SameChips
<1> HIDE DEF a
<1>7. p \in Previews /\ ~p.resolved /\ p.target >= Earned(a) /\ p.target \in Nat /\ p # None
    <2>1. IsFiniteSet(ToSet(a.queued))
        BY <1>6, QueuedFinite DEF Actors
    <2>2. Cardinality(Outstanding(a)) \in Nat
        BY <2>1, FS_Union, FS_Singleton, FS_EmptySet, FS_CardinalityType DEF Outstanding
    <2>3. Earned(a) \in Nat
        BY <1>6, ChipAmounts
    <2>4. t \in Nat /\ t >= Earned(a)
        BY <2>2, <2>3
    <2> HIDE DEF t
    <2>5. p \in Previews /\ ~p.resolved /\ p.target = t
        BY <2>4 DEF Previews
    <2> QED  BY <1>1, <2>4, <2>5
<1> HIDE DEF p
<1>8. /\ c \in Actors /\ SameView(Actor, c) /\ SameAsked(Actor, c) /\ c.confirmed = Actor.confirmed
      /\ c.queued = q /\ c.active = Actor.active /\ c.executing = Actor.executing /\ c.preview = p
    BY <1>6, <1>7 DEF Actors, SameView, SameAsked, SameChips
<1> HIDE DEF c
<1>9. Sent(c) = Sent(Actor)
    BY <1>8 DEF Sent, SameAsked
\* What is shown and not waiting has not been removed.
<1>10. i \notin cleaned /\ i # active /\ \A l \in 1..Len(queued) : queued[l] # i
    <2>1. i \in Actor.shown.present /\ i \notin Outstanding(Actor)
        BY <1>1 DEF Displayed, Actor
    <2>2. \A l \in 1..Len(queued) : queued[l] \in ToSet(queued)
        BY <1>5 DEF ToSet
    <2>3. i \notin ToSet(queued) /\ i # active
        BY <1>1, <1>5, <2>1 DEF Outstanding
    <2> QED  BY <1>3, <1>5, <2>1, <2>2, <2>3 DEF Fine, GoneInv
<1>11. QueuedInv(c)
    <2>1. \A l \in 1..Len(q) : l \in 1..Len(queued) \/ l = Len(queued) + 1
        BY <1>5
    <2>2. \A l \in 1..Len(queued) :
            /\ queued[l] \notin cleaned /\ queued[l] # active
            /\ \A m \in 1..Len(queued) : queued[l] = queued[m] => l = m
        BY <1>3, <1>5 DEF Fine, QueuedInv
    <2> SUFFICES ASSUME NEW l \in 1..Len(q)
                 PROVE  /\ q[l] \notin cleaned /\ q[l] # active
                        /\ \A m \in 1..Len(q) : q[l] = q[m] => l = m
        BY <1>5, <1>8 DEF QueuedInv
    <2>3. CASE l \in 1..Len(queued)
        BY <1>5, <1>10, <2>1, <2>2, <2>3
    <2>4. CASE l = Len(queued) + 1
        BY <1>5, <1>10, <2>1, <2>2, <2>4
    <2> QED  BY <2>1, <2>3, <2>4
<1>12. Fine(c, answers)
    <2>1. AnswersInv(c, answers) /\ QueueInv(c, Sent(c), answers) /\ ExecuteInv(c, Sent(c), answers)
        BY <1>3, <1>8, <1>9 DEF Fine, AnswersInv, QueueInv, ExecuteInv, SameView, SameAsked
    <2>2. StaleInv(c, Sent(c), answers) /\ GoneInv(c, answers)
        BY <1>3, <1>8, <1>9 DEF Fine, StaleInv, GoneInv, SameView, SameAsked
    <2>3. ChipInv(c)
        BY <1>7, <1>8 DEF ChipInv
    <2> QED  BY <1>8, <1>11, <2>1, <2>2, <2>3 DEF Fine
<1>13. Fine(d, answers) /\ SameMoney(c, d)
    BY <1>1, <1>12, StartedStep
<1> HIDE DEF d
<1>14. Fine(b, answers) /\ SameView(d, b) /\ SameChips(d, b)
    BY <1>1, <1>13, PolledStep
<1> HIDE DEF b
<1>15. Shows
    <2>1. b.shown.version = Actor.shown.version /\ b.preview = p
        BY <1>8, <1>13, <1>14 DEF SameView, SameChips, SameMoney
    <2>2. Actor.shown.version \in Nat /\ Earned(Actor) \in Nat /\ Balance(Actor) \in Nat
        BY <1>3, ChipAmounts
    <2>3. Balance(b) = p.target
        BY <1>7, <2>1 DEF Balance
    <2>4. Earned(a) = Earned(Actor)
        BY <1>6, SameEarned DEF SameChips
    <2>5. ~Estimated(Actor) => Balance(Actor) <= Earned(Actor)
        <3>1. CASE Actor.preview = None
            BY <1>3, <3>1, ChipAmounts
        <3>2. CASE Actor.preview # None
            BY <1>3, <3>2 DEF Balance, Estimated, ChipInv
        <3> QED  BY <3>1, <3>2
    <2>6. shown' = b.shown /\ preview' = b.preview /\ confirmed' = b.confirmed
        BY <1>2 DEF Becomes
    <2>7. Balance(Actor)' = Balance(b)
        BY <2>6 DEF Balance, Actor
    <2>8. Balance(b) >= Balance(Actor) \/ Estimated(Actor)
        BY <1>7, <2>2, <2>3, <2>4, <2>5
    <2>9. shown'.version >= shown.version
        BY <2>1, <2>2, <2>6 DEF Actor
    <2>10. Actor.preview = preview
        BY DEF Actor
    <2> QED  BY <2>7, <2>8, <2>9, <2>10 DEF Shows, NoStepBack, FallsOnlyEstimated, Estimated
<1> QED  BY <1>1, <1>2, <1>14, <1>15, BecomesFine

LEMMA ViewInit ==
    ASSUME ViewAssumption, Init
    PROVE  TypeOK /\ IInv
<1>1. TypeOK
    <2>1. shown \in Snapshots
        BY DEF Init, Snapshot, Snapshots
    <2>2. <<>> \in Seq(Requests) /\ <<>> \in Seq(Items)
        OBVIOUS
    <2>3. queue \in Seq(Requests) /\ queued \in Seq(Items)
        BY <2>2 DEF Init
    <2>4. {scanning, executing, running, cancelled, wanted, collecting} \subseteq BOOLEAN
        BY Zenon DEF Init
    <2>5. {pending, collected, version, faults, events} \subseteq Nat
        BY DEF Init
    <2>6. {snapshotRequest, applied, demand, demanded, confirmed} \subseteq Nat
        BY DEF Init
    <2> QED  BY <2>1, <2>3, <2>4, <2>5, <2>6 DEF Init, TypeOK
<1>2. Len(queue) = 0 /\ answers = {} /\ Len(queued) = 0
    BY DEF Init
<1>3. AnswersInv(Actor, answers) /\ QueueInv(Actor, queue, answers)
    BY <1>1, <1>2 DEF Init, Actor, AnswersInv, QueueInv, Later, Snapshot
<1>4. ExecuteInv(Actor, queue, answers) /\ StaleInv(Actor, queue, answers)
    BY <1>2 DEF Init, Actor, ExecuteInv, StaleInv
<1>5. GoneInv(Actor, answers) /\ QueuedInv(Actor) /\ ChipInv(Actor)
    BY <1>2 DEF Init, Actor, GoneInv, QueuedInv, ChipInv, Snapshot
<1> QED  BY <1>1, <1>3, <1>4, <1>5, ActorTypes

LEMMA ViewStep ==
    ASSUME ViewAssumption, TypeOK, IInv, [Next]_vars
    PROVE  TypeOK' /\ IInv' /\ (Next => Shows)
<1>1. CASE Next
    BY <1>1, JobStep, ServeStep, ContinueStep, WakeStep, CleanStep, CancelStep, FinishStep,
       ReloadStep DEF Next
<1>2. CASE UNCHANGED vars
    <2>1. /\ UNCHANGED <<present, scanning, pending, collected, version, faults>>
          /\ UNCHANGED <<queue, answers, events, cleaned>>
          /\ UNCHANGED <<snapshotRequest, applied, shown, demand, poll, demanded>>
          /\ UNCHANGED <<active, queued, executing, running, cancelled>>
          /\ UNCHANGED <<preview, wanted, collecting, confirmed>>
        BY <1>2 DEF vars, engine, client, snapshots, cleanups, chips
    <2>2. TypeOK'
        BY <2>1 DEF TypeOK
    <2>3. IInv'
        <3>1. Actor' = Actor /\ Snapshot' = Snapshot
            BY <2>1 DEF Actor, Snapshot
        <3>2. AnswersInv(Actor, answers)' /\ QueueInv(Actor, queue, answers)'
            BY <2>1, <3>1, ActorTypes DEF AnswersInv, QueueInv
        <3>3. ExecuteInv(Actor, queue, answers)' /\ StaleInv(Actor, queue, answers)'
            BY <2>1, <3>1, ActorTypes DEF ExecuteInv, StaleInv
        <3>4. GoneInv(Actor, answers)' /\ QueuedInv(Actor)' /\ ChipInv(Actor)'
            BY <2>1, <3>1, ActorTypes DEF GoneInv, QueuedInv, ChipInv, Earned
        <3>5. (Actor \in Actors /\ Sent(Actor) = queue)'
            BY <2>2, ActorTypes, PTL
        <3> QED  BY <3>2, <3>3, <3>4, <3>5 DEF IInv, Fine
    <2>4. Shows
        BY <2>1, StillShows
    <2> QED  BY <2>2, <2>3, <2>4
<1> QED  BY <1>1, <1>2

-----------------------------------------------------------------------------
(* The theorems                                                            *)

\* Every variable of the main actor's state keeps its type, whatever is answered and in
\* whatever order the continuations of EngineBridge run.
THEOREM ViewTypeCorrect == ASSUME ViewAssumption PROVE Spec => []TypeOK
<1>1. Init => TypeOK /\ IInv
    BY ViewInit
<1>2. TypeOK /\ IInv /\ [Next]_vars => (TypeOK /\ IInv)'
    BY ViewStep
<1> QED  BY <1>1, <1>2, PTL DEF Spec

\* The inductive invariant: reads are answered in the order they were asked for, those from
\* before a cleanup are never applied, and a resolved preview promises what was earned.
THEOREM ViewInvariant == ASSUME ViewAssumption PROVE Spec => [](TypeOK /\ IInv)
<1>1. Init => TypeOK /\ IInv
    BY ViewInit
<1>2. TypeOK /\ IInv /\ [Next]_vars => (TypeOK /\ IInv)'
    BY ViewStep
<1> QED  BY <1>1, <1>2, PTL DEF Spec

\* An item that was removed is never offered again: it shows only while it is the one that
\* is being cleaned (clean, startNextCleanupIfPossible, reload).
THEOREM RemovedStaysGone == ASSUME ViewAssumption PROVE Spec => []NoGhosts
<1>1. TypeOK /\ IInv => NoGhosts
    <2> SUFFICES ASSUME TypeOK, IInv, NEW i \in Displayed, i \in cleaned
                 PROVE  FALSE
        BY DEF NoGhosts
    <2>1. i \in shown.present /\ i \notin Outstanding(Actor)
        BY DEF Displayed
    <2>2. i = active
        BY <2>1, ActorTypes DEF GoneInv, Actor
    <2>3. i \in Items
        BY DEF TypeOK
    <2> QED  BY <2>1, <2>2, <2>3 DEF Outstanding, Actor, ViewAssumption
<1> QED  BY <1>1, ViewInvariant, PTL

\* reload() applies no answer that is older than what is shown, in any order of the
\* continuations.
THEOREM ViewNeverStepsBack == ASSUME ViewAssumption PROVE Spec => ViewMovesForward
<1>1. TypeOK /\ IInv /\ [Next]_vars => [NoStepBack]_vars
    BY ViewStep DEF Shows
<1> QED  BY <1>1, ViewInvariant, PTL DEF Spec, ViewMovesForward

\* The balance falls only while a cleanup is estimated: not when a preview is resolved or
\* retired, nor when chips are collected.
THEOREM BalanceOnlyGrows == ASSUME ViewAssumption PROVE Spec => BalanceStands
<1>1. TypeOK /\ IInv /\ [Next]_vars => [FallsOnlyEstimated]_vars
    BY ViewStep DEF Shows
<1> QED  BY <1>1, ViewInvariant, PTL DEF Spec, BalanceStands

=============================================================================
